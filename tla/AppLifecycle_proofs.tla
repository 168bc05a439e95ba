------------------------ MODULE AppLifecycle_proofs ------------------------
(***************************************************************************)
(* Proofs about AppLifecycle, for every value of its constants: any number *)
(* of request threads, apps' configurations, histories of any length.      *)
(***************************************************************************)
EXTENDS AppLifecycle, TLAPS

-----------------------------------------------------------------------------
(* The strengthening of TypeOK.  Statements are shared by operations, so    *)
(* types alone do not say that a thread about to create a service is a      *)
(* create, or that a deploy has a PAD: which operations can stand at which  *)
(* statement has to be carried along.                                       *)

OpsAt(pc) ==
    CASE pc = "idle" -> {None}
      [] pc = "prepare" -> {"deploy"}
      [] pc = "target" -> {"rollback"}
      [] pc = "secret" -> {"constants", "create"}
      [] pc = "key" -> {"license", "create"}
      [] pc = "sync" -> {"deploy"}
      [] pc = "persist" -> {"deploy"}
      [] pc = "drop" -> {"delete_license"}
      [] pc \in Provision -> {"create"}
      [] pc \in Teardown -> {"create", "delete"}
      [] pc \in {"quiesce", "td_row"} -> {"delete"}
      [] OTHER -> TaskOps

\* OpsAt, statement by statement.
LEMMA OpsAtStatement ==
    /\ OpsAt("idle") = {None}
    /\ OpsAt("prepare") = {"deploy"}
    /\ OpsAt("target") = {"rollback"}
    /\ OpsAt("secret") = {"constants", "create"}
    /\ OpsAt("key") = {"license", "create"}
    /\ OpsAt("sync") = {"deploy"} /\ OpsAt("persist") = {"deploy"}
    /\ OpsAt("drop") = {"delete_license"}
    /\ \A pc \in Provision : OpsAt(pc) = {"create"}
    /\ \A pc \in Teardown : OpsAt(pc) = {"create", "delete"}
    /\ \A pc \in {"quiesce", "td_row"} : OpsAt(pc) = {"delete"}
    /\ \A pc \in {"mark", "upfront", "apply", "eai", "poll", "containers", "stamp",
                  "timeout", "fail", "record", "prune"} : OpsAt(pc) = TaskOps
BY DEF OpsAt, Provision, Teardown

ThreadOK ==
    \A w \in Workers :
        /\ worker[w].op \in OpsAt(worker[w].pc)
        /\ worker[w].op = "deploy" => worker[w].cfg.pad \in Pads

-----------------------------------------------------------------------------
(* Type correctness.                                                       *)

USE KeepAssumption, LifecycleAssumption

LEMMA BlankConfigType == BlankConfig \in Config
BY DEF BlankConfig, Config

LEMMA IdleWorkerType == IdleWorker \in Worker
BY BlankConfigType DEF IdleWorker, Worker, Pcs, Statuses, Settled, Outcomes

LEMMA NoRowType == NoRow \in Row
BY BlankConfigType DEF NoRow, Row, Statuses, Settled

LEMMA NoServiceType == NoService \in Service
BY BlankConfigType DEF NoService, Service

\* What the helpers on a history return.
LEMMA InsertedType ==
    ASSUME NEW S, NEW h \in Seq(S), NEW e \in S
    PROVE  Inserted(h, e) \in Seq(S)
BY DEF Inserted

LEMMA PrunedType ==
    ASSUME NEW S, NEW h \in Seq(S)
    PROVE  Pruned(h) \in Seq(S)
<1> DEFINE n == IF Len(h) <= Keep THEN Len(h) ELSE Keep
<1>1. n \in Nat /\ n <= Len(h)
  OBVIOUS
<1>2. \A i \in 1 .. n : h[i] \in S
  BY <1>1
<1>3. [i \in 1 .. n |-> h[i]] \in [1 .. n -> S]
  BY <1>2
<1> QED
  BY <1>1, <1>3 DEF Pruned

\* A thread that continues, and a request that enters, keep their types.
LEMMA ContinueType ==
    ASSUME TypeOK, NEW w \in Workers, NEW pc \in Pcs, NEW outcome \in Outcomes,
           Continue(w, pc, outcome)
    PROVE  worker' \in [Workers -> Worker]
BY IdleWorkerType DEF TypeOK, Continue, Worker

LEMMA GotoType ==
    ASSUME TypeOK, NEW w \in Workers, NEW pc \in Pcs, Goto(w, pc)
    PROVE  worker' \in [Workers -> Worker]
<1>1. worker[w].outcome \in Outcomes
  BY DEF TypeOK, Worker
<1> QED
  BY <1>1, ContinueType DEF Goto

LEMMA EnterOK ==
    ASSUME TypeOK, ThreadOK,
           NEW w \in Workers, NEW op \in AllOps, NEW pc \in Pcs,
           NEW cfg \in Config, NEW todo \in SUBSET ConstNames,
           Enter(w, op, pc, cfg, todo),
           op \in OpsAt(pc),
           op = "deploy" => cfg.pad \in Pads
    PROVE  TypeOK' /\ ThreadOK'
<1> DEFINE entered == [pc |-> pc, op |-> op, cfg |-> cfg, todo |-> todo,
                       seen |-> row.status, outcome |-> "READY"]
<1>1. row.status \in Statuses
  BY DEF TypeOK, Row
<1>2. entered \in Worker
  BY <1>1 DEF Worker, Outcomes
<1>3. worker' \in [Workers -> Worker]
  BY <1>2 DEF Enter, TypeOK
<1>4. worker'[w] = entered /\ \A v \in Workers \ {w} : worker'[v] = worker[v]
  BY DEF Enter, TypeOK
<1>5. TypeOK'
  BY <1>3 DEF Enter, TypeOK
<1>6. ThreadOK'
  BY <1>4 DEF ThreadOK
<1> QED
  BY <1>5, <1>6

LEMMA UpdateAppType ==
    ASSUME TypeOK, NEW new \in Row, UpdateApp(new)
    PROVE  row' \in Row
BY DEF TypeOK, UpdateApp


\* Every request a handler admits enters with well-typed parameters.
LEMMA HandleOK ==
    ASSUME TypeOK, ThreadOK, NEW w \in Workers, Handle(w)
    PROVE  TypeOK' /\ ThreadOK'
<1> USE OpsAtStatement DEF AllOps, TaskOps, SpecOps, Pcs, Teardown, Provision
<1>1. row.cfg \in Config /\ staged \subseteq Pads /\ env.bound \subseteq Slots
  BY DEF TypeOK, Row
<1>2. CASE TriggerDeploy(w)
  <2>1. PICK pad \in staged :
          Enter(w, "deploy", "prepare", [row.cfg EXCEPT !.pad = pad], {})
    BY <1>2 DEF TriggerDeploy
  <2> DEFINE cfg == [row.cfg EXCEPT !.pad = pad]
  <2>2. cfg \in Config /\ cfg.pad \in Pads
    BY <1>1 DEF Config
  <2>3. Enter(w, "deploy", "prepare", cfg, {})
    BY <2>1
  <2> HIDE DEF cfg
  <2> QED
    BY <2>2, <2>3, EnterOK
<1>3. CASE UpdateConstants(w)
  <2>1. PICK changed \in SUBSET ConstNames :
          Enter(w, "constants", "secret",
                [row.cfg EXCEPT !.consts = @ \cup changed], changed)
    BY <1>3 DEF UpdateConstants
  <2>2. [row.cfg EXCEPT !.consts = @ \cup changed] \in Config
    BY <1>1 DEF Config
  <2> QED
    BY <2>1, <2>2, EnterOK
<1>4. CASE UpdateSpec(w)
  <2>1. PICK t \in Tiers : Enter(w, "spec", "mark", [row.cfg EXCEPT !.tier = t], {})
    BY <1>4 DEF UpdateSpec
  <2>2. [row.cfg EXCEPT !.tier = t] \in Config
    BY <1>1 DEF Config
  <2> QED
    BY <2>1, <2>2, EnterOK
<1>5. CASE ApplyPlatformUpdate(w)
  BY <1>1, <1>5, EnterOK DEF ApplyPlatformUpdate
<1>6. CASE UpdateExternalAccess(w)
  <2>1. PICK slots \in SUBSET env.bound :
          Enter(w, "external_access", "mark", [row.cfg EXCEPT !.ext = slots], {})
    BY <1>6 DEF UpdateExternalAccess
  <2>2. [row.cfg EXCEPT !.ext = slots] \in Config
    BY <1>1 DEF Config
  <2> QED
    BY <2>1, <2>2, EnterOK
<1>7. CASE UpdateLicense(w)
  <2>1. PICK l \in Licenses :
          Enter(w, "license", "key", [row.cfg EXCEPT !.license = l], {})
    BY <1>7 DEF UpdateLicense
  <2>2. [row.cfg EXCEPT !.license = l] \in Config
    BY <1>1 DEF Config
  <2> QED
    BY <2>1, <2>2, EnterOK
<1>8. CASE DeleteLicense(w)
  <2>1. [row.cfg EXCEPT !.license = None] \in Config
    BY <1>1 DEF Config
  <2> QED
    BY <1>8, <2>1, EnterOK DEF DeleteLicense
<1>9. CASE UpdateRoleMapping(w)
  <2>1. PICK m \in SUBSET UserRoles :
          Enter(w, "role_mapping", "mark", [row.cfg EXCEPT !.mapping = m], {})
    BY <1>9 DEF UpdateRoleMapping
  <2>2. [row.cfg EXCEPT !.mapping = m] \in Config
    BY <1>1 DEF Config
  <2> QED
    BY <2>1, <2>2, EnterOK
<1>10. CASE DeleteRoleMapping(w)
  <2>1. [row.cfg EXCEPT !.mapping = {}] \in Config
    BY <1>1 DEF Config
  <2> QED
    BY <1>10, <2>1, EnterOK DEF DeleteRoleMapping
<1>11. CASE RollbackApp(w)
  BY <1>1, <1>11, EnterOK DEF RollbackApp
<1>12. CASE SuspendApp(w)
  BY <1>1, <1>12, EnterOK DEF SuspendApp
<1>13. CASE ResumeApp(w)
  BY <1>1, <1>13, EnterOK DEF ResumeApp
<1>14. CASE DeleteApp(w)
  BY <1>1, <1>14, EnterOK DEF DeleteApp
<1>15. CASE CreateApp(w)
  <2>1. PICK t \in Tiers, l \in Licenses \cup {None}, slots \in SUBSET env.bound,
            names \in SUBSET ConstNames :
          Enter(w, "create", "schema",
                [BlankConfig EXCEPT !.tier = t, !.license = l, !.ext = slots,
                                    !.consts = names], names)
    BY <1>15 DEF CreateApp
  <2>2. [BlankConfig EXCEPT !.tier = t, !.license = l, !.ext = slots,
                            !.consts = names] \in Config
    BY <1>1, BlankConfigType DEF Config
  <2> QED
    BY <2>1, <2>2, EnterOK
<1> QED
  BY <1>2, <1>3, <1>4, <1>5, <1>6, <1>7, <1>8, <1>9, <1>10, <1>11, <1>12, <1>13,
     <1>14, <1>15 DEF Handle

\* Where the statements' own successors lie.
LEMMA SuccessorTypes ==
    /\ \A op : AfterSecrets(op) \in Pcs
    /\ \A op, todo : TaskStart(op, todo) \in Pcs
    /\ \A op : InProgress(op) \in Statuses
    /\ \A op : AfterStamp(op) \in Pcs
    /\ \A pc, op : AfterRaise(pc, op) \in Pcs
    /\ \A pc \in Teardown : \A op, outcome : AfterTeardown(pc, op, outcome) \in Pcs
<1> USE DEF Pcs, Teardown
<1>1. \A op : AfterSecrets(op) \in Pcs
  BY DEF AfterSecrets, Provision
<1>2. \A op, todo : TaskStart(op, todo) \in Pcs
  BY DEF TaskStart
<1>3. \A op : InProgress(op) \in Statuses
  BY DEF InProgress, Statuses, Transient
<1>4. \A op : AfterStamp(op) \in Pcs
  BY DEF AfterStamp
<1>5. \A pc, op : AfterRaise(pc, op) \in Pcs
  BY DEF AfterRaise
<1>6. ASSUME NEW pc \in Teardown, NEW op, NEW outcome
      PROVE  AfterTeardown(pc, op, outcome) \in Pcs
  BY <1>6 DEF AfterTeardown, AfterCleanup
<1> QED
  BY <1>1, <1>2, <1>3, <1>4, <1>5, <1>6

\* The columns and specs that statements compute are configurations.
LEMMA ConfigTypes ==
    ASSUME NEW c \in Config, NEW t \in Config, NEW op
    PROVE  /\ PersistedEarly(op, c, t) \in Config
           /\ SuccessColumns(op, c, t) \in Config
           /\ BuiltSpec(c, t) \in Config
<1> USE DEF Config
<1>1. PersistedEarly(op, c, t) \in Config
  BY DEF PersistedEarly
<1>2. SuccessColumns(op, c, t) \in Config
  BY DEF SuccessColumns
<1>3. BuiltSpec(c, t) \in Config
  BY DEF BuiltSpec
<1> QED
  BY <1>1, <1>2, <1>3

LEMMA ThreadTypes ==
    ASSUME TypeOK, NEW w \in Workers
    PROVE  /\ worker[w] \in Worker
           /\ worker[w].op \in AllOps \cup {None}
           /\ worker[w].pc \in Pcs
           /\ worker[w].cfg \in Config
           /\ worker[w].todo \subseteq ConstNames
           /\ worker[w].outcome \in Outcomes
BY DEF TypeOK, Worker

\* Every statement of a handler or task, and every failure, keeps the types.
LEMMA HandlerStatementsType ==
    ASSUME TypeOK, ThreadOK, NEW w \in Workers,
           \/ PrepareDeploy(w) \/ ChooseTarget(w) \/ WriteSecret(w) \/ WriteKey(w)
           \/ MarkInProgress(w) \/ Persist(w)
    PROVE  TypeOK'
<1>0. /\ worker[w] \in Worker
      /\ row \in Row /\ row.cfg \in Config
      /\ vault \in Vault
  BY ThreadTypes DEF TypeOK, Row
<1>1. CASE PrepareDeploy(w)
  <2> DEFINE pad == worker[w].cfg.pad
             new == Declares[pad] \ row.cfg.consts
             prepared == [row.cfg EXCEPT !.pad = pad, !.consts = @ \cup new]
  <2>1. CASE Goto(w, "idle")
    BY <1>1, <2>1, GotoType DEF PrepareDeploy, TypeOK, Pcs
  <2>2. CASE worker' = [worker EXCEPT ![w] =
                          [@ EXCEPT !.pc = "mark", !.todo = new, !.cfg = prepared]]
    <3>1. worker[w].op = "deploy"
      BY <1>1, OpsAtStatement DEF PrepareDeploy, At, ThreadOK
    <3>2. pad \in Pads /\ new \subseteq ConstNames
      BY <3>1 DEF ThreadOK
    <3>3. prepared \in Config
      BY <1>0, <3>2 DEF Config
    <3>4. [worker[w] EXCEPT !.pc = "mark", !.todo = new, !.cfg = prepared] \in Worker
      <4> HIDE DEF new, prepared
      <4> QED
        BY <1>0, <3>2, <3>3 DEF Worker, Pcs
    <3>5. worker' \in [Workers -> Worker]
      <4> HIDE DEF new, prepared
      <4> QED
        BY <2>2, <3>4 DEF TypeOK
    <3> QED
      BY <1>1, <3>5 DEF PrepareDeploy, TypeOK
  <2> QED
    BY <1>1, <2>1, <2>2 DEF PrepareDeploy
<1>2. CASE ChooseTarget(w)
  <2>1. CASE Goto(w, "idle")
    BY <1>2, <2>1, GotoType DEF ChooseTarget, TypeOK, Pcs
  <2>2. CASE \E t \in RollbackTargets(worker[w].cfg) :
               worker' = [worker EXCEPT ![w].pc = "mark", ![w].cfg = t]
    <3>1. PICK t \in RollbackTargets(worker[w].cfg) :
            worker' = [worker EXCEPT ![w].pc = "mark", ![w].cfg = t]
      BY <2>2
    <3>2. PICK i \in DOMAIN history : t = [history[i].cfg EXCEPT !.consts = worker[w].cfg.consts]
      BY <3>1 DEF RollbackTargets, ReadyRows
    <3>3. history[i] \in HistoryRow(Config)
      BY <3>2 DEF TypeOK
    <3>4. t \in Config
      <4>1. history[i].cfg \in Config
        BY <3>3 DEF HistoryRow
      <4> QED
        BY <3>2, <4>1, ThreadTypes DEF Config
    <3>5. [worker[w] EXCEPT !.pc = "mark", !.cfg = t] \in Worker
      BY <1>0, <3>4 DEF Worker, Pcs
    <3>6. worker' \in [Workers -> Worker]
      BY <3>1, <3>5 DEF TypeOK
    <3> QED
      BY <1>2, <3>6 DEF ChooseTarget, TypeOK
  <2> QED
    BY <1>2, <2>1, <2>2 DEF ChooseTarget
<1>3. CASE WriteSecret(w)
  <2>1. PICK c \in worker[w].todo :
          /\ vault' = [vault EXCEPT !.consts = @ \cup {c}]
          /\ worker' = [worker EXCEPT
                ![w].todo = @ \ {c},
                ![w].pc = IF worker[w].todo = {c} THEN AfterSecrets(worker[w].op) ELSE @]
    BY <1>3 DEF WriteSecret
  <2>2. c \in ConstNames
    BY <2>1, ThreadTypes
  <2>3. vault' \in Vault
    BY <1>0, <2>1, <2>2 DEF Vault
  <2>4. [worker[w] EXCEPT !.todo = @ \ {c},
            !.pc = IF worker[w].todo = {c} THEN AfterSecrets(worker[w].op) ELSE @] \in Worker
    BY <1>0, SuccessorTypes DEF Worker
  <2>5. worker' \in [Workers -> Worker]
    BY <2>1, <2>4 DEF TypeOK
  <2> QED
    BY <1>3, <2>3, <2>5 DEF WriteSecret, TypeOK
<1>4. CASE WriteKey(w)
  <2>1. worker[w].cfg.license \in Licenses \cup {None}
    BY ThreadTypes DEF Config
  <2>2. vault' \in Vault
    BY <1>0, <1>4, <2>1 DEF WriteKey, Vault
  <2>3. worker' \in [Workers -> Worker]
    BY <1>4, GotoType DEF WriteKey, AfterKey, Pcs, Provision
  <2> QED
    BY <1>4, <2>2, <2>3 DEF WriteKey, TypeOK
<1>5. CASE MarkInProgress(w)
  <2>1. [row EXCEPT !.status = InProgress(worker[w].op)] \in Row
    BY <1>0, SuccessorTypes DEF Row
  <2>2. row' \in Row
    BY <1>5, <2>1, UpdateAppType DEF MarkInProgress
  <2>3. worker' \in [Workers -> Worker]
    BY <1>5, GotoType, SuccessorTypes DEF MarkInProgress
  <2> QED
    BY <1>5, <2>2, <2>3 DEF MarkInProgress, TypeOK
<1>6. CASE Persist(w)
  <2> DEFINE persisted == PersistedEarly(worker[w].op, row.cfg, worker[w].cfg)
  <2>1. persisted \in Config
    BY <1>0, ConfigTypes, ThreadTypes
  <2>2. [row EXCEPT !.cfg = persisted] \in Row
    <3> HIDE DEF persisted
    <3> QED
      BY <1>0, <2>1 DEF Row
  <2>3. row' \in Row
    BY <1>6, <2>2, UpdateAppType DEF Persist
  <2>4. worker' \in [Workers -> Worker]
    BY <1>6, GotoType DEF Persist, Pcs
  <2> QED
    BY <1>6, <2>3, <2>4 DEF Persist, TypeOK
<1> QED
  BY <1>1, <1>2, <1>3, <1>4, <1>5, <1>6

LEMMA TaskStatementsType ==
    ASSUME TypeOK, ThreadOK, NEW w \in Workers,
           \/ ApplySpec(w) \/ ApplyEgress(w) \/ SuspendService(w) \/ ResumeService(w)
           \/ PollStatus(w) \/ PollContainers(w) \/ PollTimeout(w)
           \/ StampSuccess(w) \/ DropKey(w) \/ MarkFailed(w)
           \/ RecordHistory(w) \/ PruneHistory(w)
    PROVE  TypeOK'
<1>0. /\ row \in Row /\ row.cfg \in Config
      /\ svc \in Service /\ svc.cfg \in Config
      /\ svc.state \in {"STARTING", "UP", "SERVING", "SUSPENDED"}
      /\ vault \in Vault
      /\ worker[w].cfg \in Config
      /\ env.image \in Images
  BY ThreadTypes DEF TypeOK, Row, Service
<1>1. CASE ApplySpec(w)
  <2> DEFINE spec == BuiltSpec(worker[w].cfg, svc.cfg)
  <2>1. spec \in Config
    BY <1>0, ConfigTypes
  <2>2. PICK state \in Restarted(svc.state) :
          svc' = [svc EXCEPT !.cfg = spec, !.image = env.image, !.state = state]
    BY <1>1 DEF ApplySpec
  <2>3. svc' \in Service
    <3> HIDE DEF spec
    <3> QED
      BY <1>0, <2>1, <2>2 DEF Service, Restarted
  <2>4. worker' \in [Workers -> Worker]
    BY <1>1, GotoType DEF ApplySpec, Pcs
  <2> QED
    BY <1>1, <2>3, <2>4 DEF ApplySpec, TypeOK
<1>2. CASE ApplyEgress(w)
  <2>1. PICK state \in Restarted(svc.state) :
          svc' = [svc EXCEPT !.cfg.ext = worker[w].cfg.ext \cap env.bound,
                             !.state = state]
    BY <1>2 DEF ApplyEgress
  <2>2. [svc.cfg EXCEPT !.ext = worker[w].cfg.ext \cap env.bound] \in Config
    BY <1>0 DEF Config
  <2>3. svc' \in Service
    BY <1>0, <2>1, <2>2 DEF Service, Restarted
  <2>4. worker' \in [Workers -> Worker]
    BY <1>2, GotoType DEF ApplyEgress, Pcs
  <2> QED
    BY <1>2, <2>3, <2>4 DEF ApplyEgress, TypeOK
<1>3. CASE SuspendService(w) \/ ResumeService(w)
  <2>1. svc' \in Service
    BY <1>0, <1>3 DEF SuspendService, ResumeService, Service
  <2>2. worker' \in [Workers -> Worker]
    BY <1>3, GotoType DEF SuspendService, ResumeService, Pcs
  <2> QED
    BY <1>3, <2>1, <2>2 DEF SuspendService, ResumeService, TypeOK
<1>4. CASE PollStatus(w) \/ PollContainers(w) \/ PollTimeout(w)
  <2>1. worker' \in [Workers -> Worker]
    BY <1>4, GotoType DEF PollStatus, PollContainers, PollTimeout, Pcs
  <2> QED
    BY <1>4, <2>1 DEF PollStatus, PollContainers, PollTimeout, TypeOK
<1>5. CASE StampSuccess(w)
  <2> DEFINE op == worker[w].op
             columns == SuccessColumns(op, row.cfg, worker[w].cfg)
             roles == IF op = "deploy" THEN RolesIn[worker[w].cfg.pad] ELSE row.roles
  <2>1. columns \in Config
    BY <1>0, ConfigTypes
  <2>2. roles \in SUBSET UserRoles
    BY <1>0 DEF ThreadOK, Row
  <2>3. Stamped(op, row, worker[w].cfg) \in Row
    <3>1. CASE op \in {"suspend", "resume"}
      BY <1>0, <3>1 DEF Stamped, Row, Statuses, Settled
    <3>2. CASE op \notin {"suspend", "resume"}
      <4>1. Stamped(op, row, worker[w].cfg) =
              [row EXCEPT !.status = "READY", !.failedOp = None, !.cfg = columns,
                          !.roles = roles, !.image = env.image, !.stale = FALSE]
        BY <3>2 DEF Stamped
      <4> HIDE DEF columns, roles
      <4> QED
        BY <1>0, <2>1, <2>2, <4>1 DEF Row, Statuses, Settled
    <3> QED
      BY <3>1, <3>2
  <2>4. row' \in Row
    BY <1>5, <2>3, UpdateAppType DEF StampSuccess
  <2>5. worker' \in [Workers -> Worker]
    BY <1>5, GotoType, SuccessorTypes DEF StampSuccess
  <2> QED
    BY <1>5, <2>4, <2>5 DEF StampSuccess, TypeOK
<1>6. CASE DropKey(w)
  <2>1. vault' \in Vault
    BY <1>0, <1>6 DEF DropKey, Vault
  <2>2. worker' \in [Workers -> Worker]
    BY <1>6, GotoType DEF DropKey, Pcs
  <2> QED
    BY <1>6, <2>1, <2>2 DEF DropKey, TypeOK
<1>7. CASE MarkFailed(w)
  <2>1. worker[w].op \in TaskOps
    BY <1>7, OpsAtStatement DEF MarkFailed, At, ThreadOK
  <2>2. Label(worker[w].op) \in TaskOps
    BY <2>1 DEF Label, TaskOps, SpecOps
  <2>3. [row EXCEPT !.status = "FAILED", !.failedOp = Label(worker[w].op)] \in Row
    BY <1>0, <2>2 DEF Row, Statuses, Settled
  <2>4. row' \in Row
    BY <1>7, <2>3, UpdateAppType DEF MarkFailed
  <2>5. worker' \in [Workers -> Worker]
    BY <1>7, ContinueType DEF MarkFailed, Pcs, Outcomes
  <2> QED
    BY <1>7, <2>4, <2>5 DEF MarkFailed, TypeOK
<1>8. CASE RecordHistory(w)
  <2>1. [status |-> worker[w].outcome, cfg |-> worker[w].cfg] \in HistoryRow(Config)
    BY ThreadTypes DEF HistoryRow
  <2>2. history' \in Seq(HistoryRow(Config))
    BY <1>8, <2>1, InsertedType DEF RecordHistory, TypeOK
  <2>3. worker' \in [Workers -> Worker]
    BY <1>8, GotoType DEF RecordHistory, Pcs
  <2> QED
    BY <1>8, <2>2, <2>3 DEF RecordHistory, TypeOK
<1>9. CASE PruneHistory(w)
  <2>1. history' \in Seq(HistoryRow(Config))
    BY <1>9, PrunedType DEF PruneHistory, TypeOK
  <2>2. worker' \in [Workers -> Worker]
    BY <1>9, GotoType DEF PruneHistory, Pcs
  <2> QED
    BY <1>9, <2>1, <2>2 DEF PruneHistory, TypeOK
<1> QED
  BY <1>1, <1>2, <1>3, <1>4, <1>5, <1>6, <1>7, <1>8, <1>9

LEMMA CreateDeleteStatementsType ==
    ASSUME TypeOK, ThreadOK, NEW w \in Workers,
           \/ CreateSchema(w) \/ ProvisionPostgres(w) \/ CreateService(w)
           \/ CreateRole(w) \/ InsertRow(w) \/ Quiesce(w) \/ TearDown(w)
           \/ DeleteRow(w) \/ Raise(w)
    PROVE  TypeOK'
<1>0. /\ row \in Row
      /\ svc \in Service
      /\ worker[w].cfg \in Config
      /\ worker[w].outcome \in Outcomes
      /\ env.image \in Images
  BY ThreadTypes DEF TypeOK
<1>1. CASE CreateSchema(w) \/ ProvisionPostgres(w) \/ CreateRole(w)
  <2>1. worker' \in [Workers -> Worker]
    BY <1>1, GotoType DEF CreateSchema, ProvisionPostgres, CreateRole, AfterKey, Pcs, Provision
  <2> QED
    BY <1>1, <2>1 DEF CreateSchema, ProvisionPostgres, CreateRole, TypeOK
<1>2. CASE CreateService(w)
  <2>1. [worker[w].cfg EXCEPT !.ext = @ \cap env.bound] \in Config
    BY <1>0 DEF Config
  <2>2. svc' \in Service
    BY <1>0, <1>2, <2>1 DEF CreateService, Service
  <2>3. worker' \in [Workers -> Worker]
    BY <1>2, GotoType DEF CreateService, Pcs, Provision
  <2> QED
    BY <1>2, <2>2, <2>3 DEF CreateService, TypeOK
<1>3. CASE InsertRow(w)
  <2>1. row' \in Row
    BY <1>0, <1>3, NoRowType DEF InsertRow, Row
  <2>2. worker' \in [Workers -> Worker]
    <3>1. CASE Goto(w, "idle")
      BY <3>1, GotoType DEF Pcs
    <3>2. ASSUME NEW pad \in staged,
                 worker' = [worker EXCEPT ![w] =
                   [IdleWorker EXCEPT !.pc = "prepare", !.op = "deploy", !.cfg.pad = pad]]
          PROVE  worker' \in [Workers -> Worker]
      <4>1. pad \in Pads
        BY DEF TypeOK
      <4>2. [BlankConfig EXCEPT !.pad = pad] \in Config
        BY <4>1, BlankConfigType DEF Config
      <4>3. [IdleWorker EXCEPT !.pc = "prepare", !.op = "deploy", !.cfg.pad = pad] \in Worker
        <5>1. [IdleWorker EXCEPT !.pc = "prepare", !.op = "deploy", !.cfg.pad = pad]
                = [IdleWorker EXCEPT !.pc = "prepare", !.op = "deploy",
                                     !.cfg = [BlankConfig EXCEPT !.pad = pad]]
          BY DEF IdleWorker
        <5> QED
          BY <4>2, <5>1, IdleWorkerType DEF Worker, Pcs, AllOps, TaskOps, SpecOps
      <4> QED
        BY <3>2, <4>3 DEF TypeOK
    <3> QED
      BY <1>3, <3>1, <3>2 DEF InsertRow
  <2> QED
    BY <1>3, <2>1, <2>2 DEF InsertRow, TypeOK
<1>4. CASE Quiesce(w)
  <2>1. svc' \in Service
    BY <1>0, <1>4 DEF Quiesce, Service
  <2>2. worker' \in [Workers -> Worker]
    BY <1>4, GotoType DEF Quiesce, Pcs, Teardown
  <2> QED
    BY <1>4, <2>1, <2>2 DEF Quiesce, TypeOK
<1>5. CASE TearDown(w)
  <2>1. svc' \in Service
    BY <1>0, <1>5, NoServiceType DEF TearDown
  <2>2. vault' \in Vault
    <3>1. EmptyVault \in Vault
      BY DEF Vault, EmptyVault
    <3> QED
      BY <1>5, <3>1 DEF TearDown, TypeOK
  <2>3. objects' \subseteq {"schema", "role", "postgres"}
    BY <1>5 DEF TearDown, TypeOK
  <2>4. history' \in Seq(HistoryRow(Config))
    <3>1. Purged(history) \in Seq(HistoryRow(Config))
      BY DEF Purged
    <3> QED
      BY <1>5, <3>1 DEF TearDown, TypeOK
  <2>5. worker' \in [Workers -> Worker]
    BY <1>5, GotoType, ContinueType, SuccessorTypes DEF TearDown, Outcomes
  <2> QED
    BY <1>5, <2>1, <2>2, <2>3, <2>4, <2>5 DEF TearDown, TypeOK
<1>6. CASE DeleteRow(w)
  <2>1. worker' \in [Workers -> Worker]
    BY <1>6, GotoType DEF DeleteRow, Pcs
  <2> QED
    BY <1>6, <2>1, NoRowType DEF DeleteRow, TypeOK
<1>7. CASE Raise(w)
  <2>1. worker' \in [Workers -> Worker]
    BY <1>7, ContinueType, SuccessorTypes DEF Raise, Outcomes
  <2> QED
    BY <1>7, <2>1 DEF Raise, TypeOK
<1> QED
  BY <1>1, <1>2, <1>3, <1>4, <1>5, <1>6, <1>7

LEMMA EnvironmentType ==
    ASSUME TypeOK, StageFile \/ ServiceProgress \/ Restart
    PROVE  TypeOK'
<1>1. CASE StageFile
  BY <1>1 DEF StageFile, TypeOK
<1>2. CASE ServiceProgress
  <2>1. svc' \in Service
    BY <1>2 DEF ServiceProgress, TypeOK, Service
  <2> QED
    BY <1>2, <2>1 DEF ServiceProgress, TypeOK
<1>3. CASE Restart
  <2>1. row' \in Row
    <3>1. [row EXCEPT !.stale = IsPlatformStale(row, env'.image)] \in Row
      BY DEF TypeOK, Row, IsPlatformStale
    <3> QED
      BY <1>3, <3>1, UpdateAppType DEF Restart, TypeOK
  <2>2. worker' \in [Workers -> Worker]
    BY <1>3, IdleWorkerType DEF Restart
  <2> QED
    BY <1>3, <2>1, <2>2 DEF Restart, TypeOK
<1> QED
  BY <1>1, <1>2, <1>3

-----------------------------------------------------------------------------
(* The strengthening is kept: a step moves one thread, and only to a        *)
(* statement of its operation.                                              *)

LEMMA ContinueThread ==
    ASSUME TypeOK, ThreadOK, NEW w \in Workers, NEW pc, NEW outcome,
           Continue(w, pc, outcome),
           pc = "idle" \/ worker[w].op \in OpsAt(pc)
    PROVE  ThreadOK'
<1>1. /\ worker \in [Workers -> Worker]
      /\ worker[w] \in Worker
  BY DEF TypeOK
<1>2. CASE pc = "idle"
  <2>1. worker' = [worker EXCEPT ![w] = IdleWorker]
    BY <1>2 DEF Continue
  <2> QED
    BY <1>1, <2>1, OpsAtStatement DEF ThreadOK, IdleWorker
<1>3. CASE pc # "idle" /\ worker[w].op \in OpsAt(pc)
  <2>1. worker' = [worker EXCEPT ![w] = [@ EXCEPT !.pc = pc, !.outcome = outcome]]
    BY <1>3 DEF Continue
  <2>2. worker'[w].op = worker[w].op /\ worker'[w].cfg = worker[w].cfg /\ worker'[w].pc = pc
    BY <1>1, <2>1 DEF Worker
  <2>3. \A v \in Workers \ {w} : worker'[v] = worker[v]
    BY <1>1, <2>1
  <2> QED
    BY <1>3, <2>2, <2>3 DEF ThreadOK
<1> QED
  BY <1>2, <1>3

LEMMA GotoThread ==
    ASSUME TypeOK, ThreadOK, NEW w \in Workers, NEW pc, Goto(w, pc),
           pc = "idle" \/ worker[w].op \in OpsAt(pc)
    PROVE  ThreadOK'
BY ContinueThread DEF Goto

LEMMA ProceedThread ==
    ASSUME TypeOK, ThreadOK, NEW w \in Workers, Proceed(w)
    PROVE  ThreadOK'
<1>0. /\ worker \in [Workers -> Worker]
      /\ worker[w] \in Worker
      /\ worker[w].op \in OpsAt(worker[w].pc)
  BY DEF TypeOK, ThreadOK
<1> USE OpsAtStatement DEF At
<1>1. CASE PrepareDeploy(w)
  <2> DEFINE pad == worker[w].cfg.pad
             new == Declares[pad] \ row.cfg.consts
             prepared == [row.cfg EXCEPT !.pad = pad, !.consts = @ \cup new]
  <2>1. CASE Goto(w, "idle")
    BY <2>1, GotoThread
  <2>2. CASE worker' = [worker EXCEPT ![w] =
                          [@ EXCEPT !.pc = "mark", !.todo = new, !.cfg = prepared]]
    <3>1. worker[w].op = "deploy" /\ pad \in Pads
      BY <1>0, <1>1 DEF PrepareDeploy, ThreadOK
    <3>2. prepared.pad = pad
      BY DEF TypeOK, Row, Config
    <3>3. \A v \in Workers \ {w} : worker'[v] = worker[v]
      BY <1>0, <2>2
    <3>4. worker'[w].op = "deploy" /\ worker'[w].pc = "mark" /\ worker'[w].cfg = prepared
      <4> HIDE DEF new, prepared
      <4> QED
        BY <1>0, <2>2, <3>1 DEF Worker
    <3>5. worker'[w].cfg.pad \in Pads
      BY <3>1, <3>2, <3>4
    <3> HIDE DEF pad, new, prepared
    <3> QED
      BY <3>3, <3>4, <3>5 DEF ThreadOK, TaskOps, SpecOps
  <2> QED
    BY <1>1, <2>1, <2>2 DEF PrepareDeploy
<1>2. CASE ChooseTarget(w)
  <2>1. CASE Goto(w, "idle")
    BY <2>1, GotoThread
  <2>2. ASSUME NEW t \in RollbackTargets(worker[w].cfg),
               worker' = [worker EXCEPT ![w].pc = "mark", ![w].cfg = t]
        PROVE  ThreadOK'
    <3>1. worker[w].op = "rollback"
      BY <1>0, <1>2 DEF ChooseTarget
    <3>2. worker'[w].op = "rollback" /\ worker'[w].pc = "mark"
      BY <1>0, <2>2, <3>1 DEF Worker
    <3>3. \A v \in Workers \ {w} : worker'[v] = worker[v]
      BY <1>0, <2>2
    <3> QED
      BY <3>2, <3>3 DEF ThreadOK, TaskOps, SpecOps
  <2> QED
    BY <1>2, <2>1, <2>2 DEF ChooseTarget
<1>3. CASE WriteSecret(w)
  <2>1. PICK c \in worker[w].todo :
          worker' = [worker EXCEPT
                ![w].todo = @ \ {c},
                ![w].pc = IF worker[w].todo = {c} THEN AfterSecrets(worker[w].op) ELSE @]
    BY <1>3 DEF WriteSecret
  <2>2. worker[w].op \in {"constants", "create", "deploy"}
        /\ (worker[w].op = "deploy" => worker[w].pc = "sync")
    BY <1>0, <1>3 DEF WriteSecret
  <2>3. worker[w].op \in OpsAt(AfterSecrets(worker[w].op))
    BY <2>2 DEF AfterSecrets, TaskOps, SpecOps, Provision
  <2>4. /\ worker'[w].op = worker[w].op /\ worker'[w].cfg = worker[w].cfg
        /\ worker'[w].pc \in {worker[w].pc, AfterSecrets(worker[w].op)}
    BY <1>0, <2>1 DEF Worker
  <2>5. \A v \in Workers \ {w} : worker'[v] = worker[v]
    BY <1>0, <2>1
  <2> QED
    BY <1>0, <2>3, <2>4, <2>5 DEF ThreadOK
<1>4. CASE WriteKey(w)
  <2>1. worker[w].op \in {"license", "create"}
    BY <1>0, <1>4 DEF WriteKey
  <2> DEFINE next == IF worker[w].op # "create" THEN "mark" ELSE AfterKey(worker[w].todo)
  <2>2. Goto(w, next)
    BY <1>4 DEF WriteKey
  <2>3. worker[w].op \in OpsAt(next)
    BY <2>1 DEF AfterKey, TaskOps, SpecOps, Provision
  <2> HIDE DEF next
  <2> QED
    BY <2>2, <2>3, GotoThread
<1>5. CASE MarkInProgress(w)
  <2>1. worker[w].op \in TaskOps
    BY <1>0, <1>5 DEF MarkInProgress
  <2>2. worker[w].op \in OpsAt(TaskStart(worker[w].op, worker[w].todo))
    BY <2>1 DEF TaskStart
  <2> QED
    BY <1>5, <2>2, GotoThread DEF MarkInProgress
<1>6. CASE Persist(w) \/ ApplySpec(w) \/ ApplyEgress(w) \/ SuspendService(w)
           \/ ResumeService(w) \/ PollStatus(w) \/ PollContainers(w) \/ PollTimeout(w)
  <2>1. worker[w].op \in TaskOps
    BY <1>0, <1>6 DEF Persist, ApplySpec, ApplyEgress, SuspendService, ResumeService,
                      PollStatus, PollContainers, PollTimeout, TaskOps, SpecOps
  <2> QED
    BY <1>6, <2>1, GotoThread
    DEF Persist, ApplySpec, ApplyEgress, SuspendService, ResumeService, PollStatus,
        PollContainers, PollTimeout
<1>7. CASE StampSuccess(w)
  <2>1. worker[w].op \in TaskOps
    BY <1>0, <1>7 DEF StampSuccess
  <2>2. AfterStamp(worker[w].op) = "idle" \/ worker[w].op \in OpsAt(AfterStamp(worker[w].op))
    BY <2>1 DEF AfterStamp
  <2> QED
    BY <1>7, <2>2, GotoThread DEF StampSuccess
<1>8. CASE DropKey(w) \/ MarkFailed(w) \/ RecordHistory(w) \/ PruneHistory(w)
  <2>1. worker[w].op \in TaskOps
    BY <1>0, <1>8 DEF DropKey, MarkFailed, RecordHistory, PruneHistory, TaskOps, SpecOps
  <2> QED
    BY <1>8, <2>1, GotoThread, ContinueThread
    DEF DropKey, MarkFailed, RecordHistory, PruneHistory
<1>9. CASE CreateSchema(w) \/ ProvisionPostgres(w) \/ CreateService(w) \/ CreateRole(w)
  <2>1. worker[w].op = "create"
    BY <1>0, <1>9 DEF CreateSchema, ProvisionPostgres, CreateService, CreateRole, Provision
  <2> QED
    BY <1>9, <2>1, GotoThread
    DEF CreateSchema, ProvisionPostgres, CreateService, CreateRole, AfterKey, Provision
<1>10. CASE InsertRow(w)
  <2>1. CASE Goto(w, "idle")
    BY <2>1, GotoThread
  <2>2. ASSUME NEW pad \in staged,
               worker' = [worker EXCEPT ![w] =
                 [IdleWorker EXCEPT !.pc = "prepare", !.op = "deploy", !.cfg.pad = pad]]
        PROVE  ThreadOK'
    <3>1. worker'[w].op = "deploy" /\ worker'[w].pc = "prepare" /\ worker'[w].cfg.pad = pad
      BY <1>0, <2>2 DEF IdleWorker, BlankConfig
    <3>2. \A v \in Workers \ {w} : worker'[v] = worker[v]
      BY <1>0, <2>2
    <3> QED
      BY <3>1, <3>2 DEF ThreadOK, TypeOK
  <2> QED
    BY <1>10, <2>1, <2>2 DEF InsertRow
<1>11. CASE Quiesce(w) \/ DeleteRow(w)
  BY <1>0, <1>11, GotoThread DEF Quiesce, DeleteRow, Teardown
<1>12. CASE TearDown(w)
  <2>1. worker[w].op \in {"create", "delete"} /\ worker[w].pc \in Teardown
    BY <1>0, <1>12 DEF TearDown
  <2>2. ASSUME NEW outcome
        PROVE  \/ AfterTeardown(worker[w].pc, worker[w].op, outcome) = "idle"
               \/ worker[w].op \in OpsAt(AfterTeardown(worker[w].pc, worker[w].op, outcome))
    <3>1. CASE worker[w].pc = "td_pg"
      BY <2>1, <3>1 DEF AfterTeardown
    <3>2. CASE worker[w].pc # "td_pg"
      <4>1. AfterTeardown(worker[w].pc, worker[w].op, outcome) \in Teardown
        BY <2>1, <3>2 DEF AfterTeardown, AfterCleanup, Teardown
      <4> QED
        BY <2>1, <4>1
    <3> QED
      BY <3>1, <3>2
  <2> QED
    BY <1>12, <2>2, GotoThread, ContinueThread DEF TearDown
<1>13. CASE Raise(w)
  <2>1. \/ AfterRaise(worker[w].pc, worker[w].op) = "idle"
        \/ worker[w].op \in OpsAt(AfterRaise(worker[w].pc, worker[w].op))
    <3>1. CASE worker[w].pc = "quiesce" \/ worker[w].op = "create"
      BY <1>0, <3>1 DEF AfterRaise, Teardown
    <3>2. CASE worker[w].pc # "quiesce" /\ worker[w].op # "create"
      BY <1>0, <3>2 DEF AfterRaise, TaskOps, SpecOps
    <3> QED
      BY <3>1, <3>2
  <2> QED
    BY <1>13, <2>1, ContinueThread DEF Raise
<1> QED
  BY <1>1, <1>2, <1>3, <1>4, <1>5, <1>6, <1>7, <1>8, <1>9, <1>10, <1>11, <1>12, <1>13
     DEF Proceed

LEMMA EnvironmentThread ==
    ASSUME TypeOK, ThreadOK, StageFile \/ ServiceProgress \/ Restart
    PROVE  ThreadOK'
<1>1. CASE StageFile \/ ServiceProgress
  BY <1>1 DEF StageFile, ServiceProgress, ThreadOK
<1>2. CASE Restart
  BY <1>2, OpsAtStatement DEF Restart, ThreadOK, IdleWorker
<1> QED
  BY <1>1, <1>2

LEMMA InitOK == Init => TypeOK /\ ThreadOK
<1> SUFFICES ASSUME Init PROVE TypeOK /\ ThreadOK
  OBVIOUS
<1>1. TypeOK
  BY NoRowType, NoServiceType, IdleWorkerType DEF Init, TypeOK, EmptyVault, Vault
<1>2. ThreadOK
  BY OpsAtStatement DEF Init, ThreadOK, IdleWorker
<1> QED
  BY <1>1, <1>2

LEMMA NextOK == TypeOK /\ ThreadOK /\ [Next]_vars => TypeOK' /\ ThreadOK'
<1> SUFFICES ASSUME TypeOK, ThreadOK, [Next]_vars
             PROVE  TypeOK' /\ ThreadOK'
  OBVIOUS
<1>1. ASSUME NEW w \in Workers, Handle(w)
      PROVE  TypeOK' /\ ThreadOK'
  BY <1>1, HandleOK
<1>2. ASSUME NEW w \in Workers, Proceed(w)
      PROVE  TypeOK' /\ ThreadOK'
  <2>1. TypeOK'
    BY <1>2, HandlerStatementsType, TaskStatementsType, CreateDeleteStatementsType
    DEF Proceed
  <2> QED
    BY <1>2, <2>1, ProceedThread
<1>3. CASE StageFile \/ ServiceProgress \/ Restart
  BY <1>3, EnvironmentType, EnvironmentThread
<1>4. CASE UNCHANGED vars
  BY <1>4 DEF vars, TypeOK, ThreadOK
<1> QED
  BY <1>1, <1>2, <1>3, <1>4 DEF Next

LEMMA ThreadsCorrect == Spec => [](TypeOK /\ ThreadOK)
BY InitOK, NextOK, PTL DEF Spec

\* Every variable keeps its type, whatever statements fail and whenever the
\* Controller restarts: each statement finds the thread that issues it, its
\* operation and its PAD as the code behind it takes for granted.
THEOREM TypeCorrect == Spec => []TypeOK
BY ThreadsCorrect, PTL

-----------------------------------------------------------------------------
(* What a step does to the row.  The status and failed_operation are        *)
(* written by four statements only; every other step leaves both alone, or  *)
(* makes a new row.                                                         *)

\* The row before a step keeps its existence, status and failedOp.
StatusKept == /\ row'.exists = row.exists
              /\ row'.status = row.status
              /\ row'.failedOp = row.failedOp

FreshRow == row'.exists /\ row'.status = "NOT_DEPLOYED" /\ row'.failedOp = None

LEMMA StatusWriters ==
    ASSUME TypeOK, [Next]_vars
    PROVE  \/ StatusKept
           \/ FreshRow
           \/ ~row'.exists
           \/ \E w \in Workers : MarkInProgress(w) \/ StampSuccess(w) \/ MarkFailed(w)
<1> SUFFICES ASSUME ~StatusKept,
                    ~\E w \in Workers : MarkInProgress(w) \/ StampSuccess(w) \/ MarkFailed(w)
             PROVE  FreshRow \/ ~row'.exists
  OBVIOUS
<1>0. row' # row
  BY DEF StatusKept
<1>1. ~UNCHANGED vars
  BY <1>0 DEF vars
<1>2. \A w \in Workers : ~Handle(w)
  BY <1>0 DEF Handle, TriggerDeploy, UpdateConstants, UpdateSpec, ApplyPlatformUpdate,
     UpdateExternalAccess, UpdateLicense, DeleteLicense, UpdateRoleMapping,
     DeleteRoleMapping, RollbackApp, SuspendApp, ResumeApp, DeleteApp, CreateApp, Enter
<1>3. ~StageFile /\ ~ServiceProgress
  BY <1>0 DEF StageFile, ServiceProgress
<1>4. ~Restart
  <2> SUFFICES ASSUME Restart PROVE FALSE
    OBVIOUS
  <2>1. row' = [row EXCEPT !.stale = IsPlatformStale(row, env'.image)]
    BY <1>0 DEF Restart, UpdateApp
  <2> QED
    BY <2>1 DEF StatusKept, TypeOK, Row
<1>5. PICK w \in Workers : Proceed(w)
  BY <1>1, <1>2, <1>3, <1>4 DEF Next
<1>6. Persist(w) \/ InsertRow(w) \/ DeleteRow(w)
  BY <1>0, <1>5
  DEF Proceed, PrepareDeploy, ChooseTarget, WriteSecret, WriteKey, ApplySpec,
      ApplyEgress, SuspendService, ResumeService, PollStatus, PollContainers,
      PollTimeout, DropKey, RecordHistory, PruneHistory, CreateSchema,
      ProvisionPostgres, CreateService, CreateRole, Quiesce, TearDown, Raise
<1>7. ~Persist(w)
  <2> SUFFICES ASSUME Persist(w) PROVE FALSE
    OBVIOUS
  <2> DEFINE persisted == PersistedEarly(worker[w].op, row.cfg, worker[w].cfg)
  <2>1. row' = [row EXCEPT !.cfg = persisted]
    BY <1>0 DEF Persist, UpdateApp
  <2> HIDE DEF persisted
  <2> QED
    BY <2>1 DEF StatusKept, TypeOK, Row
<1>8. CASE InsertRow(w)
  BY <1>0, <1>8 DEF InsertRow, FreshRow, NoRow
<1>9. CASE DeleteRow(w)
  BY <1>9 DEF DeleteRow, NoRow
<1> QED
  BY <1>6, <1>7, <1>8, <1>9

\* failed_operation explains the status at all times: it is there whenever
\* the status is FAILED and gone whenever another settled status is shown,
\* however many tasks race on the row.
THEOREM FailuresExplained == Spec => []FailureExplained
<1>1. Init => FailureExplained
  BY DEF Init, NoRow, FailureExplained
<1>2. TypeOK /\ ThreadOK /\ FailureExplained /\ [Next]_vars => FailureExplained'
  <2> SUFFICES ASSUME TypeOK, ThreadOK, FailureExplained, [Next]_vars
               PROVE  FailureExplained'
    OBVIOUS
  <2>1. CASE StatusKept
    BY <2>1 DEF StatusKept, FailureExplained
  <2>2. CASE FreshRow
    BY <2>2 DEF FreshRow, FailureExplained
  <2>3. CASE ~row'.exists
    BY <2>3 DEF FailureExplained
  <2>4. ASSUME NEW w \in Workers, MarkInProgress(w)
        PROVE  FailureExplained'
    BY <2>4 DEF MarkInProgress, UpdateApp, InProgress, FailureExplained, TypeOK, Row
  <2>5. ASSUME NEW w \in Workers, StampSuccess(w)
        PROVE  FailureExplained'
    <3>1. /\ Stamped(worker[w].op, row, worker[w].cfg).status \in {"READY", "SUSPENDED"}
          /\ Stamped(worker[w].op, row, worker[w].cfg).failedOp = None
      BY DEF Stamped, TypeOK, Row
    <3> QED
      BY <2>5, <3>1 DEF StampSuccess, UpdateApp, FailureExplained
  <2>6. ASSUME NEW w \in Workers, MarkFailed(w)
        PROVE  FailureExplained'
    <3>1. worker[w].op \in TaskOps
      BY <2>6, OpsAtStatement DEF MarkFailed, At, ThreadOK
    <3>2. Label(worker[w].op) # None
      BY <3>1 DEF Label, TaskOps, SpecOps
    <3> QED
      BY <2>6, <3>2 DEF MarkFailed, UpdateApp, FailureExplained, TypeOK, Row
  <2> QED
    BY <2>1, <2>2, <2>3, <2>4, <2>5, <2>6, StatusWriters
<1> QED
  BY <1>1, <1>2, ThreadsCorrect, PTL DEF Spec

-----------------------------------------------------------------------------
(* What statements do and leave alone, for any number of threads.          *)

\* The operations whose task writes its columns before it starts waiting (the
\* early UPDATE of _run_constants, _run_license and the like), and not with
\* the final stamp.
EarlyOps == {"constants", "external_access", "license", "delete_license",
             "role_mapping", "delete_role_mapping"}

\* What the operation op has still to write, written to the configuration c,
\* leads to its target t.
Aimed(op, c, t) ==
    (IF op \in EarlyOps THEN PersistedEarly(op, c, t) ELSE SuccessColumns(op, c, t)) = t

\* None is none of the operations.
LEMMA NoneIsNoOp == None \notin AllOps
BY DEF AllOps, TaskOps, SpecOps

\* What a thread's record is after it moves on to statement pc.
LEMMA Moved ==
    ASSUME TypeOK, NEW w \in Workers, NEW pc, NEW outcome, Continue(w, pc, outcome)
    PROVE  /\ worker'[w].pc = pc
           /\ pc = "idle" => worker'[w] = IdleWorker
           /\ pc # "idle" => /\ worker'[w].op = worker[w].op
                             /\ worker'[w].cfg = worker[w].cfg
                             /\ worker'[w].todo = worker[w].todo
                             /\ worker'[w].outcome = outcome
BY DEF Continue, TypeOK, Worker, IdleWorker

\* The same for a move that keeps the outcome.
LEMMA Went ==
    ASSUME TypeOK, NEW w \in Workers, NEW pc, Goto(w, pc)
    PROVE  /\ worker'[w].pc = pc
           /\ pc = "idle" => worker'[w] = IdleWorker
           /\ pc # "idle" => /\ worker'[w].op = worker[w].op
                             /\ worker'[w].cfg = worker[w].cfg
                             /\ worker'[w].todo = worker[w].todo
                             /\ worker'[w].outcome = worker[w].outcome
BY Moved DEF Goto

\* Threads touch no thread's record but their own.
LEMMA OtherThreads ==
    ASSUME TypeOK, NEW w \in Workers, Handle(w) \/ Proceed(w),
           NEW v \in Workers, v # w
    PROVE  worker'[v] = worker[v]
BY DEF Handle, TriggerDeploy, UpdateConstants, UpdateSpec, ApplyPlatformUpdate,
     UpdateExternalAccess, UpdateLicense, DeleteLicense, UpdateRoleMapping,
     DeleteRoleMapping, RollbackApp, SuspendApp, ResumeApp, DeleteApp, CreateApp, Enter,
     Proceed, PrepareDeploy, ChooseTarget, WriteSecret, WriteKey, MarkInProgress, Persist,
     ApplySpec, ApplyEgress, SuspendService, ResumeService, PollStatus, PollContainers,
     PollTimeout, StampSuccess, DropKey, MarkFailed, RecordHistory, PruneHistory,
     CreateSchema, ProvisionPostgres, CreateService, CreateRole, InsertRow, Quiesce,
     TearDown, DeleteRow, Raise, Goto, Continue, TypeOK

\* A thread keeps its operation until it is done; a create may turn to the
\* deploy of the PAD it was given.
LEMMA ProceedKeepsOp ==
    ASSUME TypeOK, NEW w \in Workers, Proceed(w)
    PROVE  worker'[w].op \in {worker[w].op, "deploy", None}
<1>1. worker[w] \in Worker /\ worker \in [Workers -> Worker]
  BY DEF TypeOK
<1>2. CASE PrepareDeploy(w)
  <2>1. ASSUME NEW todo, NEW cfg,
               worker' = [worker EXCEPT ![w] =
                           [@ EXCEPT !.pc = "mark", !.todo = todo, !.cfg = cfg]]
        PROVE  worker'[w].op = worker[w].op
    BY <1>1, <2>1 DEF Worker
  <2>2. Goto(w, "idle") => worker'[w].op = None
    BY <1>1 DEF Goto, Continue, IdleWorker
  <2> QED
    BY <1>2, <2>1, <2>2 DEF PrepareDeploy
<1>3. CASE ChooseTarget(w)
  BY <1>1, <1>3 DEF ChooseTarget, Goto, Continue, IdleWorker, Worker
<1>4. CASE WriteSecret(w)
  <2>1. PICK c \in worker[w].todo :
          worker' = [worker EXCEPT
                ![w].todo = @ \ {c},
                ![w].pc = IF worker[w].todo = {c} THEN AfterSecrets(worker[w].op) ELSE @]
    BY <1>4 DEF WriteSecret
  <2>2. worker'[w].op = worker[w].op
    BY <1>1, <2>1 DEF Worker
  <2> QED
    BY <2>2
<1>5. CASE InsertRow(w)
  <2>1. ASSUME NEW pad \in staged,
               worker' = [worker EXCEPT ![w] =
                 [IdleWorker EXCEPT !.pc = "prepare", !.op = "deploy", !.cfg.pad = pad]]
        PROVE  worker'[w].op = "deploy"
    BY <1>1, <2>1 DEF IdleWorker
  <2>2. Goto(w, "idle") => worker'[w].op = None
    BY <1>1 DEF Goto, Continue, IdleWorker
  <2> QED
    BY <1>5, <2>1, <2>2 DEF InsertRow
<1>6. CASE \E pc, outcome : Continue(w, pc, outcome)
  BY <1>1, <1>6 DEF Continue, IdleWorker, Worker
<1> QED
  BY <1>2, <1>3, <1>4, <1>5, <1>6
  DEF Proceed, WriteKey, MarkInProgress, Persist,
     ApplySpec, ApplyEgress, SuspendService, ResumeService, PollStatus, PollContainers,
     PollTimeout, StampSuccess, DropKey, MarkFailed, RecordHistory, PruneHistory,
     CreateSchema, ProvisionPostgres, CreateService, CreateRole, Quiesce,
     TearDown, DeleteRow, Raise, Goto

\* What entering the pool makes of a thread's record.
LEMMA Entered ==
    ASSUME TypeOK, NEW w \in Workers, NEW op, NEW pc, NEW cfg, NEW todo,
           Enter(w, op, pc, cfg, todo)
    PROVE  /\ worker'[w].pc = pc /\ worker'[w].op = op /\ worker'[w].cfg = cfg
           /\ worker'[w].todo = todo /\ worker'[w].outcome = "READY"
           /\ UNCHANGED <<row, svc, vault, objects, history, staged, env>>
BY DEF Enter, TypeOK

\* What an accepted request brings into the pool, handler by handler: the
\* guards it has passed (_record_for_mutation, create_app's 409) and the
\* target it has computed from the row it has read.
LEMMA Requested ==
    ASSUME TypeOK, NEW w \in Workers, Handle(w)
    PROVE  LET t == worker'[w] IN
           /\ worker[w].pc = "idle"
           /\ UNCHANGED <<row, svc, vault, objects, history, staged, env>>
           /\ t.outcome = "READY" /\ t.op \in Ops /\ t.op \in AllOps
           /\ t.op \in TaskOps =>
                /\ row.exists /\ row.status \notin Transient
                /\ t.pc = CASE t.op = "deploy" -> "prepare" [] t.op = "rollback" -> "target"
                            [] t.op = "constants" -> "secret" [] t.op = "license" -> "key"
                            [] OTHER -> "mark"
                /\ t.op # "deploy" => t.cfg.consts \subseteq row.cfg.consts \cup t.todo
                /\ t.op = "deploy" => t.cfg.consts = row.cfg.consts
                /\ t.op # "constants" => t.todo = {}
                /\ t.op \notin {"deploy", "rollback"} => Aimed(t.op, row.cfg, t.cfg)
                /\ t.op = "rollback" => t.cfg = row.cfg
                /\ t.op = "delete_license" => t.cfg.license = None
           /\ t.op = "delete" => t.pc = "quiesce" /\ row.exists
           /\ t.op = "create" => /\ t.pc = "schema" /\ ~row.exists
                                 /\ t.cfg.consts = t.todo
<1> USE Entered DEF AllOps, TaskOps, SpecOps, EarlyOps
<1>0. row.cfg \in Config
  BY DEF TypeOK, Row
<1>1. CASE TriggerDeploy(w)
  <2>1. PICK pad \in staged :
          Enter(w, "deploy", "prepare", [row.cfg EXCEPT !.pad = pad], {})
    BY <1>1 DEF TriggerDeploy
  <2> DEFINE cfg == [row.cfg EXCEPT !.pad = pad]
  <2>2. cfg.consts = row.cfg.consts
    BY <1>0 DEF Config
  <2>3. Enter(w, "deploy", "prepare", cfg, {})
    BY <2>1
  <2> HIDE DEF cfg
  <2> QED
    BY <1>1, <2>2, <2>3 DEF TriggerDeploy, Admits, At
<1>2. CASE UpdateConstants(w)
  <2>1. PICK changed \in SUBSET ConstNames :
          Enter(w, "constants", "secret",
                [row.cfg EXCEPT !.consts = @ \cup changed], changed)
    BY <1>2 DEF UpdateConstants
  <2> DEFINE cfg == [row.cfg EXCEPT !.consts = @ \cup changed]
  <2>2. cfg.consts = row.cfg.consts \cup changed
    BY <1>0 DEF Config
  <2>3. Aimed("constants", row.cfg, cfg)
    BY <1>0 DEF Config, Aimed, PersistedEarly
  <2>4. Enter(w, "constants", "secret", cfg, changed)
    BY <2>1
  <2> HIDE DEF cfg
  <2> QED
    BY <1>2, <2>2, <2>3, <2>4 DEF UpdateConstants, Admits, At
<1>3. CASE UpdateSpec(w)
  <2>1. PICK tier \in Tiers :
          Enter(w, "spec", "mark", [row.cfg EXCEPT !.tier = tier], {})
    BY <1>3 DEF UpdateSpec
  <2> DEFINE cfg == [row.cfg EXCEPT !.tier = tier]
  <2>2. cfg.consts = row.cfg.consts
    BY <1>0 DEF Config
  <2>3. Aimed("spec", row.cfg, cfg)
    BY <1>0 DEF Config, Aimed, SuccessColumns
  <2>4. Enter(w, "spec", "mark", cfg, {})
    BY <2>1
  <2> HIDE DEF cfg
  <2> QED
    BY <1>3, <2>2, <2>3, <2>4 DEF UpdateSpec, Admits, At
<1>4. CASE ApplyPlatformUpdate(w)
  <2>1. Aimed("platform_update", row.cfg, row.cfg)
    BY <1>0 DEF Config, Aimed, SuccessColumns
  <2> QED
    BY <1>4, <2>1 DEF ApplyPlatformUpdate, Admits, At
<1>5. CASE UpdateExternalAccess(w)
  <2>1. PICK slots \in SUBSET env.bound :
          Enter(w, "external_access", "mark", [row.cfg EXCEPT !.ext = slots], {})
    BY <1>5 DEF UpdateExternalAccess
  <2> DEFINE cfg == [row.cfg EXCEPT !.ext = slots]
  <2>2. cfg.consts = row.cfg.consts
    BY <1>0 DEF Config
  <2>3. Aimed("external_access", row.cfg, cfg)
    BY <1>0 DEF Config, Aimed, PersistedEarly
  <2>4. Enter(w, "external_access", "mark", cfg, {})
    BY <2>1
  <2> HIDE DEF cfg
  <2> QED
    BY <1>5, <2>2, <2>3, <2>4 DEF UpdateExternalAccess, Admits, At
<1>6. CASE UpdateLicense(w)
  <2>1. PICK l \in Licenses :
          Enter(w, "license", "key", [row.cfg EXCEPT !.license = l], {})
    BY <1>6 DEF UpdateLicense
  <2> DEFINE cfg == [row.cfg EXCEPT !.license = l]
  <2>2. cfg.consts = row.cfg.consts
    BY <1>0 DEF Config
  <2>3. Aimed("license", row.cfg, cfg)
    BY <1>0 DEF Config, Aimed, PersistedEarly
  <2>4. Enter(w, "license", "key", cfg, {})
    BY <2>1
  <2> HIDE DEF cfg
  <2> QED
    BY <1>6, <2>2, <2>3, <2>4 DEF UpdateLicense, Admits, At
<1>7. CASE DeleteLicense(w)
  <2> DEFINE cfg == [row.cfg EXCEPT !.license = None]
  <2>2. cfg.consts = row.cfg.consts /\ cfg.license = None
    BY <1>0 DEF Config
  <2>3. Aimed("delete_license", row.cfg, cfg)
    BY <1>0 DEF Config, Aimed, PersistedEarly
  <2>4. Enter(w, "delete_license", "mark", cfg, {})
    BY <1>7 DEF DeleteLicense
  <2> HIDE DEF cfg
  <2> QED
    BY <1>7, <2>2, <2>3, <2>4 DEF DeleteLicense, Admits, At
<1>8. CASE UpdateRoleMapping(w)
  <2>1. PICK m \in SUBSET UserRoles :
          Enter(w, "role_mapping", "mark", [row.cfg EXCEPT !.mapping = m], {})
    BY <1>8 DEF UpdateRoleMapping
  <2> DEFINE cfg == [row.cfg EXCEPT !.mapping = m]
  <2>2. cfg.consts = row.cfg.consts
    BY <1>0 DEF Config
  <2>3. Aimed("role_mapping", row.cfg, cfg)
    BY <1>0 DEF Config, Aimed, PersistedEarly
  <2>4. Enter(w, "role_mapping", "mark", cfg, {})
    BY <2>1
  <2> HIDE DEF cfg
  <2> QED
    BY <1>8, <2>2, <2>3, <2>4 DEF UpdateRoleMapping, Admits, At
<1>9. CASE DeleteRoleMapping(w)
  <2> DEFINE cfg == [row.cfg EXCEPT !.mapping = {}]
  <2>2. cfg.consts = row.cfg.consts
    BY <1>0 DEF Config
  <2>3. Aimed("delete_role_mapping", row.cfg, cfg)
    BY <1>0 DEF Config, Aimed, PersistedEarly
  <2>4. Enter(w, "delete_role_mapping", "mark", cfg, {})
    BY <1>9 DEF DeleteRoleMapping
  <2> HIDE DEF cfg
  <2> QED
    BY <1>9, <2>2, <2>3, <2>4 DEF DeleteRoleMapping, Admits, At
<1>10. CASE RollbackApp(w)
  BY <1>10 DEF RollbackApp, Admits, At
<1>11. CASE SuspendApp(w)
  <2>1. Aimed("suspend", row.cfg, row.cfg)
    BY DEF Aimed, SuccessColumns
  <2> QED
    BY <1>11, <2>1 DEF SuspendApp, Admits, At
<1>12. CASE ResumeApp(w)
  <2>1. Aimed("resume", row.cfg, row.cfg)
    BY DEF Aimed, SuccessColumns
  <2> QED
    BY <1>12, <2>1 DEF ResumeApp, Admits, At
<1>13. CASE DeleteApp(w)
  BY <1>13 DEF DeleteApp, At
<1>14. CASE CreateApp(w)
  <2>1. PICK tier \in Tiers, l \in Licenses \cup {None}, slots \in SUBSET env.bound,
            names \in SUBSET ConstNames :
          Enter(w, "create", "schema",
                [BlankConfig EXCEPT !.tier = tier, !.license = l, !.ext = slots,
                                    !.consts = names], names)
    BY <1>14 DEF CreateApp
  <2> DEFINE cfg == [BlankConfig EXCEPT !.tier = tier, !.license = l, !.ext = slots,
                                    !.consts = names]
  <2>2. cfg.consts = names
    BY DEF BlankConfig
  <2>3. Enter(w, "create", "schema", cfg, names)
    BY <2>1
  <2> HIDE DEF cfg
  <2> QED
    BY <1>14, <2>2, <2>3 DEF CreateApp, At
<1> QED
  BY <1>1, <1>2, <1>3, <1>4, <1>5, <1>6, <1>7, <1>8, <1>9, <1>10, <1>11, <1>12, <1>13,
     <1>14 DEF Handle

\* Handlers write nothing but their thread's record: what a request changes,
\* its task changes.
LEMMA RequestsRead ==
    \A w \in Workers :
        Handle(w) => UNCHANGED <<row, svc, vault, objects, history, staged, env>>
BY DEF Handle, TriggerDeploy, UpdateConstants, UpdateSpec, ApplyPlatformUpdate,
     UpdateExternalAccess, UpdateLicense, DeleteLicense, UpdateRoleMapping,
     DeleteRoleMapping, RollbackApp, SuspendApp, ResumeApp, DeleteApp, CreateApp, Enter

\* The six statements that write the registry row, and the restart that
\* refreshes its staleness flag.
LEMMA RowWriters ==
    ASSUME TypeOK, [Next]_vars
    PROVE  \/ row' = row
           \/ Restart /\ row' = [row EXCEPT !.stale = row'.stale]
           \/ \E w \in Workers :
                \/ MarkInProgress(w) \/ Persist(w) \/ StampSuccess(w) \/ MarkFailed(w)
                \/ InsertRow(w) \/ DeleteRow(w)
<1>1. CASE Restart
  BY <1>1 DEF Restart, UpdateApp, TypeOK, Row
<1>2. CASE StageFile \/ ServiceProgress \/ UNCHANGED vars
  BY <1>2 DEF StageFile, ServiceProgress, vars
<1>3. ASSUME NEW w \in Workers, Proceed(w), row' # row
      PROVE  \/ MarkInProgress(w) \/ Persist(w) \/ StampSuccess(w) \/ MarkFailed(w)
             \/ InsertRow(w) \/ DeleteRow(w)
  BY <1>3
  DEF Proceed, PrepareDeploy, ChooseTarget, WriteSecret, WriteKey, ApplySpec, ApplyEgress,
     SuspendService, ResumeService, PollStatus, PollContainers, PollTimeout, DropKey,
     RecordHistory, PruneHistory, CreateSchema, ProvisionPostgres, CreateService,
     CreateRole, Quiesce, TearDown, Raise
<1> QED
  BY <1>1, <1>2, <1>3, RequestsRead DEF Next

\* A row goes by registry.delete_app alone.
LEMMA RowRemoved ==
    ASSUME TypeOK, [Next]_vars, row.exists, ~row'.exists
    PROVE  \E w \in Workers : DeleteRow(w)
<1>1. row' # row /\ ~(Restart /\ row' = [row EXCEPT !.stale = row'.stale])
  BY DEF TypeOK, Row
<1>2. \A w \in Workers : ~(MarkInProgress(w) \/ Persist(w) \/ MarkFailed(w) \/ InsertRow(w))
  BY DEF MarkInProgress, Persist, MarkFailed, InsertRow, UpdateApp, NoRow, TypeOK, Row
<1>3. \A w \in Workers : ~StampSuccess(w)
  BY DEF StampSuccess, Stamped, UpdateApp, TypeOK, Row
<1> QED
  BY <1>1, <1>2, <1>3, RowWriters

\* Apart from those that only move the state of its containers, the
\* statements that change the service: the two ALTERs, CREATE and DROP
\* SERVICE.
LEMMA ServiceWriters ==
    ASSUME TypeOK, [Next]_vars
    PROVE  \/ /\ svc'.cfg = svc.cfg /\ svc'.exists = svc.exists /\ svc'.image = svc.image
              /\ svc = NoService => svc' = svc
           \/ \E w \in Workers :
                \/ ApplySpec(w) \/ ApplyEgress(w) \/ CreateService(w)
                \/ TearDown(w) /\ At(w, "td_service") /\ svc' = NoService
<1>1. CASE StageFile \/ Restart \/ UNCHANGED vars
  BY <1>1 DEF StageFile, Restart, vars
<1>2. CASE ServiceProgress
  <2>1. svc # NoService
    BY <1>2 DEF ServiceProgress, NoService
  <2> QED
    BY <1>2, <2>1 DEF ServiceProgress, TypeOK, Service
<1>3. ASSUME NEW w \in Workers, SuspendService(w) \/ ResumeService(w) \/ Quiesce(w)
      PROVE  /\ svc'.cfg = svc.cfg /\ svc'.exists = svc.exists /\ svc'.image = svc.image
             /\ svc = NoService => svc' = svc
  <2>1. svc.exists \/ svc' = svc
    BY <1>3 DEF SuspendService, ResumeService, Quiesce, Impossible, At
  <2>2. svc' = svc \/ \E state : svc' = [svc EXCEPT !.state = state]
    BY <1>3 DEF SuspendService, ResumeService, Quiesce
  <2>3. svc.exists => svc # NoService
    BY DEF NoService
  <2> QED
    BY <2>1, <2>2, <2>3 DEF TypeOK, Service
<1>4. ASSUME NEW w \in Workers, Proceed(w), svc' # svc,
             ~(SuspendService(w) \/ ResumeService(w) \/ Quiesce(w))
      PROVE  \/ ApplySpec(w) \/ ApplyEgress(w) \/ CreateService(w)
             \/ TearDown(w) /\ At(w, "td_service") /\ svc' = NoService
  BY <1>4
  DEF At, Proceed, PrepareDeploy, ChooseTarget, WriteSecret, WriteKey, MarkInProgress, Persist,
     PollStatus, PollContainers, PollTimeout, StampSuccess, DropKey, MarkFailed,
     RecordHistory, PruneHistory, CreateSchema, ProvisionPostgres, CreateRole,
     InsertRow, TearDown, DeleteRow, Raise
<1> QED
  BY <1>1, <1>2, <1>3, <1>4, RequestsRead DEF Next

\* The statements that write the deploy history.
LEMMA HistoryWriters ==
    ASSUME [Next]_vars
    PROVE  \/ history' = history
           \/ \E w \in Workers : RecordHistory(w) \/ PruneHistory(w) \/ TearDown(w)
<1>1. CASE StageFile \/ ServiceProgress \/ Restart \/ UNCHANGED vars
  BY <1>1 DEF StageFile, ServiceProgress, Restart, vars
<1>2. CASE \E w \in Workers : Proceed(w)
  BY <1>2
  DEF Proceed, PrepareDeploy, ChooseTarget, WriteSecret, WriteKey, MarkInProgress, Persist,
     ApplySpec, ApplyEgress, SuspendService, ResumeService, PollStatus, PollContainers,
     PollTimeout, StampSuccess, DropKey, MarkFailed, CreateSchema, ProvisionPostgres,
     CreateService, CreateRole, InsertRow, Quiesce, DeleteRow, Raise
<1> QED
  BY <1>1, <1>2, RequestsRead DEF Next

\* The base image changes with a restart alone.
LEMMA EnvironmentKept ==
    ASSUME [Next]_vars
    PROVE  env' = env \/ Restart
<1>1. CASE StageFile \/ ServiceProgress \/ UNCHANGED vars
  BY <1>1 DEF StageFile, ServiceProgress, vars
<1>2. CASE \E w \in Workers : Proceed(w)
  BY <1>2
  DEF Proceed, PrepareDeploy, ChooseTarget, WriteSecret, WriteKey, MarkInProgress, Persist,
      ApplySpec, ApplyEgress, SuspendService, ResumeService, PollStatus, PollContainers,
      PollTimeout, StampSuccess, DropKey, MarkFailed, RecordHistory, PruneHistory,
      CreateSchema, ProvisionPostgres, CreateService, CreateRole, InsertRow, Quiesce,
      TearDown, DeleteRow, Raise
<1> QED
  BY <1>1, <1>2, RequestsRead DEF Next

\* Operations run because they were requested, or deploy a new app's PAD.
LEMMA OpsRequested ==
    Spec => [](\A w \in Workers : worker[w].op \in Ops \cup {"deploy", None})
<1> DEFINE Inv == \A w \in Workers : worker[w].op \in Ops \cup {"deploy", None}
<1>1. Init => Inv
  BY DEF Init, IdleWorker
<1>2. TypeOK /\ Inv /\ [Next]_vars => Inv'
  <2> SUFFICES ASSUME TypeOK, Inv, [Next]_vars, NEW v \in Workers
               PROVE  worker'[v].op \in Ops \cup {"deploy", None}
    OBVIOUS
  <2>1. worker'[v].op \in {worker[v].op, "deploy", None} \/ Handle(v)
    <3>1. CASE StageFile \/ ServiceProgress \/ Restart \/ UNCHANGED vars
      BY <3>1 DEF StageFile, ServiceProgress, Restart, vars, IdleWorker
    <3>2. ASSUME NEW w \in Workers, w # v, Handle(w) \/ Proceed(w)
          PROVE  worker'[v] = worker[v]
      BY <3>2, OtherThreads
    <3>3. CASE Proceed(v)
      BY <3>3, ProceedKeepsOp
    <3> QED
      BY <3>1, <3>2, <3>3 DEF Next
  <2> QED
    BY <2>1, Requested
<1> QED
  BY <1>1, <1>2, ThreadsCorrect, PTL DEF Spec

-----------------------------------------------------------------------------
(* A transient status has its task.                                        *)

\* A task that has not written its final status goes on to write it: nothing
\* but the two final UPDATEs takes it out of StatusPending, unless the
\* statement before its try block raises or the UPDATE to FAILED itself
\* fails.
LEMMA PendingKept ==
    ASSUME TypeOK, ThreadOK, NEW w \in Workers, worker[w].pc \in StatusPending, Proceed(w),
           {"upfront", "fail"} \cap Faults = {}
    PROVE  worker'[w].pc \in StatusPending \/ StampSuccess(w) \/ MarkFailed(w)
<1> DEFINE t == worker[w]
<1>0. t \in Worker /\ worker \in [Workers -> Worker] /\ t.op \in OpsAt(t.pc)
  BY DEF TypeOK, ThreadOK
<1> USE OpsAtStatement, Went, Moved DEF At, StatusPending
<1>1. CASE WriteSecret(w)
  <2>1. PICK c \in t.todo :
          worker' = [worker EXCEPT
                ![w].todo = @ \ {c},
                ![w].pc = IF worker[w].todo = {c} THEN AfterSecrets(worker[w].op) ELSE @]
    BY <1>1 DEF WriteSecret
  <2>2. t.op = "deploy"
    BY <1>0, <1>1 DEF WriteSecret
  <2>3. worker'[w].pc \in {t.pc, "persist"}
    BY <1>0, <2>1, <2>2 DEF Worker, AfterSecrets
  <2> QED
    BY <2>3
<1>2. CASE Persist(w) \/ ApplySpec(w) \/ ApplyEgress(w) \/ SuspendService(w) \/ ResumeService(w)
           \/ PollStatus(w) \/ PollContainers(w) \/ PollTimeout(w)
  <2>1. \E pc \in {"eai", "apply", "poll", "containers", "stamp", "timeout"} : Goto(w, pc)
    BY <1>2
    DEF Persist, ApplySpec, ApplyEgress, SuspendService, ResumeService, PollStatus,
        PollContainers, PollTimeout
  <2> QED
    BY <2>1
<1>3. CASE Raise(w)
  <2>1. t.pc \notin {"upfront", "fail"}
    BY <1>3 DEF Raise, Impossible
  <2>2. t.pc # "quiesce" /\ t.op # "create"
    BY <1>0 DEF TaskOps, SpecOps
  <2>3. AfterRaise(t.pc, t.op) = "fail"
    BY <1>3, <2>1, <2>2 DEF AfterRaise, Raise
  <2>4. worker'[w].pc = "fail"
    BY <1>3, <2>3 DEF Raise
  <2> QED
    BY <2>4
<1> QED
  BY <1>1, <1>2, <1>3
  DEF Proceed, PrepareDeploy, ChooseTarget, WriteKey, MarkInProgress, DropKey, RecordHistory,
      PruneHistory, CreateSchema, ProvisionPostgres, CreateService, CreateRole, InsertRow,
      Quiesce, TearDown, DeleteRow, Teardown

\* A transient status always has a task that will still replace it
\* (TransientHasTask), for any number of racing threads, as long as no
\* restart loses the tasks, no statement before a task's try block raises
\* ("upfront"), and no UPDATE to FAILED fails: the three ways the code has of
\* leaving an app DEPLOYING for good.
THEOREM TransientStatusHasTask ==
    ASSUME {"restart", "upfront", "fail"} \cap Faults = {}
    PROVE  Spec => []TransientHasTask
<1>1. Init => TransientHasTask
  BY DEF Init, NoRow, TransientHasTask
<1>2. TypeOK /\ ThreadOK /\ TransientHasTask /\ [Next]_vars => TransientHasTask'
  <2> SUFFICES ASSUME TypeOK, ThreadOK, TransientHasTask, [Next]_vars,
                      row'.exists, row'.status \in Transient
               PROVE  \E w \in Workers : worker'[w].pc \in StatusPending
    BY DEF TransientHasTask
  <2>1. ASSUME NEW w \in Workers, MarkInProgress(w)
        PROVE  worker'[w].pc \in StatusPending
    BY <2>1, Went DEF MarkInProgress, TaskStart, StatusPending
  <2>2. ASSUME NEW w \in Workers, StampSuccess(w) \/ MarkFailed(w)
        PROVE  FALSE
    <3>1. Stamped(worker[w].op, row, worker[w].cfg).status \notin Transient
      BY DEF Stamped, TypeOK, Row, Transient
    <3> QED
      BY <2>2, <3>1 DEF StampSuccess, MarkFailed, UpdateApp, TypeOK, Row, Transient
  <2>3. CASE StatusKept /\ ~\E w \in Workers : StampSuccess(w) \/ MarkFailed(w)
    <3>1. PICK w \in Workers : worker[w].pc \in StatusPending
      BY <2>3 DEF TransientHasTask, StatusKept
    <3>2. CASE Handle(w)
      BY <3>1, <3>2, Requested DEF StatusPending
    <3>3. CASE Proceed(w)
      BY <2>3, <3>1, <3>3, PendingKept
    <3>4. ASSUME NEW v \in Workers, v # w, Handle(v) \/ Proceed(v)
          PROVE  worker'[w].pc \in StatusPending
      BY <3>1, <3>4, OtherThreads
    <3>5. CASE StageFile \/ ServiceProgress \/ UNCHANGED vars
      BY <3>1, <3>5 DEF StageFile, ServiceProgress, vars
    <3> QED
      BY <3>2, <3>3, <3>4, <3>5 DEF Next, Restart
  <2>4. ~FreshRow
    BY DEF FreshRow, Transient
  <2> QED
    BY <2>1, <2>2, <2>3, <2>4, StatusWriters
<1> QED
  BY <1>1, <1>2, ThreadsCorrect, PTL DEF Spec

-----------------------------------------------------------------------------
(* The base image the registry claims.                                     *)

\* The link PlatformImageTruthful lacks: a thread that is to stamp
\* platform_image, or to insert the row of a new app, has given the service
\* the current base image, or the service is gone since.
ImageMatches(w) ==
    LET pc == worker[w].pc
        op == worker[w].op
    IN  (\/ op \in SpecOps /\ pc \in {"eai", "poll", "containers", "stamp"}
         \/ pc \in {"role", "insert"})
        => (svc.exists => svc.image = env.image)

\* PlatformImageTruthful, inductive: with what the threads about to stamp
\* know, and with a registry that never names a newer image than the current
\* one.
ImageInv == /\ \A w \in Workers : ImageMatches(w) /\ worker[w].op # "external_access"
            /\ row.exists => row.image \in Images /\ row.image <= env.image
            /\ PlatformImageTruthful

\* What a statement that changes the service leaves of its image.
LEMMA NewImage ==
    ASSUME TypeOK, NEW w \in Workers
    PROVE  /\ ApplySpec(w) \/ CreateService(w) => svc'.image = env.image
           /\ ApplyEgress(w) => svc'.exists = svc.exists /\ svc'.image = svc.image
<1>0. svc \in Service
  BY DEF TypeOK
<1>1. CASE ApplySpec(w)
  <2>1. PICK state, cfg :
          svc' = [svc EXCEPT !.cfg = cfg, !.image = env.image, !.state = state]
    BY <1>1 DEF ApplySpec
  <2>2. svc'.image = env.image
    BY <1>0, <2>1 DEF Service
  <2> QED
    BY <1>1, <2>2 DEF ApplySpec, ApplyEgress, At
<1>2. CASE CreateService(w)
  BY <1>2 DEF CreateService, ApplyEgress, At
<1>3. CASE ApplyEgress(w)
  <2>1. PICK state, ext : svc' = [svc EXCEPT !.cfg.ext = ext, !.state = state]
    BY <1>3 DEF ApplyEgress
  <2>2. svc'.exists = svc.exists /\ svc'.image = svc.image
    BY <1>0, <2>1 DEF Service
  <2> QED
    BY <1>3, <2>2 DEF ApplySpec, CreateService, ApplyEgress, At
<1> QED
  BY <1>1, <1>2, <1>3

\* A thread comes to wait for a service only after it gave it the base image.
LEMMA ImagesPass ==
    ASSUME TypeOK, ThreadOK, NEW w \in Workers, ImageMatches(w),
           worker[w].op # "external_access", Proceed(w), env' = env,
           \/ svc'.exists = svc.exists /\ svc'.image = svc.image
           \/ svc'.exists => svc'.image = env.image
    PROVE  ImageMatches(w)'
<1> DEFINE t == worker[w]
<1>0. t \in Worker /\ worker \in [Workers -> Worker] /\ t.op \in OpsAt(t.pc) /\ svc \in Service
  BY DEF TypeOK, ThreadOK
<1> USE OpsAtStatement, Went, Moved DEF At, ImageMatches
<1>1. ASSUME worker'[w].pc \notin {"eai", "poll", "containers", "stamp", "role", "insert"}
      PROVE  ImageMatches(w)'
  BY <1>1
<1>2. CASE PrepareDeploy(w) \/ ChooseTarget(w) \/ WriteSecret(w) \/ InsertRow(w)
  <2>1. CASE PrepareDeploy(w)
    <3> DEFINE new == Declares[t.cfg.pad] \ row.cfg.consts
               prepared == [row.cfg EXCEPT !.pad = t.cfg.pad, !.consts = @ \cup new]
    <3>1. \/ Goto(w, "idle")
          \/ worker' = [worker EXCEPT ![w] =
                          [@ EXCEPT !.pc = "mark", !.todo = new, !.cfg = prepared]]
      BY <2>1 DEF PrepareDeploy
    <3> HIDE DEF new, prepared
    <3>2. ASSUME worker' = [worker EXCEPT ![w] =
                              [@ EXCEPT !.pc = "mark", !.todo = new, !.cfg = prepared]]
          PROVE  worker'[w].pc = "mark"
      BY <1>0, <3>2 DEF Worker
    <3> QED
      BY <1>1, <3>1, <3>2
  <2>2. CASE ChooseTarget(w)
    <3>1. ASSUME NEW c, worker' = [worker EXCEPT ![w].pc = "mark", ![w].cfg = c]
          PROVE  worker'[w].pc = "mark"
      BY <1>0, <3>1 DEF Worker
    <3> QED
      BY <1>1, <2>2, <3>1 DEF ChooseTarget
  <2>3. CASE WriteSecret(w)
    <3>1. PICK c \in t.todo :
            worker' = [worker EXCEPT
                  ![w].todo = @ \ {c},
                  ![w].pc = IF worker[w].todo = {c} THEN AfterSecrets(worker[w].op) ELSE @]
      BY <2>3 DEF WriteSecret
    <3>2. worker'[w].pc \in {t.pc, AfterSecrets(t.op)}
      BY <1>0, <3>1 DEF Worker
    <3>3. t.pc \in {"secret", "sync"}
      BY <2>3 DEF WriteSecret
    <3> QED
      BY <1>1, <3>2, <3>3 DEF AfterSecrets
  <2>4. CASE InsertRow(w)
    <3>1. ASSUME NEW pad,
                 worker' = [worker EXCEPT ![w] =
                   [IdleWorker EXCEPT !.pc = "prepare", !.op = "deploy", !.cfg.pad = pad]]
          PROVE  worker'[w].pc = "prepare"
      BY <1>0, <3>1 DEF IdleWorker
    <3> QED
      BY <1>1, <2>4, <3>1 DEF InsertRow
  <2> QED
    BY <1>2, <2>1, <2>2, <2>3, <2>4
<1>3. CASE Persist(w)
  <2>1. t.pc \in {"upfront", "persist"}
    BY <1>3 DEF Persist
  <2>2. worker'[w].op = t.op /\ worker'[w].pc = IF t.op = "external_access" THEN "eai" ELSE "apply"
    BY <1>3 DEF Persist
  <2> QED
    BY <1>1, <2>2
<1>4. CASE ApplySpec(w) \/ CreateService(w)
  <2>1. svc'.image = env.image
    BY <1>4, NewImage
  <2> QED
    BY <2>1
<1>5. CASE ApplyEgress(w) \/ PollStatus(w) \/ PollContainers(w)
  <2>1. /\ t.pc \in {"eai", "poll", "containers"}
        /\ worker'[w].op = t.op /\ worker'[w].pc \in {"poll", "containers", "stamp"}
    <3>1. t.pc \in {"eai", "poll", "containers"}
      BY <1>5 DEF ApplyEgress, PollStatus, PollContainers
    <3>2. \E pc \in {"poll", "containers", "stamp"} : Goto(w, pc)
      BY <1>5 DEF ApplyEgress, PollStatus, PollContainers
    <3> QED
      BY <3>1, <3>2
  <2>2. t.op \in TaskOps
    BY <1>0, <2>1
  <2> QED
    BY <2>1, <2>2
<1>6. CASE SuspendService(w) \/ ResumeService(w)
  <2>1. worker'[w].op \in {"suspend", "resume"} /\ worker'[w].pc = "poll"
    BY <1>6 DEF SuspendService, ResumeService
  <2> QED
    BY <2>1 DEF SpecOps
<1>7. CASE CreateRole(w)
  BY <1>7 DEF CreateRole
<1>8. CASE TearDown(w)
  <2>1. PICK outcome : Continue(w, AfterTeardown(t.pc, t.op, outcome), outcome)
    BY <1>8 DEF TearDown, Goto
  <2>2. t.pc \in Teardown
    BY <1>8 DEF TearDown
  <2>3. AfterTeardown(t.pc, t.op, outcome) \in Teardown \cup {"td_row", "idle"}
    BY <2>2 DEF AfterTeardown, AfterCleanup, Teardown
  <2> QED
    BY <1>1, <2>1, <2>3 DEF Teardown
<1>9. CASE \/ WriteKey(w) \/ MarkInProgress(w) \/ PollTimeout(w) \/ StampSuccess(w)
           \/ DropKey(w) \/ MarkFailed(w) \/ RecordHistory(w) \/ PruneHistory(w)
           \/ CreateSchema(w) \/ ProvisionPostgres(w) \/ Quiesce(w) \/ DeleteRow(w) \/ Raise(w)
  <2>1. \E pc, outcome : /\ Continue(w, pc, outcome)
                         /\ pc \notin {"eai", "poll", "containers", "stamp", "role", "insert"}
    BY <1>9
    DEF Goto, WriteKey, AfterKey, MarkInProgress, TaskStart, PollTimeout, StampSuccess,
        AfterStamp, DropKey, MarkFailed, RecordHistory, PruneHistory, CreateSchema,
        ProvisionPostgres, Quiesce, DeleteRow, Raise, AfterRaise
  <2> QED
    BY <1>1, <2>1
<1> QED
  BY <1>2, <1>3, <1>4, <1>5, <1>6, <1>7, <1>8, <1>9 DEF Proceed

\* ImageInv is inductive.
LEMMA StepImages ==
    ASSUME TypeOK, ThreadOK,
           \A w \in Workers : worker[w].op \in Ops \cup {"deploy", None},
           "external_access" \notin Ops,
           ImageInv, [Next]_vars
    PROVE  ImageInv'
<1> USE OpsAtStatement DEF At, ImageInv
<1>0. /\ row \in Row /\ svc \in Service /\ env.image \in Images /\ Images \subseteq Nat
      /\ worker \in [Workers -> Worker]
      /\ \A w \in Workers : /\ worker[w].op \in OpsAt(worker[w].pc)
                            /\ worker[w].op # "external_access"
      /\ None \notin Images
  BY DEF TypeOK, ThreadOK, AllOps
    \* The service after a step, while the base image stays.
<1>1. ASSUME env' = env
      PROVE  \/ svc'.exists = svc.exists /\ svc'.image = svc.image
             \/ svc'.exists => svc'.image = env.image
  <2>1. ASSUME NEW w \in Workers, ApplySpec(w) \/ CreateService(w)
        PROVE  svc'.image = env.image
    BY <2>1, NewImage
  <2>2. ASSUME NEW w \in Workers, ApplyEgress(w)
        PROVE  svc'.exists = svc.exists /\ svc'.image = svc.image
    BY <2>2, NewImage
  <2>3. NoService.exists = FALSE
    BY DEF NoService
  <2> QED
    BY <2>1, <2>2, <2>3, ServiceWriters
    \* The row after it.
<1>2. ASSUME env' = env
      PROVE  \/ row'.exists = row.exists /\ row'.image = row.image
             \/ ~row'.exists
             \/ row'.image = env.image /\ (svc'.exists => svc'.image = env.image)
  <2>1. ASSUME NEW w \in Workers, MarkInProgress(w) \/ Persist(w) \/ MarkFailed(w)
        PROVE  row'.exists = row.exists /\ row'.image = row.image
    <3>1. CASE MarkInProgress(w)
      BY <1>0, <3>1 DEF MarkInProgress, UpdateApp, Row
    <3>2. CASE Persist(w)
      BY <1>0, <3>2 DEF Persist, UpdateApp, Row
    <3>3. CASE MarkFailed(w)
      BY <1>0, <3>3 DEF MarkFailed, UpdateApp, Row
    <3> QED
      BY <2>1, <3>1, <3>2, <3>3
  <2>2. ASSUME NEW w \in Workers, StampSuccess(w)
        PROVE  \/ row'.exists = row.exists /\ row'.image = row.image
               \/ row'.image = env.image /\ (svc'.exists => svc'.image = env.image)
    <3>1. worker[w].pc = "stamp" /\ svc' = svc /\ worker[w].op \in TaskOps
      BY <1>0, <2>2 DEF StampSuccess
    <3>2. CASE worker[w].op \in {"suspend", "resume"} \/ ~row.exists
      BY <1>0, <2>2, <3>2 DEF StampSuccess, Stamped, UpdateApp, Row
    <3>3. CASE worker[w].op \notin {"suspend", "resume"} /\ row.exists
      <4>1. worker[w].op \in SpecOps
        BY <1>0, <3>1, <3>3 DEF TaskOps
      <4>2. row'.image = env.image
        BY <1>0, <2>2, <3>3 DEF StampSuccess, Stamped, UpdateApp, Row
      <4> QED
        BY <3>1, <4>1, <4>2 DEF ImageMatches
    <3> QED
      BY <3>2, <3>3
  <2>3. ASSUME NEW w \in Workers, InsertRow(w)
        PROVE  \/ row' = row
               \/ row'.image = env.image /\ (svc'.exists => svc'.image = env.image)
    <3>1. worker[w].pc = "insert" /\ svc' = svc
      BY <2>3 DEF InsertRow
    <3>2. row' = row \/ row' = [NoRow EXCEPT !.exists = TRUE, !.cfg = worker[w].cfg,
                                             !.image = env.image]
      BY <2>3 DEF InsertRow
    <3> QED
      BY <3>1, <3>2 DEF ImageMatches, NoRow
  <2>4. ASSUME NEW w \in Workers, DeleteRow(w)
        PROVE  ~row'.exists
    BY <2>4 DEF DeleteRow, NoRow
  <2>5. CASE row' = [row EXCEPT !.stale = row'.stale]
    BY <1>0, <2>5 DEF Row
  <2> QED
    BY <2>1, <2>2, <2>3, <2>4, <2>5, RowWriters
<1>3. ASSUME env' = env
      PROVE  /\ row'.exists => row'.image \in Images /\ row'.image <= env'.image
             /\ PlatformImageTruthful'
  <2>1. env'.image = env.image
    BY <1>3
  <2>2. row'.exists => row'.image \in Images /\ row'.image <= env.image
    <3>1. env.image \in Nat /\ env.image \in Images
      BY <1>0
    <3>2. env.image <= env.image
      BY <3>1
    <3>3. row.exists => row.image \in Images /\ row.image <= env.image
      OBVIOUS
    <3>4. \/ row'.exists = row.exists /\ row'.image = row.image
          \/ ~row'.exists
          \/ row'.image = env.image
      BY <1>2, <1>3
    <3> QED
      BY <3>1, <3>2, <3>3, <3>4
  <2>3. PlatformImageTruthful'
    BY <1>1, <1>2, <1>3, <2>1 DEF PlatformImageTruthful
  <2> QED
    BY <2>1, <2>2, <2>3
<1>4. ASSUME env' = env, NEW w \in Workers
      PROVE  ImageMatches(w)' /\ worker'[w].op # "external_access"
  <2>1. CASE worker'[w] = worker[w]
    BY <1>0, <1>1, <1>4, <2>1 DEF ImageMatches
  <2>2. CASE Handle(w)
    <3>1. /\ worker'[w].op \in Ops
          /\ worker'[w].pc \in {"prepare", "target", "secret", "key", "mark", "quiesce", "schema"}
      BY <2>2, Requested DEF AllOps
    <3> QED
      BY <3>1 DEF ImageMatches
  <2>3. CASE Proceed(w)
    <3>1. worker'[w].op # "external_access"
      BY <1>0, <2>3, NoneIsNoOp, ProceedKeepsOp DEF AllOps, TaskOps
    <3>2. ImageMatches(w)'
      BY <1>0, <1>1, <1>4, <2>3, ImagesPass
    <3> QED
      BY <3>1, <3>2
  <2>4. CASE StageFile \/ ServiceProgress \/ UNCHANGED vars
    BY <2>1, <2>4 DEF StageFile, ServiceProgress, vars
  <2>5. ASSUME NEW v \in Workers, v # w, Handle(v) \/ Proceed(v)
        PROVE  worker'[w] = worker[w]
    BY <2>5, OtherThreads
  <2>6. ASSUME Restart
        PROVE  worker'[w] = IdleWorker
    BY <2>6 DEF Restart
  <2>7. CASE worker'[w] = IdleWorker
    BY <2>7, NoneIsNoOp DEF ImageMatches, IdleWorker, AllOps, TaskOps
  <2> QED
    BY <2>1, <2>2, <2>3, <2>4, <2>5, <2>6, <2>7 DEF Next
<1>5. CASE Restart
  <2>1. /\ \A w \in Workers : worker'[w] = IdleWorker
        /\ env'.image \in Images /\ env'.image >= env.image /\ svc' = svc
        /\ row'.exists = row.exists /\ row'.image = row.image
    BY <1>0, <1>5 DEF Restart, UpdateApp, Row
  <2>2. \A w \in Workers : ImageMatches(w)' /\ worker'[w].op # "external_access"
    BY <2>1, NoneIsNoOp DEF ImageMatches, IdleWorker, AllOps, TaskOps
  <2>3. /\ row'.exists => row'.image \in Images /\ row'.image <= env'.image
        /\ PlatformImageTruthful'
    <3>1. env.image \in Nat /\ env'.image \in Nat /\ (row.exists => row.image \in Nat)
      BY <1>0, <2>1
    <3> QED
      BY <2>1, <3>1 DEF PlatformImageTruthful
  <2> QED
    BY <2>2, <2>3
<1>6. env' = env \/ Restart
  BY EnvironmentKept
<1> QED
  BY <1>3, <1>4, <1>5, <1>6

\* platform_image names the current base image only for a service built from
\* it (PlatformImageTruthful), for any number of racing threads, restarts
\* with newer images and any faults, as long as nobody changes external
\* access: that operation stamps the current image without rebuilding the
\* service's specification.
THEOREM PlatformImagesAreTruthful ==
    ASSUME "external_access" \notin Ops
    PROVE  Spec => []PlatformImageTruthful
<1>1. Init => ImageInv
  BY NoneIsNoOp
  DEF Init, ImageInv, ImageMatches, PlatformImageTruthful, IdleWorker, NoRow, AllOps, TaskOps
<1>2. TypeOK /\ ThreadOK /\ (\A w \in Workers : worker[w].op \in Ops \cup {"deploy", None})
      /\ ImageInv /\ [Next]_vars => ImageInv'
  BY StepImages
<1>3. ImageInv => PlatformImageTruthful
  BY DEF ImageInv
<1> QED
  BY <1>1, <1>2, <1>3, ThreadsCorrect, OpsRequested, PTL DEF Spec

=============================================================================
