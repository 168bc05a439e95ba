# A TLA+ specification of Mendix for Snowflake

This directory models the Mendix for Snowflake native app: the Controller that
registers, deploys and deletes Mendix apps on Snowpark Container Services
(SPCS), and the parts around it. Sources are named relative to the repository.

## 1. The system

Operators call the **Controller** (`Controller/app`, one FastAPI process with
one uvicorn worker), from the **Admin UI** (Streamlit) or from a pipeline with
a token. Every app has a row in the **registry** (`MENDIX_APPS`), a service, a
schema with its secrets and file storage, an application role, a Postgres
database, and rows in the **deploy history** (`MENDIX_DEPLOY_HISTORY`).
Configuration is applied by rebuilding the service's specification
(`spec_builder.py`) and altering the service.

| component | state it keeps | operations | how it interacts |
|---|---|---|---|
| routes and tasks, `main.py` | none of its own but the threads | create, delete, deploy, constants, spec, platform update, external access, license, role mapping, rollback, suspend, resume | statements through the client; a route answers 202 and leaves a background task to the thread pool |
| registry, `registry.py` | one row per app: status, configuration, image | create, get, list, update, delete | SQL, no transaction spans two calls |
| deploy history, `deploy_history.py` | up to 20 rows per app | record and prune, last success, one entry, purge | written by tasks, read by rollback |
| Snowflake client, `snowflake_client.py` | one connection under one lock | execute, reconnect and retry once | everything goes through `execute_sql` |
| spec builder, PAD parser | none | pure functions | called by tasks and handlers |
| Postgres provisioning, `pg_admin.py` | roles, databases and grants | provision, deprovision | direct connections from create and delete |
| egress watch, `egress_watch.py` | rows of `internal_config` | a daily iteration; acknowledge, configure, test from routes | one asyncio task next to the routes |
| caller identity, `auth.py` of both services | a cache of 60 seconds; the roles of a browser session | resolve, authorize | every request |
| log downloads, `log_jobs.py` | a table of jobs in memory | start, run, poll | thread pool |
| installation, `setup_script.sql` | `install_state`, `internal_config`, references | grant callback, register reference, start services, upgrade | starts and restarts the Controller and the Admin UI with new bindings or new images |
| SSO module, `App Components` | users and their roles, a token cache | login, refresh, compound token | inside each Mendix app |
| Admin UI, `Admin UI/app` | session state of each page, cached answers per operator | table, detail panel, bulk actions, log downloads | the Controller's routes, as the operator |

What is hard here: routes and tasks interleave statement by statement with no
transaction across statements; every statement can fail; a restart loses every
task; SPCS applies changes after the statement that asks for them has returned;
users can delete, suspend or roll back between any two of them. Pages act on
answers that are a minute old, in sessions that outlive the app they show.

What makes each component correct: a change that was accepted comes to an end
and its end is told truthfully (routes and tasks); the history names only what
ran (history); nothing of a deleted app survives (create and delete); the
platform-update flag never hides an old image (restarts); an operator is
warned before the whitelist expires, once a day (egress watch); roles granted by a
mapping are taken back when it changes and others are not touched (SSO); the
connection is one thread's at a time and a rotated token reaches no caller
(client); a role that was taken away stops working within the cache's lifetime
(identity); a registered app can log in to its own database and nobody else can
connect to it by default (provisioning); a page shows what its operator was told
has been done, and stops showing what is over (Admin UI); one repeated call
repairs what overlapping or failed ones left (installation).
`PROJECT.json` lists every component, with the ones left out and why, and
every hazard with the line where it bites.

## 2. The modules

| module | models | extends |
|---|---|---|
| `DeployHistory` | the rows of `MENDIX_DEPLOY_HISTORY` and what insert, prune, purge and the rollback queries make of them | Naturals, Sequences, FiniteSets |
| `AppLifecycle` | one app: registry row, service, secrets, other objects, history, the request threads and their tasks, the stage, the controller's environment | DeployHistory |
| `AppStatus` | what the Controller promises of `last_deploy_status`: the abstract specification of `AppLifecycle` | |
| `EgressWatch` | the daily watch over the egress addresses and the routes that share its configuration rows, with time | Integers |
| `RoleSync` | the logins of one user of a Mendix app and the synchronisation of its userroles | FiniteSets |
| `SqlClient` | the one connection of `snowflake_client.py`: lock, reconnect, second attempt, token rotation | Naturals |
| `CallerIdentity` | who a request comes from and what it may do: the identity cache, the roles a browser session vouches for | Integers, Sequences |
| `Provisioning` | several apps over one Postgres instance: `pg_admin.py` with `create_app`, its rollback and `delete_app` around it | |
| `Installation` | the installed application's procedures: callbacks, readiness gate, the two services' specifications, upgrades | Naturals |
| `AppsPage` | what a browser session shows of an app: the cached list, the fragment that refreshes itself, the actions | Naturals |
| `ConstantsEditor` | the Constants editor and the routes it and Redeploy call, over the lives of one app | |
| `LogDownloads` | the table of jobs, its task and its pruning, and the page that polls | Integers |
| `MCAppLifecycle`, `MCRoleSync` | the functions and sets of sets of the instances checked | their module |
| `MCController` | `SqlClient`, `CallerIdentity`, `Provisioning` and `Installation` side by side | these |
| `MCAdminUI` | `AppsPage`, `ConstantsEditor` and `LogDownloads` side by side | these |
| `AppLifecycle_proofs`, `RoleSync_proofs`, `EgressWatch_proofs`, `Provisioning_proofs`, `Installation_proofs` | the theorems about a module | the module, TLAPS |
| `AppSerial_proofs` | the theorems about `AppLifecycle` with one task at a time | `AppLifecycle_proofs` |
| `Controller_proofs` | the theorems about `SqlClient` and `CallerIdentity`, and about `MCController` | `MCController`, `Provisioning_proofs`, `Installation_proofs` |
| `AdminUI_proofs` | the theorems about `AppsPage`, `LogDownloads`, `ConstantsEditor` and `MCAdminUI` | `MCAdminUI`, TLAPS |

Definitions whose comment begins with `Mutant:` are plausible mistakes, used
to see that each property can be broken by a mistake in the code; nothing else
refers to them. `PROJECT.json` maps every other definition to its lines.

### AppLifecycle

* **A statement is a step.** `snowflake_client.execute_sql` holds one
  process-wide lock, so a statement is atomic and what a thread computes
  between two statements can be joined to one of them. `worker[w].pc` names the
  statement thread `w` issues next; a worker is a request thread that runs a
  handler and then its background task. `Handle(w)` is the first read of a
  handler with the guards decided on it (`_record_for_mutation`,
  `_require_pad_deployed` and each route's own); `Proceed(w)` the statements
  after it. The write of the transient status (`MarkInProgress`) is a later
  step than the read that allowed it.
* **One task for all operations.** `_run_lifecycle_task` is shared by every
  operation, and so are the actions: `Persist` (columns written before),
  `ApplySpec`, `ApplyEgress`, `PollStatus`, `PollContainers`, `StampSuccess`,
  `DropKey`, `RecordHistory`, `PruneHistory`, `MarkFailed`. What distinguishes
  the operations is in `TaskStart`, `PersistedEarly`, `SuccessColumns`,
  `Stamped`, `AfterStamp` and `Label`.
* **Failures.** `Raise` fails the statement a thread stands at if it is in
  the instance's `Faults`, or if it must fail (`Impossible`); `AfterRaise` says
  where the `except` clauses take the thread. Teardown steps are collected
  instead (`TearDown`). `Restart` loses all threads, may bring a newer image or
  other bound slots and refreshes the staleness flag. Not modelled there: a statement
  that reports a failure after having had its effect, and the client's own
  repetition of a statement (`SqlClient`).
* **Configuration** is one record (PAD, tier, license, role mapping, external
  access, constants), since history rows, the registry and the spec are all
  built from those columns. `svc.cfg` is what the service was last given,
  `row.cfg` what the registry shows. Constants are their names: the registry
  and the history keep no values.
* **SPCS is external**: a service told something new passes through
  `STARTING`, `UP` and `SERVING` in its own time (`ServiceProgress`), and may
  still answer with its old state at first (`Restarted`).

### EgressWatch

`WatchStep` is one statement of `run_iteration` or the end of the sleep of
`run_loop`. Time passes in half days (`Tick`): an iteration takes less than one,
a sleep exactly two, so a restart shifts the hour of the watch and two iterations can
fall on one date or a date can be missed at either end. The sleep ends when it
is over and an iteration is not overtaken by a second half day: a `Tick` is not
possible before. The acknowledgement is one statement,
the alert configuration two (`StoreIntegration`, `StoreRecipients`). Three
variables only observe: `mails` and `lost` count what was sent on each date
and how much of it left no trace or a doubled one, `unsent` says since when
an alert is due.

### RoleSync

`processRequest` from the lookup of the user to the session, with
`provisionUser`, `loadRoleMapping` and `syncUserRoles`. `Lookup`,
`DeletePlainUser`, `ProvisionUser`, `ReadRoles` and `CommitRoles` are the calls
to the Mendix runtime; `ChooseTarget` is the caller-rights query together with
the early returns around it. The runtime is external. It is taken to read the
two role sets when the handler asks for them and to write each set the handler
replaced as a whole. `manual`, and `before`, `disturbed` and `ok` of a login,
only observe.

### SqlClient

`Acquire`, `Connect`, `Answer`, `Lose`, `Reject`, `Refuse` and `Return` are the
points of `execute_sql` and `get_connection` at which something outside can
decide what comes next. The platform rotates the token in the file (`Rotate`)
and later lets the older ones expire (`Expire`), also for connections opened
with them. An answer may get lost before or after the statement took effect,
and both look the same to the code, so a statement takes effect up to twice.

### CallerIdentity

A request looks the token up under the lock (`LookUp`), queries without it
(`Query`, `QueryFails`) and stores what it got with the time at which it
*began* (`Store`, `Stamped`). Requests through the Admin UI carry the roles the
browser session asked for when it was opened (`OpenBrowser`, `Vouch`).
`held` is the history of the user's roles, tick by tick, against which the
properties measure what a request was judged by.

### Provisioning

`MakeSchema` to `InsertApp` are the statements of a registration,
`DropSchema` to `DeleteRows` those of a delete and of the rollback of a
registration, in the order of the code. A step of an app's request interleaves
with those of the others, and any may fail. Two apps may name one
`pg_database`, which nothing in the code refuses. `past` observes whose
database was dropped by a request on another app and whose delete was left
half done. Requests on one name do not overlap here; `AppLifecycle` has those.

### Installation

A call of `grant_callback`, `register_reference` or `maybe_start_services`, or
an upgrade, goes through its statements one by one, because each commits by
itself: create the pool or bind the reference, note that (`PoolReady`, `Note`),
read the gate (`Gate`), build the
specification from what is noted (`BuildController`), create, respecify, set
the integration, then the same for the Admin UI. Calls overlap freely, and any
statement may fail (`StatementFails`): a reference can stay bound and not
noted, or noted and not bound. The statement that binds or creates is where a
call begins; failing there, it changes nothing. Only a second change of a
reference that a call is still about to note is left out: the consumer's dialog
makes one change of a reference at a time. `unnoted` observes which slots have
changed since they were last noted, `settled` whether the last call
to end succeeded and overlapped with no other. What a new image or other slots
mean to the running Controller is `AppLifecycle`'s `Restart`.

### AppsPage

One app, whose row changes `version` with every action and end of a task. A
session runs its script (`Rerun`, `LookupApps`, `Fetch`, `StoreAnswer`,
`WithTable`) or, every ten seconds while the script left it polling, the
table's fragment (`Tick`). `list_apps` caches one answer per operator for 60
seconds (`AnswerExpires`), and what the function body does, setting the warning
of the session that runs it, happens only on a miss. An action that the
Controller has accepted is answered (`Act`), and the page empties the caches and
runs again (`Acted`); or the answer is lost (`ActUnanswered`), since the client
gives up after 30 seconds (controller_client.py:77-81): then the detail panel
shows the error and leaves table and caches alone, while the bulk panel counts a
refusal and goes on as after an answer. A request that runs only after the
client has given up looks like a machine client's (`ClientActs`). Streamlit's part is taken
from its documentation: runs of one session follow each other, the interval of
a fragment is fixed by the last full run, and a cached function runs once per
miss of one operator.

### ConstantsEditor

A line of the editor is absent, masked, empty or typed; a secret has no value,
the mask or a real value. A click computes the request from the session's lines and
from what the current run of the fragment has read (`Click`), the route answers
(`SaveAnswer`, `RedeployAnswer`) and its task works later (`StoreConstants`,
`StoreDefaults`, `DeployOver`). Meanwhile machine clients stage PADs, delete
the app and register it again. Failures inside a request or a task are
`AppLifecycle`'s.

### LogDownloads

The task fetches the logs and then ends the job in one update under the lock
(`RunLogDownload`). A poll finds the job under the lock but reads its fields
after leaving it: the status with the lookup (`LookUpJob`), the logs later
(`ReadLogs`). Starting a download prunes what ended
long ago (`Stale`). A page keeps the number of its job and asks for it with
the source it has selected (`Poll`); its answer may get lost, its right to read
may come and go, a restart loses the table.

## 3. The runs

| run | instance | what it shows |
|---|---|---|
| `app_race` | two threads; create, delete, deploy; three statements and the deprovisioning may fail | `TransientHasTask`, and under fairness `TransientResolves`: whatever two requests that raced past the guard, or a delete and a new registration under a live task, do to the row, a status that blocks other changes has a task that will replace it |
| `app_platform` | two threads, two images, restarts | `PlatformImageTruthful`: no interleaving of tasks and upgrades hides an old image behind the current one |
| `app_delete` | one thread, two PADs, two constants, every statement may fail, restarts | `DeleteIsComplete`, `NoOrphanHistory`, `MountedConstantsExist` |
| `app_rollback` | one thread, two PADs and tiers, every statement of a change may fail, PADs leave the stage | `FailureExplained`, `ReadyMeansApplied`, `HistoryTellsTruth` |
| `app_status_machine` | one thread, every operation but spec change, platform update and rollback, failures | `TypeOK`, `LicenseKeyMatches`, `StampTellsTruth`, and `ImplementsStatusMachine`: the Controller implements `AppStatus!FairSpec` |
| `role_sync` | one login at a time, two Snowflake roles, four userroles of which one is not declared, three mappings, an administrator who edits | `GrantsRemembered`, `SessionRoles`, `ManualRolesKept` |
| `controller_parts` | two threads, three tokens; two requests of one caller over three ticks; two apps over one database, every fault; two callers of the installation's procedures, one optional slot, two versions | `ConnectionExclusive`, `RotationHidden`, and under fairness `CallsEnd`; `RevocationBounded`, `FailureNotRemembered`; `CredentialsWork`, `PublicShutOut`; `RepeatRepairs`, `TokensAgree`; the types of the four parts |
| `admin_ui_parts` | two operators with a session each, two changes of the app; one panel, two PADs and constants; one Logs page, two sources, two downloads, one lost answer | `OwnActionShown`, `BlankMeansWarned`, and under fairness `PageSettles`; `StoredHaveValues`, `PadHasConstants`; `LogsMatchSource`, `PollingKeepsJob`, and under fairness `DownloadEnds`; the types of the three parts |
| `egress_watch` | nine half days, two expiries, one failure | `AlertOncePerDay`, `AlertJustified`, `AlertInTime` |

In `controller_parts` and `admin_ui_parts` the parts share no variable, so a
step of one neither helps nor hinders another: each behaviour moves one part
(`part`) while the others stay in one initial state. That says of each part
what a run of its own would say. They have about 745,000 and 335,000 states.

Three runs are expected to find a violation. Each checks one statement the
repository makes about itself and that its code does not keep; `PROJECT.json`
quotes the statement.

| run | what the code does |
|---|---|
| `resume_after_failed_change` | a resume writes READY on an app whose last change failed half-way; the rollback that would repair it is refused (`ReadyMeansApplied`) |
| `rollback_of_create` | a registration that names the database of another app and fails, in whatever statement, drops that database (`RollbackSparesOthers`) |
| `first_deploy_needs_constants` | an app that has deployed nothing and lacks the value of a constant: Redeploy answers that it must be saved first, and saving answers that a PAD must be deployed first (`AdviceWorks`) |

The passing runs leave out exactly what those show, and what follows from
documented choices:

* `ReadyMeansApplied` without `resume` and `external_access`;
  `PlatformImageTruthful` without `external_access`; `NoOrphanHistory` with one
  thread.
* `TransientHasTask` and the refinement without restarts and without failures
  of the two statements outside the `try` (the column persisted before it, the
  write of FAILED in its `except`): after those the status does stay transient
  with no task left, and only a delete gets the app out of it.
* `HistoryTellsTruth`, `StampTellsTruth`, `ReadyMeansApplied` and
  `LicenseKeyMatches` with one thread: two tasks of one app that have both
  passed the guard overwrite each other's service (section 5).
* `LicenseKeyMatches` without rollbacks (a rollback across a change of license
  restores the id next to the other key, which the history cannot hold),
  without a failure between the key and the row (a failed `mark`, `upfront` or
  `fail`), and with teardowns that remove the service.
* `DeleteIsComplete` without the failure that `deprovision_app` swallows.
* `GrantsRemembered` and `SessionRoles` for logins one at a time: two logins
  that overlap replace the role sets from what each has read.
* `BlankMeansWarned` and `OwnActionShown` with one session per operator. The
  answer is cached for the operator and the warning kept by the session that
  fetched it, so a second tab shows blank statuses without the warning. And a
  second tab that has fetched when the first one acts stores its answer after
  `_refresh_now` has emptied the caches: the first one then shows the app as it
  was before the action, until the answer expires or the page is refreshed.
* `OwnActionShown` for the actions whose answer arrived, and for those of the bulk
  panel. After an action of the detail panel whose answer was lost the page shows
  an error and the table from before it, and a run of the script within the next
  minute shows the cached answer from before it (section 5).
* `RepeatRepairs` promises the slots that `install_state` notes. These are bound;
  but a slot whose UPDATE of `install_state` failed after it was bound stays
  outside until it is bound again, however often the procedures are called
  (section 5). `unnoted` holds those.
* `CredentialsWork` and `PublicShutOut` for apps that no request on another app
  has robbed of their database (the finding of `rollback_of_create`, and any
  delete of an app that shares one) and that no delete has left half done.
* `RevocationBounded` measures an operator by the beginning of his browser
  session, because the roles it vouches for are not asked for again.

### Bounds, and why they are enough

* Two threads: every race in the code is between two of them. The
  properties about configurations need one, since only the order of changes
  matters to them.
* `Keep` is 0, 1 or 2 history rows where the code keeps 20: two are enough
  for a rollback to a row that is not the newest and for pruning to bite.
  `HistorySlack` lets one unpruned row stay behind after a failed prune or a
  restart before it.
* Two values of each kind of data that an operation compares: PADs, tiers,
  licenses, images, constants, of which one has a default and one has not.
* `Horizon` 9 half days, `MaxFailures` 1: an expiry that comes near, is alerted
  about, acknowledged, rotated to a later one and alerted about again. The
  thresholds are one day instead of 30 and 14. The bound of `AlertInTime` is
  tight here, and it has been seen to hold with two failures and eleven half days.
* `controller_parts`: three tokens let one expire between the two attempts of a
  statement and another after it; a cache lifetime of two ticks in a clock of three
  separates an entry that is still valid from one that is not; two apps are
  the least that can share a database; two callers are the least that can
  overlap. The installation needs no bound but that on versions: its
  calls repeat for ever. One object per reference there; rebinding to another is
  covered by the proofs.
* `admin_ui_parts`: two changes of the app let one happen while the answer to
  another is under way; two PADs of which one declares a constant without a
  default and the other one with; two downloads let the second prune the first.
  One panel, since panels meet only in the app, which machine clients change as
  well.
* Symmetry among threads is used in `app_platform`, which has no liveness
  property. Deadlock is checked in every run.

### Fairness

`FairSpec` of `AppLifecycle` is weak fairness of `Proceed(w)` for each thread:
once a request has entered, its thread goes on, because polls end after 300
seconds, the thread pool runs what it has accepted, and a statement comes to
an end: the first attempt is given 60 seconds by the code; that the second, which
has no time-out of its own, ends in an answer or an error is assumed of the
connector. Users, operators who stage files and SPCS owe nothing: a service
that never comes up ends in `PollTimeout`. `EgressWatch` needs no fairness:
`AlertInTime` bounds the time instead, which stands still until what is due has
been done.

`SqlFairness`: a thread that has been accepted goes on, its second attempt
included (the same assumption on the connector: the code bounds the first attempt
only), so every holder leaves the lock; and since Python hands the lock on, a
thread that waits gets it some time (strong fairness of `Acquire`).
`PageFairness`: a script that has begun runs on, the fragment's timer ticks while
the page is open (and closing it counts as not showing the operation any
more), tasks end, and a fetch that is repeated every ten seconds does not fail
for ever (strong fairness of `Fetch`). `LogFairness`: the background task
ends and the page goes on polling and reading; that answers do not get lost for
ever is the bound `MaxLosses`. Operators, machine clients, rotations, grants and
restarts owe nothing.

## 4. The theorems

Proved by TLAPS for every value of the constants that satisfies the
assumptions named in the modules.

The theorems that need more state it: `OneThread` (one request or task of an
app at a time), `Alone` (logins of a user that do not overlap), `Lone` (the only
session of its operator), and operations or faults that are left out (`Ops`,
`Faults`). These are the conditions under which the code keeps the property,
not ones that make it hold for nothing: TLC violates the property when any one
of them is dropped, and the runs of section 3 satisfy them.

**One app, any number of threads** (`AppLifecycle_proofs`).

* `TypeCorrect`. `TypeOK` is not inductive: that a thread at `service` is a
  create and that a deploy that stamps its PAD has one must be carried along.
  `ThreadOK` says which operations can stand at which statement (`OpsAt`), and
  TypeOK /\ ThreadOK is inductive (`InitOK`, `NextOK`).
* `FailuresExplained`. The lemma `StatusWriters` shows that every step leaves
  the status and `failed_operation` alone or writes one of the few pairs the
  code writes; each of them satisfies it.
* `TransientStatusHasTask`, unless a restart or a failure of a statement outside
  the `try` comes between. A transient status and its task are written and
  ended together (`StatusPending`); a second task may take the status over,
  and then that one will end it.
* `PlatformImagesAreTruthful`, without `external_access`. The link that is
  missing is what a thread about to stamp knows (`ImageMatches`): it has given the
  service the current image, or the service is gone since; and no row names an
  image newer than the current one.

**One app, one task at a time** (`AppSerial_proofs`), for any operations,
configurations, histories and faults but those named. Nearly all of them rest on
`TaskMatches`, which relates a task's statement to the row and the service: the
status is the one its progress says (`StatusMatches`); what it still has to
write leads to its target, and from `apply` on the service has been given that
(`ConfigMatches`).

* `StampsTellTruth`, an action property; `HistoryIsTruthful`, without
  `external_access`; `ReadyIsApplied`, without `external_access`, `resume` and
  `delete` (a teardown that fails keeps a READY row without a service). The
  last is inductive once it is claimed during tasks as well (`ReadyBuilt`).
* `ConstantsAreMounted`: the constants a task is to store or mount have a secret
  or are still to be written before it gets there (`SecretInv`).
* `NoOrphansAreLeft` and `DeletesAreComplete`, the latter without the failure that
  `deprovision_app` swallows. What the last step of a delete leaves is not
  inductive: each step adds its part, and a delete that comes to its row without a
  failure has done them all (`TeardownInv`).
* `LicenseKeysMatch`, without rollbacks and without the faults that part the two
  writes: the key is that of the license shown, except between the writes of
  `update_license`, where it is the new one's already, and in an app that is being
  dismantled (`KeyInv`).
* `StatusIsRefined`: Spec => StatusMachine!Spec, the safety half of the refinement
  that `app_status_machine` checks. Every step of the code is a step of
  `AppStatus` or a stutter of the status.

**The egress watch** (`EgressWatch_proofs`): `TypeCorrect`, `AlertsAreCounted`,
`AlertsAreJustified` and `AlertsComeInTime`.

* The count of one alert a day is inductive only with what the watch knows:
  no date later than today has been recorded (`Forward`, `Recorded`) and a date
  that is not recorded has no alerts but those that left no trace (`Counted`).
* What an iteration has read one statement after the other is still so when it
  sends, unless a request has raced with it (`ReadsHold`).
* The bound on the wait is inductive with the place of the watch: `OnTrack` says
  that this iteration will send unless something fails, and `WaitBounded` gives the
  wait its share for each place: an iteration takes half a day and the sleep
  two of them. TLC had it for two failures and eleven half days first.

**The roles of an SSO user** (`RoleSync_proofs`): `TypeCorrect`;
`ManualRolesAreKept` for any number of overlapping logins, from `KeptInv`: what a
login has read is what the user has unless it was disturbed, and every
remembered or targeted role is one some mapping names; `RolesAreAccountedFor` and
`SessionsGetTheirRoles` assuming `Alone`, both from `RememberedInv`: what the
handler read as last-synced is still what is stored, so the roles it takes for
unmanaged are manual ones.

**The Controller's other parts** (`Controller_proofs`, `Provisioning_proofs`,
`Installation_proofs`).

* `SqlTypeCorrect`, `ConnectionIsExclusive` and `RotationIsHidden`.
  `ConnectionExclusive` needs that the holder of the lock is exactly the thread
  inside the `with` block (`LockOK`); that a refusal means an expiry during the
  call needs what the second attempt knows (`SecondChanceOK`): it starts
  without a connection and opens one with the token of the file, which has not
  expired when it is read.
* `IdentityTypeCorrect`, `RevocationIsBounded` and `FailureIsNotRemembered`. Both
  follow from one invariant: whatever the cache, the browser session or a
  request under way holds was the user's set of roles at some tick no older than
  its stamp (`CacheOK`, `BrowserOK`, `RequestsOK`). It is inductive because
  `Store` stamps with the beginning of the request and not with its end.
* `ProvisioningTypeCorrect`, `CredentialsAlwaysWork` and `PublicIsShutOut`, for
  any number of apps and databases. A property of finished registrations is
  not inductive: `Established` says what each statement of a registration has
  achieved for the next, and the lemma `Spares` that a request on one app
  leaves the others' objects alone, or has robbed them of their database.
* `InstallationTypeCorrect`, `RepeatAlwaysRepairs` and `TokensAlwaysAgree`, for
  any slots, objects, callers and versions, whichever statement fails. The
  invariant relates `install_state` to the slots but for those whose last change
  has not been noted (`NotedOK`), says that a call nothing has overlapped with is
  the only one (`AloneOK`), and what such a call has come to at each statement
  (`ProgressOK`): past the ALTER of the Controller, that every slot noted is bound,
  since the ALTER would have failed otherwise.
* `ControllerTypeCorrect`: the four invariants hold side by side, since a step of
  one part is a stutter of the others. That is what makes one run for four parts
  as good as four.

**The Admin UI** (`AdminUI_proofs`).

* `PageTypeCorrect`, `OwnActionsAreShown` and `BlanksAreWarnedOf`, both if each
  operator has one session, and `LoneSessionsAreTold`, which gives both to the
  operators who have one while others have several. The cached answer, the one
  under way and the table shown are each as new as the last action of the session
  that was answered or done in bulk, from the time it has emptied the caches
  (`SeenBy`); one that was not answered changes nothing the session knows.
* `LogTypeCorrect`, `LogsAlwaysMatchSource` and `PollingAlwaysKeepsJob`. What a
  request has read of a job stays true of it (`PollOK`), because the task writes
  the end in one assignment; a job that is no longer listed has been lost or
  ended longer ago than its lifetime (`JobOK`), and a page has not seen it
  unfinished since (`ViewOK`).
* `EditorTypeCorrect`, `StoredConstantsHaveValues` and `DeployedPadsHaveConstants`.
  The names a task is about to store must have their values already
  (`AddingHaveValues`), and the PAD a deploy is about to record its constants
  (`DeployHasPad`).
* `AdminTypeCorrect`: the three invariants side by side.

Every invariant and every action property that a passing run checks is a
theorem's. Only model-checked are the liveness properties (`TransientResolves`,
`CallsEnd`, `PageSettles`, `DownloadEnds`) and the fairness half of
`ImplementsStatusMachine`: fairness and ENABLED are out of the prover's reach. The
three runs that expect a violation have counterexamples, not proofs.

## 5. What is not modelled

`PROJECT.json` gives the reason for each component. In short: the pages of the
Admin UI that show one request's answer, the activity log and progress texts
(nothing decides on them); the rendering of specs and the reading of PAD
files (pure functions, whose result is what the models take as data); the
token cache of the SSO module (one token of one session, which the browser's next
request brings again); build and release scripts, the base image's entry point
and the table DDL, which run once; Snowflake, SPCS, Postgres, Streamlit and the
Mendix runtime, which appear as far as the code relies on them.

Of two requests on one name, `AppLifecycle` has the race on the row and its
tasks, `Provisioning` the statements on Postgres; what two registrations of one
name do to each other's Postgres objects is in neither.

Seen while modelling, in the model or next to it, without a run of their own:

* Two deploys can pass the 409 guard before either writes `DEPLOYING`, and
  both tasks run (main.py:390-392).
* A task that outlives its app writes a history row after the purge
  (deploy_history.py:185-187).
* A failed fetch deletes the stored expiry, and the banner with it, until the
  next day (egress_watch.py:103-104).
* An external-access change stamps the current image on a service that may
  still run the old one (main.py:994-997).
* `grant_callback` sets `pool_ready` whichever privileges it was given
  (setup_script.sql:289), where the gate's comment takes it for "pool +
  warehouse created": without the pool, binding the last reference raises,
  and the next grant repairs it.
* `register_reference` notes a reference in a statement after the one that binds it
  (setup_script.sql:353, 364-382). If that fails, a bound slot stays out of the
  Controller whoever calls `maybe_start_services`, and a bound secret or
  integration leaves the installation "waiting", until it is bound again; a
  reference that was removed and stays noted makes every start fail.
* An action of the detail panel whose answer is lost leaves the table from before
  it on the page, next to an error (1_Apps.py:382-383 and the other buttons),
  where the caption says that status is fetched after each action (1_Apps.py:167).
* The Admin UI says "The PG database is NOT deleted" (1_Apps.py:399, 973), and
  deleting an app drops it.
* A statement whose answer is lost runs twice, where the client's comment counts
  on once (snowflake_client.py:101-102).
* A rollback does not restore the detected userroles of its PAD; pruning
  may push out the only READY row; an external-access change stores its slots
  first and the next READY does not repair a failure in between; a READY
  history row of an external-access change names columns its service may not
  run; a mapping whose only target is a userrole the app no longer declares
  leaves the user without a role; after a save the editor keeps the value it has
  sent and sends it again with the next one.

## 6. Plan

1. Two registrations of one name in `Provisioning`, with `CredentialsAlwaysWork`
   for the app that is registered in the end.
2. What remains of the serial theorems when two tasks of one app race: which
   fields each of them may still get wrong, as an invariant for any number of
   threads.
3. Pure algorithms: secret names, service names, mapping and constant merging,
   against reference definitions.
