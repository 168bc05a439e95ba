---------------------------- MODULE Installation ----------------------------
(***************************************************************************)
(* The installed application's own procedures (setup_script.sql): they     *)
(* record which privileges were granted and which references are bound,    *)
(* and start or restart the Controller and the Admin UI.                   *)
(*                                                                         *)
(* Each statement of a procedure commits by itself, so the calls of the    *)
(* consumer, of Snowflake's callbacks and of an upgrade interleave between *)
(* statements, and one that fails leaves what the ones before it did: a    *)
(* reference may be bound and never noted.  Snowflake is external: any     *)
(* statement may fail at any time, and one about a service does when its   *)
(* compute pool or a reference it names is missing.  Nobody binds a        *)
(* reference anew while a call that changed it is still about to note it.  *)
(***************************************************************************)
EXTENDS Naturals

CONSTANTS
    Slots,        \* the optional references app_eai_N
    Objects,      \* secrets and integrations a reference may be bound to
    Unbound,      \* no object
    Callers,      \* who calls a procedure: a callback, an operator, an upgrade
    MaxVersion    \* bound: versions of the application

ASSUME InstallationAssumption ==
    /\ Unbound \notin Objects
    /\ MaxVersion \in Nat \ {0}
    /\ Slots \cap {"pg_secret", "pg_eai"} = {}

VARIABLES
    pool,         \* the compute pool exists
    bound,        \* the object each reference is bound to
    installState, \* install_state: pool_ready, and the references noted as bound
    authToken,    \* internal_auth_token in internal_config
    version,      \* the installed version of the application
    controller,   \* the specification the Controller runs, or NoService
    adminUi,      \* the specification the Admin UI runs, or NoService
    caller,       \* what each caller's procedure does
    unnoted,      \* the optional references whose last change is not noted
    settled       \* the last call to end succeeded, and overlapped with no other

installationVars ==
    <<pool, bound, installState, authToken, version, controller, adminUi, caller,
      unnoted, settled>>

Required == {"pg_secret", "pg_eai"}
References == Required \cup Slots

NoService == [image |-> 0, token |-> 0, slots |-> {}, secret |-> Unbound, egress |-> Unbound]
Running(service) == service # NoService

\* ref: the reference to note, alone: no other call has been under way during
\* this one, spec: the service specification the procedure has built.
NoCaller == [pc |-> "idle", ref |-> "pg_secret", alone |-> TRUE, spec |-> NoService]

ServiceSteps ==
    {"create_controller", "respec_controller", "egress", "create_ui", "respec_ui"}

Services ==
    [image : 0..MaxVersion, token : 0..MaxVersion, slots : SUBSET Slots,
     secret : Objects \cup {Unbound}, egress : Objects \cup {Unbound}]

CallerRecords ==
    [pc : {"idle", "note", "pool_ready", "gate", "controller", "admin_ui"} \cup ServiceSteps,
     ref : References, alone : BOOLEAN, spec : Services]

InstallationTypeOK ==
    /\ pool \in BOOLEAN
    /\ bound \in [References -> Objects \cup {Unbound}]
    /\ installState \in [pool_ready : BOOLEAN, noted : SUBSET References]
    /\ authToken \in 1..MaxVersion
    /\ version \in 1..MaxVersion
    /\ {controller, adminUi} \subseteq Services
    /\ caller \in [Callers -> CallerRecords]
    /\ unnoted \subseteq Slots
    /\ settled \in BOOLEAN

\* The setup script has run for the first time.
InstallationInit ==
    /\ pool = FALSE
    /\ bound = [r \in References |-> Unbound]
    /\ installState = [pool_ready |-> FALSE, noted |-> {}]
    /\ authToken = 1
    /\ version = 1
    /\ controller = NoService
    /\ adminUi = NoService
    /\ caller = [c \in Callers |-> NoCaller]
    /\ unnoted = {}
    /\ settled = FALSE

Idle(c) == caller[c].pc = "idle"

-----------------------------------------------------------------------------
(* The beginning and the end of a call.                                    *)

Begin(c, pc, ref) ==
    /\ Idle(c)
    /\ caller' = [d \in Callers |->
                    IF d = c
                    THEN [NoCaller EXCEPT !.pc = pc, !.ref = ref,
                                          !.alone = \A b \in Callers : Idle(b)]
                    ELSE IF Idle(d) THEN caller[d] ELSE [caller[d] EXCEPT !.alone = FALSE]]
    /\ UNCHANGED settled

Goes(c, pc) ==
    /\ caller' = [caller EXCEPT ![c].pc = pc]
    /\ UNCHANGED settled

End(c, succeeded) ==
    /\ settled' = (succeeded /\ caller[c].alone)
    /\ caller' = [caller EXCEPT ![c] = NoCaller]

-----------------------------------------------------------------------------
(* grant_callback: pool_ready is set whichever privileges were granted.    *)

GrantCallback(c, privileges) ==
    /\ Begin(c, "pool_ready", "pg_secret")
    /\ pool' = (pool \/ "CREATE COMPUTE POOL" \in privileges)
    /\ UNCHANGED <<bound, installState, authToken, version, controller, adminUi, unnoted>>

PoolReady(c) ==
    /\ caller[c].pc = "pool_ready"
    /\ installState' = [installState EXCEPT !.pool_ready = TRUE]
    /\ Goes(c, "gate")
    /\ UNCHANGED <<pool, bound, authToken, version, controller, adminUi, unnoted>>

(* register_reference: ADD binds the reference to an object, REMOVE and    *)
(* CLEAR to none.                                                          *)
RegisterReference(c, ref, object) ==
    /\ \A d \in Callers : caller[d].pc = "note" => caller[d].ref # ref
    /\ Begin(c, "note", ref)
    /\ bound' = [bound EXCEPT ![ref] = object]
    /\ unnoted' = unnoted \cup ({ref} \cap Slots)
    /\ UNCHANGED <<pool, installState, authToken, version, controller, adminUi>>

\* Mutant: binding an optional slot does not restart the services.
NoteOnly(c) ==
    /\ caller[c].pc = "note"
    /\ LET ref == caller[c].ref IN
       /\ installState' = [installState EXCEPT
             !.noted = IF bound[ref] # Unbound THEN @ \cup {ref} ELSE @ \ {ref}]
       /\ unnoted' = unnoted \ {ref}
       /\ IF ref \in Required THEN Goes(c, "gate") ELSE End(c, TRUE)
    /\ UNCHANGED <<pool, bound, authToken, version, controller, adminUi>>

Note(c) ==
    /\ caller[c].pc = "note"
    /\ LET ref == caller[c].ref IN
       /\ installState' = [installState EXCEPT
             !.noted = IF bound[ref] # Unbound THEN @ \cup {ref} ELSE @ \ {ref}]
       /\ unnoted' = unnoted \ {ref}
    /\ caller' = [caller EXCEPT ![c].pc = "gate", ![c].ref = NoCaller.ref]
    /\ UNCHANGED <<pool, bound, authToken, version, controller, adminUi, settled>>

\* An operator calls maybe_start_services.
CallByHand(c) ==
    /\ Begin(c, "gate", "pg_secret")
    /\ UNCHANGED <<pool, bound, installState, authToken, version, controller, adminUi, unnoted>>

\* Mutant: the INSERT is not guarded.
TokenRotated == version + 1

\* internal_config keeps the token it has.
TokenAfterUpgrade == authToken

\* The setup script of the next version; its last statement calls
\* maybe_start_services and swallows what that raises.
Upgrade(c) ==
    /\ version < MaxVersion
    /\ Begin(c, "gate", "pg_secret")
    /\ version' = version + 1
    /\ authToken' = TokenAfterUpgrade
    /\ UNCHANGED <<pool, bound, installState, controller, adminUi, unnoted>>

-----------------------------------------------------------------------------
(* maybe_start_services, start_controller and start_admin_ui.              *)

Ready == installState.pool_ready /\ Required \subseteq installState.noted

Gate(c) ==
    /\ caller[c].pc = "gate"
    /\ IF Ready THEN Goes(c, "controller") ELSE End(c, TRUE)
    /\ UNCHANGED <<pool, bound, installState, authToken, version, controller, adminUi, unnoted>>

ServiceSpec(slots) ==
    [image |-> version, token |-> authToken, slots |-> slots,
     secret |-> Unbound, egress |-> Unbound]

Builds(c, spec, pc) ==
    /\ caller' = [caller EXCEPT ![c].pc = pc, ![c].spec = spec]
    /\ UNCHANGED <<pool, bound, installState, authToken, version, controller, adminUi,
                   unnoted, settled>>

BuildController(c) ==
    /\ caller[c].pc = "controller"
    /\ Builds(c, ServiceSpec(installState.noted \cap Slots), "create_controller")

BuildAdminUi(c) ==
    /\ caller[c].pc = "admin_ui"
    /\ Builds(c, ServiceSpec({}), "create_ui")

\* Snowflake resolves every reference that a statement of the Controller names.
Resolvable(c) == pool /\ \A r \in Required \cup caller[c].spec.slots : bound[r] # Unbound

CreateController(c) ==
    /\ caller[c].pc = "create_controller"
    /\ \/ /\ Running(controller)
          /\ UNCHANGED controller
       \/ /\ ~Running(controller)
          /\ Resolvable(c)
          /\ controller' = [caller[c].spec EXCEPT !.secret = bound["pg_secret"],
                                                  !.egress = bound["pg_eai"]]
    /\ Goes(c, "respec_controller")
    /\ UNCHANGED <<pool, bound, installState, authToken, version, adminUi, unnoted>>

\* ALTER SERVICE FROM SPECIFICATION leaves the integrations alone.
RespecController(c) ==
    /\ caller[c].pc = "respec_controller"
    /\ Resolvable(c)
    /\ controller' = [caller[c].spec EXCEPT !.secret = bound["pg_secret"],
                                            !.egress = controller.egress]
    /\ caller' = [caller EXCEPT ![c].pc = "egress", ![c].spec = NoService]
    /\ UNCHANGED <<pool, bound, installState, authToken, version, adminUi, unnoted, settled>>

SetEgress(c) ==
    /\ caller[c].pc = "egress"
    /\ bound["pg_eai"] # Unbound
    /\ controller' = [controller EXCEPT !.egress = bound["pg_eai"]]
    /\ Goes(c, "admin_ui")
    /\ UNCHANGED <<pool, bound, installState, authToken, version, adminUi, unnoted>>

CreateAdminUi(c) ==
    /\ caller[c].pc = "create_ui"
    /\ pool
    /\ adminUi' = IF Running(adminUi) THEN adminUi ELSE caller[c].spec
    /\ Goes(c, "respec_ui")
    /\ UNCHANGED <<pool, bound, installState, authToken, version, controller, unnoted>>

RespecAdminUi(c) ==
    /\ caller[c].pc = "respec_ui"
    /\ adminUi' = caller[c].spec
    /\ End(c, TRUE)
    /\ UNCHANGED <<pool, bound, installState, authToken, version, controller, unnoted>>

\* Also the UPDATE that notes a reference, or the pool, after the statement that
\* bound or created it.  The GRANTs that follow a service's statements are counted
\* among the steps after them.  The error ends the call: in an upgrade it is
\* swallowed, elsewhere raised.
StatementFails(c) ==
    /\ ~Idle(c)
    /\ End(c, FALSE)
    /\ UNCHANGED <<pool, bound, installState, authToken, version, controller, adminUi, unnoted>>

-----------------------------------------------------------------------------
CallerStep(c) ==
    \/ \E privileges \in {{"CREATE COMPUTE POOL", "CREATE WAREHOUSE"}, {"CREATE WAREHOUSE"}} :
          GrantCallback(c, privileges)
    \/ \E ref \in References, object \in Objects \cup {Unbound} :
          RegisterReference(c, ref, object)
    \/ PoolReady(c) \/ Note(c) \/ CallByHand(c) \/ Upgrade(c) \/ Gate(c)
    \/ BuildController(c) \/ CreateController(c) \/ RespecController(c) \/ SetEgress(c)
    \/ BuildAdminUi(c) \/ CreateAdminUi(c) \/ RespecAdminUi(c) \/ StatementFails(c)

InstallationNext == \E c \in Callers : CallerStep(c)

InstallationSpec == InstallationInit /\ [][InstallationNext]_installationVars

-----------------------------------------------------------------------------
BoundSlots == {s \in Slots : bound[s] # Unbound}

\* Whatever was granted, bound, rebound, removed and upgraded, in whatever
\* order, overlapping or failing half way: one more call of a procedure that
\* succeeds and overlaps with no other leaves both services on the installed
\* images, the bound secret and integration, and the slots that are noted
\* (setup_script.sql: "a repeat call is safe, not a no-op").  Those are all bound,
\* and lack of the bound ones at most those whose last change failed before it
\* was noted: only binding such a slot again, to the end, brings it in.
RepeatRepairs ==
    settled /\ Ready /\ (\A c \in Callers : Idle(c)) =>
        /\ controller = [image |-> version, token |-> authToken,
                         slots |-> installState.noted \cap Slots,
                         secret |-> bound["pg_secret"], egress |-> bound["pg_eai"]]
        /\ adminUi = ServiceSpec({})
        /\ controller.slots \subseteq BoundSlots
        /\ BoundSlots \ controller.slots \subseteq unnoted

\* The Admin UI can authenticate itself to the Controller at all times: also
\* between the restarts of the two, and when an upgrade reaches only one.
TokensAgree ==
    Running(controller) /\ Running(adminUi) => controller.token = adminUi.token
=============================================================================
