------------------------ MODULE Installation_proofs -------------------------
(***************************************************************************)
(* Theorems about the installation's procedures: for any number of         *)
(* callers, slots, objects and versions, one call that succeeds on its own *)
(* repairs what all the others have left, but for slots that were never    *)
(* noted, and the two services never carry different tokens.               *)
(***************************************************************************)
EXTENDS Installation, TLAPS

\* The one token there is.
TokenOK ==
    /\ Running(controller) => controller.token = authToken
    /\ Running(adminUi) => adminUi.token = authToken
    /\ \A c \in Callers :
          /\ caller[c].pc \in {"create_controller", "respec_controller", "create_ui", "respec_ui"}
                 => caller[c].spec.token = authToken
          /\ caller[c].pc = "egress" => controller.token = authToken

\* install_state tells the truth about every slot but those whose last change
\* has not been noted.
NotedOK ==
    \A s \in Slots : s \in unnoted \/ (s \in installState.noted <=> bound[s] # Unbound)

\* A call that no other has overlapped with is the only one.
AloneOK ==
    \A c, d \in Callers : ~Idle(c) /\ caller[c].alone /\ d # c => Idle(d)

NotedSlots == installState.noted \cap Slots

\* The Controller as far as its specification goes, and with its integration.
\* A slot that is noted and not bound would have failed its statements.
Respecified ==
    /\ controller.image = version
    /\ controller.token = authToken
    /\ controller.slots = NotedSlots
    /\ NotedSlots \subseteq BoundSlots
    /\ controller.secret = bound["pg_secret"]

Repaired == Respecified /\ controller.egress = bound["pg_eai"]

\* What a call that is alone has come to, by where it stands.
Progress(c) ==
    caller[c].alone =>
        /\ caller[c].pc \in {"create_controller", "respec_controller"}
               => caller[c].spec = ServiceSpec(NotedSlots)
        /\ caller[c].pc = "egress" => Respecified
        /\ caller[c].pc \in {"admin_ui", "create_ui", "respec_ui"} => Repaired
        /\ caller[c].pc \in {"create_ui", "respec_ui"} => caller[c].spec = ServiceSpec({})

ProgressOK == \A c \in Callers : Progress(c)

InstallationInv ==
    InstallationTypeOK /\ TokenOK /\ NotedOK /\ AloneOK /\ ProgressOK /\ RepeatRepairs

-----------------------------------------------------------------------------
LEMMA NoServiceType == NoService \in Services
BY InstallationAssumption DEF NoService, Services

LEMMA NoCallerType == NoCaller \in CallerRecords
BY NoServiceType DEF NoCaller, CallerRecords, References, Required

LEMMA InstallationInitOK == InstallationInit => InstallationInv
<1> SUFFICES ASSUME InstallationInit PROVE InstallationInv
    OBVIOUS
<1>1. InstallationTypeOK
    <2>1. caller \in [Callers -> CallerRecords]
        BY NoCallerType DEF InstallationInit
    <2>2. {controller, adminUi} \subseteq Services
        BY NoServiceType DEF InstallationInit
    <2>3. bound \in [References -> Objects \cup {Unbound}]
        BY DEF InstallationInit
    <2>4. installState \in [pool_ready : BOOLEAN, noted : SUBSET References]
        BY DEF InstallationInit
    <2>5. authToken \in 1..MaxVersion /\ version \in 1..MaxVersion
        BY InstallationAssumption DEF InstallationInit
    <2> QED
        BY <2>1, <2>2, <2>3, <2>4, <2>5 DEF InstallationInit, InstallationTypeOK
<1>2. \A c \in Callers : caller[c].pc = "idle"
    BY DEF InstallationInit, NoCaller
<1>3. TokenOK
    BY <1>2 DEF InstallationInit, TokenOK, Running
<1>4. NotedOK
    BY DEF InstallationInit, NotedOK, References
<1>5. AloneOK /\ ProgressOK
    BY <1>2 DEF AloneOK, Idle, ProgressOK, Progress
<1>6. RepeatRepairs
    BY DEF InstallationInit, RepeatRepairs
<1> QED
    BY <1>1, <1>3, <1>4, <1>5, <1>6 DEF InstallationInv
-----------------------------------------------------------------------------
\* What the beginning, an onward step and the end of a call do to the callers.
LEMMA BeginEffect ==
    ASSUME caller \in [Callers -> CallerRecords], NEW c \in Callers,
           NEW pc \in {"note", "pool_ready", "gate"}, NEW ref \in References, Begin(c, pc, ref)
    PROVE  /\ caller' \in [Callers -> CallerRecords]
           /\ Idle(c)
           /\ settled' = settled
           /\ caller'[c].pc = pc
           /\ caller'[c].ref = ref
           /\ caller'[c].alone => \A d \in Callers : Idle(d)
           /\ \A d \in Callers : d # c =>
                  /\ caller'[d].pc = caller[d].pc
                  /\ caller'[d].ref = caller[d].ref
                  /\ caller'[d].spec = caller[d].spec
                  /\ ~Idle(d) => caller'[d].alone = FALSE
<1> DEFINE mine == [NoCaller EXCEPT !.pc = pc, !.ref = ref,
                                    !.alone = \A b \in Callers : Idle(b)]
           other(d) == IF Idle(d) THEN caller[d] ELSE [caller[d] EXCEPT !.alone = FALSE]
<1>1. mine \in CallerRecords /\ mine.pc = pc /\ mine.ref = ref
          /\ (mine.alone = \A b \in Callers : Idle(b))
    BY NoServiceType DEF NoCaller, CallerRecords
<1>2. ASSUME NEW d \in Callers
      PROVE  /\ other(d) \in CallerRecords
             /\ other(d).pc = caller[d].pc
             /\ other(d).ref = caller[d].ref
             /\ other(d).spec = caller[d].spec
             /\ ~Idle(d) => other(d).alone = FALSE
    BY DEF CallerRecords
<1> HIDE DEF mine, other
<1>3. caller' = [d \in Callers |-> IF d = c THEN mine ELSE other(d)]
    BY DEF Begin, mine, other
<1>4. Idle(c) /\ settled' = settled
    BY DEF Begin
<1> QED
    BY <1>1, <1>2, <1>3, <1>4

LEMMA GoesEffect ==
    ASSUME caller \in [Callers -> CallerRecords], NEW c \in Callers,
           NEW pc \in {"note", "gate", "controller", "admin_ui"} \cup ServiceSteps, Goes(c, pc)
    PROVE  /\ caller' \in [Callers -> CallerRecords]
           /\ caller'[c].pc = pc
           /\ caller'[c].alone = caller[c].alone
           /\ caller'[c].spec = caller[c].spec
           /\ \A d \in Callers : d # c => caller'[d] = caller[d]
BY DEF Goes, CallerRecords

LEMMA BuildsEffect ==
    ASSUME caller \in [Callers -> CallerRecords], NEW c \in Callers,
           NEW pc \in ServiceSteps, NEW spec \in Services, Builds(c, spec, pc)
    PROVE  /\ caller' \in [Callers -> CallerRecords]
           /\ caller'[c].pc = pc
           /\ caller'[c].alone = caller[c].alone
           /\ caller'[c].spec = spec
           /\ \A d \in Callers : d # c => caller'[d] = caller[d]
BY DEF Builds, CallerRecords

LEMMA NoteEffect ==
    ASSUME InstallationTypeOK, NEW c \in Callers, Note(c)
    PROVE  /\ caller' \in [Callers -> CallerRecords]
           /\ caller'[c].pc = "gate"
           /\ caller'[c].alone = caller[c].alone
           /\ \A d \in Callers : d # c => caller'[d] = caller[d]
           /\ installState' \in [pool_ready : BOOLEAN, noted : SUBSET References]
           /\ \A r \in References : r # caller[c].ref =>
                  (r \in installState'.noted <=> r \in installState.noted)
           /\ caller[c].ref \in installState'.noted <=> bound[caller[c].ref] # Unbound
           /\ unnoted' = unnoted \ {caller[c].ref}
<1>1. caller \in [Callers -> CallerRecords] /\ NoCaller.ref \in References
    BY NoCallerType DEF InstallationTypeOK, CallerRecords
<1>2. caller' = [caller EXCEPT ![c].pc = "gate", ![c].ref = NoCaller.ref]
    BY DEF Note
<1>3. /\ caller' \in [Callers -> CallerRecords]
      /\ caller'[c].pc = "gate"
      /\ caller'[c].alone = caller[c].alone
      /\ \A d \in Callers : d # c => caller'[d] = caller[d]
    BY <1>1, <1>2 DEF CallerRecords
<1> DEFINE ref == caller[c].ref
           noted == IF bound[ref] # Unbound THEN installState.noted \cup {ref}
                                            ELSE installState.noted \ {ref}
<1>4. ref \in References /\ noted \subseteq References
    BY <1>1 DEF InstallationTypeOK, CallerRecords
<1>5. installState' = [installState EXCEPT !.noted = noted]
    BY DEF Note
<1> HIDE DEF noted
<1>6. /\ installState' \in [pool_ready : BOOLEAN, noted : SUBSET References]
      /\ installState'.noted = noted
    BY <1>4, <1>5 DEF InstallationTypeOK
<1>7. unnoted' = unnoted \ {ref}
    BY DEF Note
<1> USE DEF noted
<1> QED
    BY <1>3, <1>4, <1>6, <1>7

\* The end of a call, whether it succeeds or not.
LEMMA EndEffect ==
    ASSUME caller \in [Callers -> CallerRecords], NEW c \in Callers,
           NEW succeeded \in BOOLEAN, End(c, succeeded)
    PROVE  /\ caller' \in [Callers -> CallerRecords]
           /\ caller'[c].pc = "idle"
           /\ settled' \in BOOLEAN
           /\ settled' => succeeded /\ caller[c].alone
           /\ \A d \in Callers : d # c => caller'[d] = caller[d]
<1>1. caller'[c] = NoCaller /\ caller' \in [Callers -> CallerRecords]
          /\ \A d \in Callers : d # c => caller'[d] = caller[d]
    BY NoCallerType DEF End
<1>2. caller[c].alone \in BOOLEAN
    BY DEF CallerRecords
<1> QED
    BY <1>1, <1>2 DEF End, NoCaller

-----------------------------------------------------------------------------
\* A call begins: whoever has been alone no longer is.
LEMMA BeginKeeps ==
    ASSUME InstallationInv, NEW c \in Callers,
           NEW pc \in {"note", "pool_ready", "gate"},
           NEW ref \in References, Begin(c, pc, ref),
           UNCHANGED <<installState, authToken, controller, adminUi>>,
           unnoted \subseteq unnoted',
           \A s \in Slots : s \in unnoted' \/ bound'[s] = bound[s]
    PROVE  TokenOK' /\ NotedOK' /\ AloneOK' /\ ProgressOK' /\ RepeatRepairs'
<1>1. caller \in [Callers -> CallerRecords]
    BY DEF InstallationInv, InstallationTypeOK
<1>2. /\ caller'[c].pc = pc
      /\ caller'[c].ref = ref
      /\ Idle(c)
      /\ caller'[c].alone => \A d \in Callers : Idle(d)
      /\ \A d \in Callers : d # c =>
             /\ caller'[d].pc = caller[d].pc
             /\ caller'[d].ref = caller[d].ref
             /\ caller'[d].spec = caller[d].spec
             /\ ~Idle(d) => caller'[d].alone = FALSE
    BY <1>1, BeginEffect
<1> USE DEF Idle
<1>3. TokenOK'
    BY <1>2 DEF InstallationInv, TokenOK, Running
<1>4. NotedOK'
    BY DEF InstallationInv, NotedOK
<1>5. AloneOK'
    BY <1>2 DEF AloneOK
<1>6. ProgressOK'
    <2> SUFFICES ASSUME NEW d \in Callers, caller'[d].alone PROVE Progress(d)'
        BY DEF ProgressOK, Progress
    <2>1. caller'[d].pc \in {"idle", "note", "pool_ready", "gate"}
        BY <1>2
    <2> QED
        BY <2>1 DEF Progress
<1>7. RepeatRepairs'
    BY <1>2 DEF RepeatRepairs
<1> QED
    BY <1>3, <1>4, <1>5, <1>6, <1>7

\* A call goes on or ends: whoever else is under way is not alone.
LEMMA StepOfOne ==
    ASSUME InstallationInv, NEW c \in Callers, ~Idle(c),
           caller'[c].pc # "idle" => caller'[c].alone = caller[c].alone,
           \A d \in Callers : d # c => caller'[d] = caller[d]
    PROVE  /\ AloneOK'
           /\ \A d \in Callers : d # c => Progress(d)'
           /\ caller[c].alone => \A d \in Callers : d # c => Idle(d)
<1> USE DEF Idle
<1>1. \A d \in Callers : d # c => Idle(d) \/ ~caller[d].alone
    BY DEF InstallationInv, AloneOK
<1>2. AloneOK'
    BY DEF InstallationInv, AloneOK
<1>3. ASSUME NEW d \in Callers, d # c PROVE Progress(d)'
    BY <1>1, <1>3 DEF Progress
<1> QED
    BY <1>2, <1>3 DEF InstallationInv, AloneOK

-----------------------------------------------------------------------------
LEMMA VersionType ==
    ASSUME InstallationInv, NEW c \in Callers, CallByHand(c) \/ Upgrade(c)
    PROVE  version' \in 1..MaxVersion
<1>1. version' = version \/ (version < MaxVersion /\ version' = version + 1)
    BY DEF CallByHand, Upgrade
<1>2. version \in 1..MaxVersion
    BY DEF InstallationInv, InstallationTypeOK
<1> QED
    BY <1>1, <1>2, InstallationAssumption

\* The calls that begin.
LEMMA BeginningOK ==
    ASSUME InstallationInv, NEW c \in Callers,
           \/ \E privileges \in {{"CREATE COMPUTE POOL", "CREATE WAREHOUSE"},
                                 {"CREATE WAREHOUSE"}} : GrantCallback(c, privileges)
           \/ \E ref \in References, object \in Objects \cup {Unbound} :
                 RegisterReference(c, ref, object)
           \/ CallByHand(c)
           \/ Upgrade(c)
    PROVE  InstallationInv'
<1>1. caller \in [Callers -> CallerRecords]
    BY DEF InstallationInv, InstallationTypeOK
<1>2. "pg_secret" \in References
    BY DEF References, Required
<1>3. ASSUME NEW privileges \in {{"CREATE COMPUTE POOL", "CREATE WAREHOUSE"},
                                 {"CREATE WAREHOUSE"}},
             GrantCallback(c, privileges)
      PROVE  InstallationInv'
    <2>1. Begin(c, "pool_ready", "pg_secret")
        BY <1>3 DEF GrantCallback
    <2>2. /\ UNCHANGED <<bound, installState, authToken, version, controller, adminUi, unnoted>>
          /\ pool' \in BOOLEAN
        BY <1>3 DEF GrantCallback, InstallationInv, InstallationTypeOK
    <2>3. InstallationTypeOK'
        BY <1>1, <1>2, <2>1, <2>2, BeginEffect DEF InstallationInv, InstallationTypeOK
    <2> QED
        BY <1>2, <2>1, <2>2, <2>3, BeginKeeps DEF InstallationInv
<1>4. ASSUME NEW ref \in References, NEW object \in Objects \cup {Unbound},
             RegisterReference(c, ref, object)
      PROVE  InstallationInv'
    <2>1. Begin(c, "note", ref)
        BY <1>4 DEF RegisterReference
    <2>2. /\ bound' \in [References -> Objects \cup {Unbound}]
          /\ \A s \in Slots : s \in unnoted' \/ bound'[s] = bound[s]
          /\ unnoted' \subseteq Slots /\ unnoted \subseteq unnoted'
        BY <1>4 DEF RegisterReference, InstallationInv, InstallationTypeOK, References
    <2>3. UNCHANGED <<pool, installState, authToken, version, controller, adminUi>>
        BY <1>4 DEF RegisterReference
    <2>4. InstallationTypeOK'
        BY <1>1, <2>1, <2>2, <2>3, BeginEffect DEF InstallationInv, InstallationTypeOK
    <2> QED
        BY <2>1, <2>2, <2>3, <2>4, BeginKeeps DEF InstallationInv
<1>5. ASSUME CallByHand(c) \/ Upgrade(c) PROVE InstallationInv'
    <2>1. Begin(c, "gate", "pg_secret")
        BY <1>5 DEF CallByHand, Upgrade
    <2>2. UNCHANGED <<pool, bound, installState, authToken, controller, adminUi, unnoted>>
        BY <1>5 DEF CallByHand, Upgrade, TokenAfterUpgrade
    <2>3. version' \in 1..MaxVersion
        BY <1>5, VersionType
    <2>4. InstallationTypeOK'
        BY <1>1, <1>2, <2>1, <2>2, <2>3, BeginEffect DEF InstallationInv, InstallationTypeOK
    <2> QED
        BY <1>2, <2>1, <2>2, <2>4, BeginKeeps DEF InstallationInv
<1> QED
    BY <1>3, <1>4, <1>5

\* A call goes on, and changes nothing but itself and the services.
LEMMA OnwardKeeps ==
    ASSUME InstallationInv, NEW c \in Callers, ~Idle(c),
           caller' \in [Callers -> CallerRecords],
           caller'[c].pc # "idle",
           caller'[c].alone = caller[c].alone,
           \A d \in Callers : d # c => caller'[d] = caller[d],
           UNCHANGED <<pool, bound, installState, authToken, version, unnoted, settled>>,
           controller' \in Services, adminUi' \in Services,
           controller' = controller \/ controller'.token = authToken,
           Running(adminUi)' => adminUi'.token = authToken,
           caller'[c].pc \in {"create_controller", "respec_controller", "create_ui", "respec_ui"}
               => caller'[c].spec.token = authToken,
           caller'[c].pc = "egress" => controller'.token = authToken,
           Progress(c)'
    PROVE  InstallationInv'
<1>1. InstallationTypeOK'
    BY DEF InstallationInv, InstallationTypeOK
<1>2. TokenOK'
    <2>1. /\ Running(controller)' => controller'.token = authToken
          /\ \A d \in Callers : caller[d].pc = "egress" => controller'.token = authToken
        BY DEF InstallationInv, TokenOK, Running
    <2> QED
        BY <2>1 DEF InstallationInv, TokenOK
<1>3. NotedOK'
    BY DEF InstallationInv, NotedOK
<1>4. AloneOK' /\ ProgressOK'
    BY StepOfOne DEF ProgressOK
<1>5. RepeatRepairs'
    BY DEF RepeatRepairs, Idle
<1> QED
    BY <1>1, <1>2, <1>3, <1>4, <1>5 DEF InstallationInv

\* A call ends: if it has been alone and has succeeded with the services
\* running, it has repaired them.
LEMMA EndKeeps ==
    ASSUME InstallationInv, NEW c \in Callers, ~Idle(c),
           NEW succeeded \in BOOLEAN, End(c, succeeded),
           UNCHANGED <<pool, bound, installState, authToken, version, controller, unnoted>>,
           adminUi' \in Services,
           Running(adminUi)' => adminUi'.token = authToken,
           succeeded /\ Ready /\ caller[c].alone => Repaired /\ adminUi' = ServiceSpec({})
    PROVE  InstallationInv'
<1>1. caller \in [Callers -> CallerRecords]
    BY DEF InstallationInv, InstallationTypeOK
<1>2. /\ caller' \in [Callers -> CallerRecords]
      /\ caller'[c].pc = "idle"
      /\ settled' \in BOOLEAN
      /\ settled' => succeeded /\ caller[c].alone
      /\ \A d \in Callers : d # c => caller'[d] = caller[d]
    BY <1>1, EndEffect
<1>3. InstallationTypeOK'
    BY <1>2 DEF InstallationInv, InstallationTypeOK
<1>4. TokenOK'
    BY <1>2 DEF InstallationInv, TokenOK, Running
<1>5. NotedOK'
    BY <1>2 DEF InstallationInv, NotedOK
<1>6. AloneOK' /\ ProgressOK'
    BY <1>2, StepOfOne DEF ProgressOK, Progress
<1>7. RepeatRepairs'
    <2> SUFFICES ASSUME settled', Ready', \A d \in Callers : Idle(d)'
                 PROVE  /\ controller' = [image |-> version', token |-> authToken',
                              slots |-> installState'.noted \cap Slots,
                              secret |-> bound'["pg_secret"], egress |-> bound'["pg_eai"]]
                        /\ adminUi' = ServiceSpec({})'
                        /\ controller'.slots \subseteq BoundSlots'
                        /\ BoundSlots' \ controller'.slots \subseteq unnoted'
        BY DEF RepeatRepairs
    <2>1. Ready /\ Repaired /\ adminUi' = ServiceSpec({})
        BY <1>2 DEF Ready
    <2>2. controller = [image |-> version, token |-> authToken, slots |-> NotedSlots,
                        secret |-> bound["pg_secret"], egress |-> bound["pg_eai"]]
        BY <2>1 DEF Repaired, Respecified, InstallationInv, InstallationTypeOK, Services
    <2>3. BoundSlots \ NotedSlots \subseteq unnoted /\ NotedSlots \subseteq BoundSlots
        BY <2>1 DEF InstallationInv, NotedOK, NotedSlots, BoundSlots, Repaired, Respecified
    <2>4. controller'.slots = NotedSlots /\ BoundSlots' = BoundSlots
        BY <2>2 DEF BoundSlots
    <2>5. ServiceSpec({})' = ServiceSpec({})
        BY DEF ServiceSpec
    <2> QED
        BY <2>1, <2>2, <2>3, <2>4, <2>5 DEF NotedSlots
<1> QED
    BY <1>3, <1>4, <1>5, <1>6, <1>7 DEF InstallationInv

-----------------------------------------------------------------------------
\* What register_reference does after the reference is bound.
LEMMA NoteOK ==
    ASSUME InstallationInv, NEW c \in Callers, Note(c)
    PROVE  InstallationInv'
<1>1. /\ caller' \in [Callers -> CallerRecords]
      /\ caller'[c].pc = "gate"
      /\ caller'[c].alone = caller[c].alone
      /\ \A d \in Callers : d # c => caller'[d] = caller[d]
      /\ installState' \in [pool_ready : BOOLEAN, noted : SUBSET References]
      /\ \A r \in References : r # caller[c].ref =>
             (r \in installState'.noted <=> r \in installState.noted)
      /\ caller[c].ref \in installState'.noted <=> bound[caller[c].ref] # Unbound
      /\ unnoted' = unnoted \ {caller[c].ref}
    BY NoteEffect DEF InstallationInv
<1>2. /\ UNCHANGED <<pool, bound, authToken, version, controller, adminUi, settled>>
      /\ caller[c].pc = "note"
    BY DEF Note
<1>3. InstallationTypeOK'
    BY <1>1, <1>2 DEF InstallationInv, InstallationTypeOK
<1>4. TokenOK'
    BY <1>1, <1>2 DEF InstallationInv, TokenOK, Running
<1>5. NotedOK'
    BY <1>1, <1>2 DEF InstallationInv, NotedOK, References
<1>6. AloneOK' /\ ProgressOK'
    <2>1. /\ AloneOK'
          /\ \A d \in Callers : d # c => Progress(d)'
        BY <1>1, <1>2, StepOfOne DEF Idle
    <2> QED
        BY <1>1, <2>1 DEF ProgressOK, Progress
<1>7. RepeatRepairs'
    BY <1>1 DEF RepeatRepairs, Idle
<1> QED
    BY <1>3, <1>4, <1>5, <1>6, <1>7 DEF InstallationInv

\* What grant_callback does after the pool has been created.
LEMMA PoolReadyOK ==
    ASSUME InstallationInv, NEW c \in Callers, PoolReady(c)
    PROVE  InstallationInv'
<1>1. caller \in [Callers -> CallerRecords] /\ Goes(c, "gate")
    BY DEF PoolReady, InstallationInv, InstallationTypeOK
<1>2. /\ caller' \in [Callers -> CallerRecords]
      /\ caller'[c].pc = "gate"
      /\ caller'[c].alone = caller[c].alone
      /\ \A d \in Callers : d # c => caller'[d] = caller[d]
    BY <1>1, GoesEffect
<1>3. /\ UNCHANGED <<pool, bound, authToken, version, controller, adminUi, unnoted, settled>>
      /\ caller[c].pc = "pool_ready"
    BY <1>1 DEF PoolReady, Goes
<1>4. /\ installState' \in [pool_ready : BOOLEAN, noted : SUBSET References]
      /\ installState'.noted = installState.noted
    BY DEF PoolReady, InstallationInv, InstallationTypeOK
<1>5. InstallationTypeOK'
    BY <1>2, <1>3, <1>4 DEF InstallationInv, InstallationTypeOK
<1>6. TokenOK' /\ NotedOK'
    BY <1>2, <1>3, <1>4 DEF InstallationInv, TokenOK, NotedOK, Running
<1>7. AloneOK' /\ ProgressOK'
    <2>1. AloneOK' /\ \A d \in Callers : d # c => Progress(d)'
        BY <1>2, <1>3, StepOfOne DEF Idle
    <2> QED
        BY <1>2, <2>1 DEF ProgressOK, Progress
<1>8. RepeatRepairs'
    BY <1>2 DEF RepeatRepairs, Idle
<1> QED
    BY <1>5, <1>6, <1>7, <1>8 DEF InstallationInv

\* maybe_start_services: while something is missing nothing is promised.
LEMMA GateOK ==
    ASSUME InstallationInv, NEW c \in Callers, Gate(c)
    PROVE  InstallationInv'
<1>1. /\ UNCHANGED <<pool, bound, installState, authToken, version, controller, adminUi, unnoted>>
      /\ caller[c].pc = "gate"
    BY DEF Gate
<1>2. controller \in Services /\ adminUi \in Services
          /\ caller \in [Callers -> CallerRecords]
    BY DEF InstallationInv, InstallationTypeOK
<1>3. /\ Running(controller)' => controller'.token = authToken
      /\ Running(adminUi)' => adminUi'.token = authToken
    BY <1>1 DEF InstallationInv, TokenOK, Running
<1>4. CASE Ready
    <2>1. Goes(c, "controller")
        BY <1>4 DEF Gate
    <2>2. /\ caller' \in [Callers -> CallerRecords]
          /\ caller'[c].pc = "controller"
          /\ caller'[c].alone = caller[c].alone
          /\ \A d \in Callers : d # c => caller'[d] = caller[d]
        BY <1>2, <2>1, GoesEffect
    <2>3. settled' = settled /\ Progress(c)'
        BY <2>1, <2>2 DEF Goes, Progress
    <2> QED
        BY <1>1, <1>2, <1>3, <2>2, <2>3, OnwardKeeps DEF Idle
<1>5. CASE ~Ready
    <2>1. End(c, TRUE)
        BY <1>5 DEF Gate
    <2> QED
        BY <1>1, <1>2, <1>3, <1>5, <2>1, EndKeeps DEF Idle
<1> QED
    BY <1>4, <1>5

\* The Controller's specification has the slots that are noted.
LEMMA BuildOK ==
    ASSUME InstallationInv, NEW c \in Callers, BuildController(c) \/ BuildAdminUi(c)
    PROVE  InstallationInv'
<1>1. /\ controller \in Services /\ adminUi \in Services
      /\ caller \in [Callers -> CallerRecords]
      /\ authToken \in 1..MaxVersion /\ version \in 1..MaxVersion
    BY DEF InstallationInv, InstallationTypeOK
<1>2. ASSUME NEW slots \in SUBSET Slots PROVE ServiceSpec(slots) \in Services
    BY <1>1, InstallationAssumption DEF ServiceSpec, Services
<1>3. ServiceSpec({}).token = authToken
          /\ ServiceSpec(installState.noted \cap Slots).token = authToken
    BY DEF ServiceSpec
<1>4. /\ UNCHANGED <<pool, bound, installState, authToken, version, controller, adminUi,
                     unnoted, settled>>
      /\ caller[c].pc \in {"controller", "admin_ui"}
    BY DEF BuildController, BuildAdminUi, Builds
<1>5. /\ Running(controller)' => controller'.token = authToken
      /\ Running(adminUi)' => adminUi'.token = authToken
    BY <1>4 DEF InstallationInv, TokenOK, Running
<1>6. CASE BuildController(c)
    <2> DEFINE spec == ServiceSpec(installState.noted \cap Slots)
    <2>1. Builds(c, spec, "create_controller") /\ spec \in Services
        BY <1>2, <1>6 DEF BuildController
    <2> HIDE DEF spec
    <2>2. /\ caller' \in [Callers -> CallerRecords]
          /\ caller'[c].pc = "create_controller"
          /\ caller'[c].alone = caller[c].alone
          /\ caller'[c].spec = spec
          /\ \A d \in Callers : d # c => caller'[d] = caller[d]
        BY <1>1, <2>1, BuildsEffect DEF ServiceSteps
    <2>3. spec = ServiceSpec(NotedSlots)'
        BY <1>4 DEF spec, ServiceSpec, NotedSlots
    <2>4. Progress(c)'
        BY <2>2, <2>3 DEF Progress
    <2>5. caller'[c].spec.token = authToken
        BY <1>3, <2>2 DEF spec
    <2> QED
        BY <1>1, <1>4, <1>5, <2>2, <2>4, <2>5, OnwardKeeps DEF Idle
<1>7. CASE BuildAdminUi(c)
    <2> DEFINE spec == ServiceSpec({})
    <2>1. Builds(c, spec, "create_ui") /\ spec \in Services
        BY <1>2, <1>7 DEF BuildAdminUi
    <2>2. spec = ServiceSpec({})'
        BY <1>4 DEF ServiceSpec
    <2>3. spec.token = authToken
        BY <1>3
    <2> HIDE DEF spec
    <2>4. /\ caller' \in [Callers -> CallerRecords]
          /\ caller'[c].pc = "create_ui"
          /\ caller'[c].alone = caller[c].alone
          /\ caller'[c].spec = spec
          /\ \A d \in Callers : d # c => caller'[d] = caller[d]
        BY <1>1, <2>1, BuildsEffect DEF ServiceSteps
    <2>5. caller[c].alone => Repaired
        BY <1>7 DEF BuildAdminUi, InstallationInv, ProgressOK, Progress
    <2>6. Repaired => Repaired'
        BY <1>4 DEF Repaired, Respecified, NotedSlots, BoundSlots
    <2>7. Progress(c)'
        BY <2>2, <2>4, <2>5, <2>6 DEF Progress
    <2> QED
        BY <1>1, <1>4, <1>5, <2>3, <2>4, <2>7, OnwardKeeps DEF Idle
<1> QED
    BY <1>6, <1>7

-----------------------------------------------------------------------------
\* The statements about the Controller's service.
LEMMA ControllerServiceOK ==
    ASSUME InstallationInv, NEW c \in Callers,
           CreateController(c) \/ RespecController(c) \/ SetEgress(c)
    PROVE  InstallationInv'
<1>1. /\ controller \in Services /\ adminUi \in Services
      /\ caller \in [Callers -> CallerRecords]
      /\ caller[c].spec \in Services
      /\ bound["pg_secret"] \in Objects \cup {Unbound}
      /\ bound["pg_eai"] \in Objects \cup {Unbound}
    BY DEF InstallationInv, InstallationTypeOK, CallerRecords, References, Required
<1>2. /\ Running(controller) => controller.token = authToken
      /\ Running(adminUi) => adminUi.token = authToken
      /\ Progress(c)
    BY DEF InstallationInv, TokenOK, ProgressOK
<1>3. ASSUME NEW pc \in ServiceSteps \cup {"admin_ui"}, Goes(c, pc)
      PROVE  /\ caller' \in [Callers -> CallerRecords]
             /\ caller'[c].pc = pc
             /\ caller'[c].alone = caller[c].alone
             /\ caller'[c].spec = caller[c].spec
             /\ \A d \in Callers : d # c => caller'[d] = caller[d]
             /\ settled' = settled
    <2>1. settled' = settled
        BY <1>3 DEF Goes
    <2> QED
        BY <1>1, <1>3, <2>1, GoesEffect
<1>4. CASE CreateController(c)
    <2>1. /\ UNCHANGED <<pool, bound, installState, authToken, version, adminUi, unnoted>>
          /\ caller[c].pc = "create_controller"
          /\ Goes(c, "respec_controller")
        BY <1>4 DEF CreateController
    <2>2. /\ caller' \in [Callers -> CallerRecords]
          /\ caller'[c].pc = "respec_controller"
          /\ caller'[c].alone = caller[c].alone
          /\ caller'[c].spec = caller[c].spec
          /\ \A d \in Callers : d # c => caller'[d] = caller[d]
          /\ settled' = settled
        BY <1>3, <2>1 DEF ServiceSteps
    <2>3. caller[c].spec.token = authToken
        BY <2>1 DEF InstallationInv, TokenOK
    <2>4. controller' \in Services /\ (controller' = controller \/ controller'.token = authToken)
        <3>1. CASE UNCHANGED controller
            BY <1>1, <3>1
        <3>2. CASE controller' = [caller[c].spec EXCEPT !.secret = bound["pg_secret"],
                                                       !.egress = bound["pg_eai"]]
            BY <1>1, <2>3, <3>2 DEF Services
        <3> QED
            BY <1>4, <3>1, <3>2 DEF CreateController
    <2>5. Progress(c)'
        BY <1>2, <2>1, <2>2 DEF Progress, ServiceSpec, NotedSlots
    <2>6. adminUi' \in Services /\ (Running(adminUi)' => adminUi'.token = authToken)
        BY <1>1, <1>2, <2>1 DEF Running, NoService
    <2> QED
        BY <2>1, <2>2, <2>3, <2>4, <2>5, <2>6, OnwardKeeps DEF Idle
<1>5. CASE RespecController(c)
    <2>1. /\ UNCHANGED <<pool, bound, installState, authToken, version, adminUi, unnoted>>
          /\ caller[c].pc = "respec_controller"
          /\ caller' = [caller EXCEPT ![c].pc = "egress", ![c].spec = NoService]
          /\ Resolvable(c) /\ UNCHANGED settled
          /\ controller' = [caller[c].spec EXCEPT !.secret = bound["pg_secret"],
                                                 !.egress = controller.egress]
        BY <1>5 DEF RespecController
    <2>2. /\ caller' \in [Callers -> CallerRecords]
          /\ caller'[c].pc = "egress"
          /\ caller'[c].alone = caller[c].alone
          /\ \A d \in Callers : d # c => caller'[d] = caller[d]
          /\ settled' = settled
        BY <1>1, <2>1, NoServiceType DEF CallerRecords, ServiceSteps
    <2>3. caller[c].spec.token = authToken
        BY <2>1 DEF InstallationInv, TokenOK
    <2>4. /\ controller' \in Services
          /\ controller'.image = caller[c].spec.image
          /\ controller'.token = caller[c].spec.token
          /\ controller'.slots = caller[c].spec.slots
          /\ controller'.secret = bound["pg_secret"]
        BY <1>1, <2>1 DEF Services
    <2>5. Progress(c)'
        <3>1. caller[c].alone => caller[c].spec = ServiceSpec(NotedSlots)
            BY <1>2, <2>1 DEF Progress
        <3>2. caller[c].spec.slots \cap Slots \subseteq BoundSlots
            BY <2>1 DEF Resolvable, BoundSlots
        <3>3. caller[c].alone => Respecified'
            BY <2>1, <2>4, <3>1, <3>2 DEF Respecified, ServiceSpec, NotedSlots, BoundSlots
        <3> QED
            BY <2>2, <3>3 DEF Progress
    <2>6. adminUi' \in Services /\ (Running(adminUi)' => adminUi'.token = authToken)
        BY <1>1, <1>2, <2>1 DEF Running, NoService
    <2> QED
        BY <2>1, <2>2, <2>3, <2>4, <2>5, <2>6, OnwardKeeps DEF Idle
<1>6. CASE SetEgress(c)
    <2>1. /\ UNCHANGED <<pool, bound, installState, authToken, version, adminUi, unnoted>>
          /\ caller[c].pc = "egress"
          /\ Goes(c, "admin_ui")
          /\ controller' = [controller EXCEPT !.egress = bound["pg_eai"]]
        BY <1>6 DEF SetEgress
    <2>2. /\ caller' \in [Callers -> CallerRecords]
          /\ caller'[c].pc = "admin_ui"
          /\ caller'[c].alone = caller[c].alone
          /\ \A d \in Callers : d # c => caller'[d] = caller[d]
          /\ settled' = settled
        BY <1>3, <2>1
    <2>3. /\ controller' \in Services
          /\ controller'.image = controller.image
          /\ controller'.token = controller.token
          /\ controller'.slots = controller.slots
          /\ controller'.secret = controller.secret
          /\ controller'.egress = bound["pg_eai"]
        BY <1>1, <2>1 DEF Services
    <2>4. Progress(c)'
        <3>1. caller[c].alone => Respecified
            BY <1>2, <2>1 DEF Progress
        <3>2. caller[c].alone => Repaired'
            BY <2>1, <2>3, <3>1 DEF Repaired, Respecified, NotedSlots, BoundSlots
        <3> QED
            BY <2>2, <3>2 DEF Progress
    <2>5. controller'.token = authToken
        BY <2>1, <2>3 DEF InstallationInv, TokenOK
    <2>6. adminUi' \in Services /\ (Running(adminUi)' => adminUi'.token = authToken)
        BY <1>1, <1>2, <2>1 DEF Running, NoService
    <2> QED
        BY <1>2, <2>1, <2>2, <2>3, <2>4, <2>5, <2>6, OnwardKeeps DEF Idle
<1> QED
    BY <1>4, <1>5, <1>6

-----------------------------------------------------------------------------
\* The statements about the Admin UI's service, and the ends of calls.
LEMMA AdminServiceOK ==
    ASSUME InstallationInv, NEW c \in Callers,
           CreateAdminUi(c) \/ RespecAdminUi(c) \/ StatementFails(c)
    PROVE  InstallationInv'
<1>1. /\ controller \in Services /\ adminUi \in Services
      /\ caller \in [Callers -> CallerRecords]
      /\ caller[c].spec \in Services
    BY DEF InstallationInv, InstallationTypeOK, CallerRecords
<1>2. /\ Running(controller) => controller.token = authToken
      /\ Running(adminUi) => adminUi.token = authToken
      /\ Progress(c)
    BY DEF InstallationInv, TokenOK, ProgressOK
<1>3. CASE CreateAdminUi(c)
    <2>1. /\ UNCHANGED <<pool, bound, installState, authToken, version, controller, unnoted>>
          /\ caller[c].pc = "create_ui"
          /\ Goes(c, "respec_ui")
          /\ adminUi' = IF Running(adminUi) THEN adminUi ELSE caller[c].spec
        BY <1>3 DEF CreateAdminUi
    <2>2. /\ caller' \in [Callers -> CallerRecords]
          /\ caller'[c].pc = "respec_ui"
          /\ caller'[c].alone = caller[c].alone
          /\ caller'[c].spec = caller[c].spec
          /\ \A d \in Callers : d # c => caller'[d] = caller[d]
        BY <1>1, <2>1, GoesEffect DEF ServiceSteps
    <2>3. caller[c].spec.token = authToken
        BY <2>1 DEF InstallationInv, TokenOK
    <2>4. adminUi' \in Services /\ (Running(adminUi)' => adminUi'.token = authToken)
        BY <1>1, <1>2, <2>1, <2>3
    <2>5. Progress(c)'
        BY <1>2, <2>1, <2>2 DEF Progress, ServiceSpec, Repaired, Respecified, NotedSlots, BoundSlots
    <2>6. settled' = settled
        BY <2>1 DEF Goes
    <2> QED
        BY <1>1, <2>1, <2>2, <2>3, <2>4, <2>5, <2>6, OnwardKeeps DEF Idle
<1>4. CASE RespecAdminUi(c)
    <2>1. /\ UNCHANGED <<pool, bound, installState, authToken, version, controller, unnoted>>
          /\ caller[c].pc = "respec_ui"
          /\ End(c, TRUE)
          /\ adminUi' = caller[c].spec
        BY <1>4 DEF RespecAdminUi
    <2>2. adminUi' \in Services /\ adminUi'.token = authToken
        BY <1>1, <2>1 DEF InstallationInv, TokenOK
    <2>3. caller[c].alone => Repaired /\ adminUi' = ServiceSpec({})
        BY <1>2, <2>1 DEF Progress
    <2> QED
        BY <2>1, <2>2, <2>3, EndKeeps DEF Idle
<1>5. CASE StatementFails(c)
    <2>1. /\ UNCHANGED <<pool, bound, installState, authToken, version, controller, adminUi,
                         unnoted>>
          /\ ~Idle(c)
          /\ End(c, FALSE)
        BY <1>5 DEF StatementFails
    <2>2. Running(adminUi)' => adminUi'.token = authToken
        BY <1>2, <2>1 DEF Running
    <2> QED
        BY <1>1, <2>1, <2>2, EndKeeps
<1> QED
    BY <1>3, <1>4, <1>5

-----------------------------------------------------------------------------
LEMMA InstallationStepOK ==
    InstallationInv /\ [InstallationNext]_installationVars => InstallationInv'
<1> SUFFICES ASSUME InstallationInv, [InstallationNext]_installationVars
             PROVE  InstallationInv'
    OBVIOUS
<1>1. ASSUME NEW c \in Callers, CallerStep(c) PROVE InstallationInv'
    BY <1>1, BeginningOK, PoolReadyOK, NoteOK, GateOK, BuildOK, ControllerServiceOK, AdminServiceOK
    DEF CallerStep
<1>2. CASE UNCHANGED installationVars
    <2>1. UNCHANGED <<pool, bound, installState, authToken, version, controller, adminUi,
                      caller, unnoted, settled>>
        BY <1>2 DEF installationVars
    <2>2. InstallationTypeOK'
        BY <2>1 DEF InstallationInv, InstallationTypeOK
    <2>3. TokenOK' /\ NotedOK' /\ AloneOK'
        BY <2>1 DEF InstallationInv, TokenOK, NotedOK, AloneOK, Idle, Running
    <2>4. ProgressOK'
        BY <2>1
        DEF InstallationInv, ProgressOK, Progress, Repaired, Respecified, NotedSlots, BoundSlots,
            ServiceSpec
    <2>5. RepeatRepairs'
        BY <2>1 DEF InstallationInv, RepeatRepairs, Ready, Idle, ServiceSpec, BoundSlots
    <2> QED
        BY <2>2, <2>3, <2>4, <2>5 DEF InstallationInv
<1> QED
    BY <1>1, <1>2 DEF InstallationNext

LEMMA InstallationInvariant == InstallationSpec => []InstallationInv
BY InstallationInitOK, InstallationStepOK, PTL DEF InstallationSpec

\* The variables stay in their types, whoever calls which procedure.
THEOREM InstallationTypeCorrect == InstallationSpec => []InstallationTypeOK
<1>1. InstallationInv => InstallationTypeOK
    BY DEF InstallationInv
<1> QED
    BY <1>1, InstallationInvariant, PTL

\* setup_script.sql, "a repeat call is safe, not a no-op": one call of a callback
\* or of maybe_start_services that succeeds on its own brings both services to
\* the installed version, the bound secret and integration and the slots that
\* install_state notes, whatever failed, overlapped or was unbound before it.
\* These are the bound slots but for those whose UPDATE of install_state failed.
THEOREM RepeatAlwaysRepairs == InstallationSpec => []RepeatRepairs
<1>1. InstallationInv => RepeatRepairs
    BY DEF InstallationInv
<1> QED
    BY <1>1, InstallationInvariant, PTL

\* The Controller and the Admin UI carry the same internal token at all times,
\* also when an upgrade has restarted only one of them.
THEOREM TokensAlwaysAgree == InstallationSpec => []TokensAgree
<1>1. InstallationInv => TokensAgree
    BY DEF InstallationInv, TokenOK, TokensAgree
<1> QED
    BY <1>1, InstallationInvariant, PTL
=============================================================================
