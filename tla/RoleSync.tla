------------------------------ MODULE RoleSync ------------------------------
(***************************************************************************)
(* The userroles of one end-user of a Mendix app, as HeaderSSOHandler.java *)
(* keeps them in step with the user's Snowflake roles.  Every login of the *)
(* user is a request thread: it finds or creates the user, synchronises    *)
(* the userroles when a mapping allows it, and only then starts a session. *)
(* A login whose caller token authenticates as somebody else is answered   *)
(* before anything is read, and is left out.                               *)
(*                                                                         *)
(* The Snowflake roles, the mapping and the administrator of the app change*)
(* under the logins; a new mapping arrives with a new container, which ends*)
(* the logins of the old one.  The user's object is external (the Mendix   *)
(* runtime): a commit writes each reference set the handler has replaced,  *)
(* as a whole, and leaves the other one alone.                             *)
(***************************************************************************)
EXTENDS FiniteSets

CONSTANTS
    Logins,       \* request threads
    SfRoles,      \* Snowflake account roles
    UserRoles,    \* names of Mendix userroles, declared by the app or not
    Declared,     \* the userroles the app declares
    Default,      \* DEFAULT_USER_ROLE
    Mappings,     \* the role mappings operators set: sets of role pairs
    AdminEdits    \* does the app's administrator edit the user's roles

ASSUME RolesAssumption ==
    /\ Declared \subseteq UserRoles
    /\ Default \in UserRoles
    /\ Mappings \subseteq SUBSET (SfRoles \X UserRoles)
    /\ {} \in Mappings
    /\ AdminEdits \in BOOLEAN

VARIABLES
    user,       \* the user's object in the app's database
    mapping,    \* MX_ROLE_MAPPING of the running container, or {}
    available,  \* the Snowflake roles the user holds
    manual,     \* every role an administrator has given the user
    login       \* the logins under way

vars == <<user, mapping, available, manual, login>>

\* The userroles some mapping may have given the user.
Targets == {pair[2] : pair \in UNION Mappings}

NoUser == [exists |-> FALSE, sso |-> FALSE, roles |-> {}, synced |-> {}]

\* before: the roles held when the login found the user.
\* disturbed: somebody else has written the user since; deleted: another
\* login has deleted the object this one found.
NoLogin == [pc |-> "idle", token |-> FALSE, target |-> {}, current |-> {},
            lastSynced |-> {}, ok |-> FALSE, before |-> {}, disturbed |-> FALSE,
            deleted |-> FALSE]

Users == [exists : BOOLEAN, sso : BOOLEAN, roles : SUBSET UserRoles,
          synced : SUBSET UserRoles]

LoginStates ==
    [pc : {"idle", "lookup", "plain", "provision", "sync", "apply", "commit",
           "session"},
     token : BOOLEAN, target : SUBSET UserRoles, current : SUBSET UserRoles,
     lastSynced : SUBSET UserRoles, ok : BOOLEAN, before : SUBSET UserRoles,
     disturbed : BOOLEAN, deleted : BOOLEAN]

TypeOK ==
    /\ user \in Users
    /\ mapping \in Mappings
    /\ available \in SUBSET SfRoles
    /\ manual \in SUBSET UserRoles
    /\ login \in [Logins -> LoginStates]

Init ==
    /\ user = NoUser
    /\ mapping \in Mappings
    /\ available \in SUBSET SfRoles
    /\ manual = {}
    /\ login = [l \in Logins |-> NoLogin]

\* Thread l goes on with record next.
Becomes(l, next) == login' = [login EXCEPT ![l] = next]

\* It has also written the user, which disturbs the others.
Disturbing(l, next) ==
    login' = [m \in Logins |->
                 IF m = l THEN next ELSE [login[m] EXCEPT !.disturbed = TRUE]]

-----------------------------------------------------------------------------
(* Finding or creating the user.                                           *)

Request(l) ==
    /\ login[l].pc = "idle"
    /\ \E token \in BOOLEAN :
           Becomes(l, [NoLogin EXCEPT !.pc = "lookup", !.token = token])
    /\ UNCHANGED <<user, mapping, available, manual>>

Lookup(l) ==
    /\ login[l].pc = "lookup"
    /\ Becomes(l, [login[l] EXCEPT
           !.pc = IF ~user.exists THEN "provision"
                  ELSE IF user.sso THEN "sync" ELSE "plain",
           !.before = IF user.sso THEN user.roles ELSE {},
           !.disturbed = FALSE,
           !.deleted = FALSE])
    /\ UNCHANGED <<user, mapping, available, manual>>

\* A user that is no SnowflakeUser is deleted, to be created anew.
DeletePlainUser(l) ==
    /\ login[l].pc = "plain"
    /\ user' = NoUser
    /\ login' = [m \in Logins |->
                    IF m = l THEN [login[l] EXCEPT !.pc = "provision"]
                    ELSE [login[m] EXCEPT !.disturbed = TRUE, !.deleted = TRUE]]
    /\ UNCHANGED <<mapping, available, manual>>

\* The name of a user is unique: of two logins that both found none, the
\* second fails.
ProvisionUser(l) ==
    /\ login[l].pc = "provision"
    /\ ~user.exists
    /\ user' = [exists |-> TRUE, sso |-> TRUE,
                roles |-> {Default} \cap Declared, synced |-> {}]
    /\ Disturbing(l, [login[l] EXCEPT !.pc = "sync", !.deleted = FALSE])
    /\ UNCHANGED <<mapping, available, manual>>

-----------------------------------------------------------------------------
(* syncUserRoles.                                                          *)

\* Mutant: the keys of the mapping instead of its values.
MappedKeys == {pair[1] : pair \in {p \in mapping : p[1] \in available}}

Mapped == {pair[2] : pair \in {p \in mapping : p[1] \in available}}

\* The roles the user should have: with no mapping, or when the mapping
\* yields none, the default.  Without a token, or when Snowflake cannot be
\* asked, the login goes on with the roles the user has.
ChooseTarget(l) ==
    /\ login[l].pc = "sync"
    /\ \/ /\ mapping = {}
          /\ Becomes(l, [login[l] EXCEPT !.pc = "apply", !.target = {Default}])
       \/ /\ mapping # {}
          /\ login[l].token
          /\ Becomes(l, [login[l] EXCEPT !.pc = "apply",
                 !.target = IF Mapped = {} THEN {Default} ELSE Mapped])
       \/ /\ mapping # {}
          /\ Becomes(l, [login[l] EXCEPT !.pc = "session"])
    /\ UNCHANGED <<user, mapping, available, manual>>

\* Target roles the app no longer declares are skipped.
ReadRoles(l) ==
    /\ login[l].pc = "apply"
    /\ Becomes(l, [login[l] EXCEPT !.pc = "commit",
                                   !.target = login[l].target \cap Declared,
                                   !.current = user.roles,
                                   !.lastSynced = user.synced])
    /\ UNCHANGED <<user, mapping, available, manual>>

\* Mutant: what an earlier synchronisation gave is forgotten.
ManagedForgetful(l) == {pair[2] : pair \in mapping} \cup {Default}

\* Mutant: the default is not taken back.
ManagedButDefault(l) ==
    {pair[2] : pair \in mapping} \cup login[l].lastSynced

\* What a synchronisation decides about; it leaves other roles alone.
Managed(l) ==
    {pair[2] : pair \in mapping} \cup login[l].lastSynced \cup {Default}

\* Mutant: the target replaces every role.
NewRolesOnlyTarget(l) == login[l].target

NewRoles(l) == (login[l].current \ Managed(l)) \cup login[l].target

\* A set that has not changed is not written.
CommitRoles(l) ==
    /\ login[l].pc = "commit"
    /\ ~login[l].deleted
    /\ user' = [user EXCEPT
           !.roles = IF NewRoles(l) # login[l].current THEN NewRoles(l) ELSE @,
           !.synced = IF login[l].target # login[l].lastSynced
                      THEN login[l].target ELSE @]
    /\ Disturbing(l, [login[l] EXCEPT !.pc = "session", !.ok = TRUE])
    /\ UNCHANGED <<mapping, available, manual>>

\* A synchronisation the database refuses does not stop the login.
CommitFails(l) ==
    /\ login[l].pc \in {"apply", "commit"}
    /\ Becomes(l, [login[l] EXCEPT !.pc = "session"])
    /\ UNCHANGED <<user, mapping, available, manual>>

\* The session keeps the roles the user has at this moment.
InitializeSession(l) ==
    /\ login[l].pc = "session"
    /\ Becomes(l, NoLogin)
    /\ UNCHANGED <<user, mapping, available, manual>>

\* Any other failure, one to start the session included, ends the login.
LoginFails(l) ==
    /\ login[l].pc # "idle"
    /\ Becomes(l, NoLogin)
    /\ UNCHANGED <<user, mapping, available, manual>>

LoginStep(l) ==
    \/ Request(l) \/ Lookup(l) \/ DeletePlainUser(l) \/ ProvisionUser(l)
    \/ ChooseTarget(l) \/ ReadRoles(l) \/ CommitRoles(l) \/ CommitFails(l)
    \/ InitializeSession(l) \/ LoginFails(l)

-----------------------------------------------------------------------------
(* The surroundings.                                                       *)

ChangeGrants ==
    /\ available' \in SUBSET SfRoles
    /\ UNCHANGED <<user, mapping, manual, login>>

\* The app's administrator creates the user before its first login.
CreatePlainUser ==
    /\ AdminEdits
    /\ ~user.exists
    /\ \E roles \in SUBSET Declared :
           /\ user' = [exists |-> TRUE, sso |-> FALSE, roles |-> roles, synced |-> {}]
           /\ manual' = manual \cup roles
    /\ login' = [l \in Logins |-> [login[l] EXCEPT !.disturbed = TRUE]]
    /\ UNCHANGED <<mapping, available>>

EditRoles ==
    /\ AdminEdits
    /\ user.exists
    /\ \E roles \in SUBSET Declared :
           /\ user' = [user EXCEPT !.roles = roles]
           /\ manual' = manual \cup (roles \ user.roles)
    /\ login' = [l \in Logins |-> [login[l] EXCEPT !.disturbed = TRUE]]
    /\ UNCHANGED <<mapping, available>>

\* A role mapping is applied by replacing the container.
RestartContainer ==
    /\ mapping' \in Mappings
    /\ login' = [l \in Logins |-> NoLogin]
    /\ UNCHANGED <<user, available, manual>>

Next ==
    \/ \E l \in Logins : LoginStep(l)
    \/ ChangeGrants \/ CreatePlainUser \/ EditRoles \/ RestartContainer

Spec == Init /\ [][Next]_vars

-----------------------------------------------------------------------------
(* Properties.                                                             *)

\* Whatever role the user holds, an administrator gave it, or it is the
\* default, or it is remembered as given by a synchronisation: so a later
\* synchronisation can take it back, even once its mapping has gone.
GrantsRemembered ==
    user.roles \subseteq manual \cup user.synced \cup {Default}

\* A session that follows a synchronisation starts with exactly the roles
\* the user's Snowflake roles mapped to, apart from those an administrator
\* gave, unless somebody else wrote the user during the login.
SessionRoles ==
    \A l \in Logins :
        login[l].pc = "session" /\ login[l].ok /\ ~login[l].disturbed =>
            /\ login[l].target \subseteq user.roles
            /\ user.roles \ manual \subseteq login[l].target

\* A login leaves the roles alone that no mapping has ever named: those the
\* user had when it was found are still there when the session starts,
\* unless somebody else wrote the user during the login.
ManualRolesKept ==
    \A l \in Logins :
        login[l].pc = "session" /\ ~login[l].disturbed =>
            login[l].before \ (Targets \cup {Default}) \subseteq user.roles
=============================================================================
