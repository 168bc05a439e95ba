-------------------------- MODULE RoleSync_proofs --------------------------
(***************************************************************************)
(* Proofs about RoleSync.  ManualRolesKept holds however many logins of    *)
(* one user overlap; GrantsRemembered and SessionRoles need them to come   *)
(* one after the other.                                                    *)
(***************************************************************************)
EXTENDS RoleSync, TLAPS

\* The records the steps of a login leave are typed.
LEMMA TypedLookup ==
    ASSUME NEW s \in LoginStates, NEW before \in SUBSET UserRoles,
           NEW pc \in {"provision", "sync", "plain"}
    PROVE  [s EXCEPT !.pc = pc, !.before = before, !.disturbed = FALSE,
                     !.deleted = FALSE] \in LoginStates
  BY DEF LoginStates

LEMMA TypedTarget ==
    ASSUME NEW s \in LoginStates, NEW target \in SUBSET UserRoles
    PROVE  [s EXCEPT !.pc = "apply", !.target = target] \in LoginStates
  BY DEF LoginStates

LEMMA TypedRead ==
    ASSUME NEW s \in LoginStates, NEW target \in SUBSET UserRoles,
           NEW current \in SUBSET UserRoles, NEW lastSynced \in SUBSET UserRoles
    PROVE  [s EXCEPT !.pc = "commit", !.target = target, !.current = current,
                     !.lastSynced = lastSynced] \in LoginStates
  BY DEF LoginStates

\* A step of one thread leaves typed records.
LEMMA Became ==
    ASSUME login \in [Logins -> LoginStates], NEW l \in Logins,
           NEW next \in LoginStates, Becomes(l, next)
    PROVE  login' \in [Logins -> LoginStates]
  BY DEF Becomes

\* A step of one thread that disturbs the others leaves typed records.
LEMMA Disturbed ==
    ASSUME login \in [Logins -> LoginStates], NEW l \in Logins,
           NEW next \in LoginStates, Disturbing(l, next)
    PROVE  login' \in [Logins -> LoginStates]
<1>1. \A m \in Logins : [login[m] EXCEPT !.disturbed = TRUE] \in LoginStates
  BY DEF LoginStates
<1> QED
  BY <1>1 DEF Disturbing

\* The variables keep their types.
THEOREM TypeCorrect == Spec => []TypeOK
<1>1. Init => TypeOK
  BY RolesAssumption DEF Init, TypeOK, NoUser, NoLogin, Users, LoginStates
<1>2. TypeOK /\ [Next]_vars => TypeOK'
  <2> SUFFICES ASSUME TypeOK, [Next]_vars PROVE TypeOK'
    OBVIOUS
  <2> USE RolesAssumption DEF TypeOK
  <2>1. ASSUME NEW l \in Logins, Request(l) PROVE TypeOK'
    <3>1. PICK token \in BOOLEAN :
            Becomes(l, [NoLogin EXCEPT !.pc = "lookup", !.token = token])
      BY <2>1 DEF Request
    <3>2. [NoLogin EXCEPT !.pc = "lookup", !.token = token] \in LoginStates
      BY DEF NoLogin, LoginStates
    <3>3. login' \in [Logins -> LoginStates]
      BY <3>1, <3>2, Became
    <3> QED BY <2>1, <3>3 DEF Request
  <2>2. ASSUME NEW l \in Logins, Lookup(l) PROVE TypeOK'
    <3> DEFINE pc == IF ~user.exists THEN "provision"
                     ELSE IF user.sso THEN "sync" ELSE "plain"
               before == IF user.sso THEN user.roles ELSE {}
               next == [login[l] EXCEPT !.pc = pc, !.before = before,
                            !.disturbed = FALSE, !.deleted = FALSE]
    <3>1. /\ pc \in {"provision", "sync", "plain"}
          /\ before \in SUBSET UserRoles
      BY DEF Users
    <3>2. Becomes(l, next)
      BY <2>2 DEF Lookup
    <3>3. next \in LoginStates
      BY <3>1, TypedLookup
    <3>4. login' \in [Logins -> LoginStates]
      BY <3>2, <3>3, Became
    <3> QED BY <2>2, <3>4 DEF Lookup
  <2>3. ASSUME NEW l \in Logins, DeletePlainUser(l) PROVE TypeOK'
    <3>1. ASSUME NEW m \in Logins
          PROVE  /\ [login[m] EXCEPT !.pc = "provision"] \in LoginStates
                 /\ [login[m] EXCEPT !.disturbed = TRUE, !.deleted = TRUE]
                       \in LoginStates
      BY DEF LoginStates
    <3>2. NoUser \in Users
      BY DEF NoUser, Users
    <3>3. login' \in [Logins -> LoginStates]
      BY <2>3, <3>1 DEF DeletePlainUser
    <3> QED BY <2>3, <3>2, <3>3 DEF DeletePlainUser
  <2>4. ASSUME NEW l \in Logins, ProvisionUser(l) PROVE TypeOK'
    <3>1. [login[l] EXCEPT !.pc = "sync", !.deleted = FALSE] \in LoginStates
      BY DEF LoginStates
    <3>2. login' \in [Logins -> LoginStates]
      BY <2>4, <3>1, Disturbed DEF ProvisionUser
    <3>3. user' \in Users
      BY <2>4 DEF ProvisionUser, Users
    <3> QED BY <2>4, <3>2, <3>3 DEF ProvisionUser
  <2>5. ASSUME NEW l \in Logins, ChooseTarget(l) PROVE TypeOK'
    <3> DEFINE target == IF Mapped = {} THEN {Default} ELSE Mapped
               Aim(r) == [login[l] EXCEPT !.pc = "apply", !.target = r]
    <3>1. /\ target \in SUBSET UserRoles
          /\ {Default} \in SUBSET UserRoles
      BY DEF Mapped
    <3>2. ASSUME NEW r \in SUBSET UserRoles PROVE Aim(r) \in LoginStates
      BY TypedTarget
    <3>3. [login[l] EXCEPT !.pc = "session"] \in LoginStates
      BY DEF LoginStates
    <3>4. \/ Becomes(l, Aim({Default}))
          \/ Becomes(l, Aim(target))
          \/ Becomes(l, [login[l] EXCEPT !.pc = "session"])
      BY <2>5  DEF ChooseTarget
    <3>5. login' \in [Logins -> LoginStates]
      BY <3>1, <3>2, <3>3, <3>4, Became
    <3> QED BY <2>5, <3>5 DEF ChooseTarget
  <2>6. ASSUME NEW l \in Logins, ReadRoles(l) PROVE TypeOK'
    <3> DEFINE target == login[l].target \cap Declared
               next == [login[l] EXCEPT !.pc = "commit", !.target = target,
                            !.current = user.roles, !.lastSynced = user.synced]
    <3>1. /\ target \in SUBSET UserRoles
          /\ user.roles \in SUBSET UserRoles
          /\ user.synced \in SUBSET UserRoles
      BY DEF Users, LoginStates
    <3>2. Becomes(l, next)
      BY <2>6  DEF ReadRoles
    <3>3. next \in LoginStates
      BY <3>1, TypedRead
    <3>4. login' \in [Logins -> LoginStates]
      BY <3>2, <3>3, Became
    <3> QED BY <2>6, <3>4 DEF ReadRoles
  <2>7. ASSUME NEW l \in Logins, CommitRoles(l) PROVE TypeOK'
    <3>1. NewRoles(l) \in SUBSET UserRoles
      BY DEF NewRoles, LoginStates
    <3>2. user' \in Users
      BY <2>7, <3>1 DEF CommitRoles, Users, LoginStates
    <3>3. [login[l] EXCEPT !.pc = "session", !.ok = TRUE] \in LoginStates
      BY DEF LoginStates
    <3>4. login' \in [Logins -> LoginStates]
      BY <2>7, <3>3, Disturbed DEF CommitRoles
    <3> QED BY <2>7, <3>2, <3>4 DEF CommitRoles
  <2>8. ASSUME NEW l \in Logins, CommitFails(l) PROVE TypeOK'
    <3>1. [login[l] EXCEPT !.pc = "session"] \in LoginStates
      BY DEF LoginStates
    <3> QED BY <2>8, <3>1, Became DEF CommitFails
  <2>9. ASSUME NEW l \in Logins, InitializeSession(l) \/ LoginFails(l)
        PROVE TypeOK'
    <3>1. NoLogin \in LoginStates
      BY DEF NoLogin, LoginStates
    <3> QED BY <2>9, <3>1, Became DEF InitializeSession, LoginFails
  <2>10. ASSUME ChangeGrants PROVE TypeOK'
    BY <2>10 DEF ChangeGrants
  <2>11. ASSUME CreatePlainUser PROVE TypeOK'
    <3>1. \A l \in Logins : [login[l] EXCEPT !.disturbed = TRUE] \in LoginStates
      BY DEF LoginStates
    <3> QED BY <2>11, <3>1 DEF CreatePlainUser, Users
  <2>12. ASSUME EditRoles PROVE TypeOK'
    <3>1. \A l \in Logins : [login[l] EXCEPT !.disturbed = TRUE] \in LoginStates
      BY DEF LoginStates
    <3> QED BY <2>12, <3>1 DEF EditRoles, Users
  <2>13. ASSUME RestartContainer PROVE TypeOK'
    BY <2>13 DEF RestartContainer, NoLogin, LoginStates
  <2>14. CASE UNCHANGED vars
    BY <2>14 DEF vars
  <2> QED
    BY <2>1, <2>2, <2>3, <2>4, <2>5, <2>6, <2>7, <2>8, <2>9, <2>10, <2>11,
       <2>12, <2>13, <2>14 DEF Next, LoginStep
<1> QED
  BY <1>1, <1>2, PTL DEF Spec

\* What choosing a target changes.
LEMMA TargetChosen ==
    ASSUME TypeOK, NEW l \in Logins, ChooseTarget(l)
    PROVE  /\ login[l].pc = "sync"
           /\ login'[l].pc \in {"apply", "session"}
           /\ login'[l].target \in {login[l].target, {Default}, Mapped}
           /\ login'[l].lastSynced = login[l].lastSynced
           /\ login'[l].before = login[l].before
           /\ login'[l].disturbed = login[l].disturbed
           /\ login'[l].ok = login[l].ok
           /\ \A m \in Logins : m # l => login'[m] = login[m]
           /\ UNCHANGED <<user, mapping, available, manual>>
<1> DEFINE target == IF Mapped = {} THEN {Default} ELSE Mapped
           Aim(r) == [login[l] EXCEPT !.pc = "apply", !.target = r]
           Skip == [login[l] EXCEPT !.pc = "session"]
<1>1. login \in [Logins -> LoginStates]
  BY DEF TypeOK
<1>2. /\ login[l].pc = "sync"
      /\ UNCHANGED <<user, mapping, available, manual>>
      /\ Becomes(l, Aim({Default})) \/ Becomes(l, Aim(target)) \/ Becomes(l, Skip)
  BY DEF ChooseTarget
<1>3. target \in {{Default}, Mapped}
  OBVIOUS
<1> HIDE DEF target
<1>4. ASSUME NEW r, Becomes(l, Aim(r))
      PROVE  /\ login'[l].pc = "apply"
             /\ login'[l].target = r
             /\ login'[l].lastSynced = login[l].lastSynced
             /\ login'[l].before = login[l].before
             /\ login'[l].disturbed = login[l].disturbed
             /\ login'[l].ok = login[l].ok
             /\ \A m \in Logins : m # l => login'[m] = login[m]
  BY <1>1, <1>4 DEF Becomes, LoginStates
<1>5. CASE Becomes(l, Skip)
  BY <1>1, <1>2, <1>5 DEF Becomes, LoginStates
<1> HIDE DEF Aim, Skip
<1> QED
  BY <1>2, <1>3, <1>4, <1>5

-----------------------------------------------------------------------------
(* Roles no mapping names.                                                 *)

Named == Targets \cup {Default}

\* What the thread l has found and read so far agrees with the user, as long
\* as nobody else has written the user.
Found(l) ==
    /\ login[l].pc \in {"plain", "provision"} => login[l].before = {}
    /\ login[l].target \subseteq Named
    /\ login[l].lastSynced \subseteq Named
    /\ login[l].pc \in {"sync", "apply", "commit", "session"} /\ ~login[l].disturbed
          => login[l].before \ Named \subseteq user.roles
    /\ login[l].pc = "commit" /\ ~login[l].disturbed
          => login[l].current = user.roles

KeptInv ==
    /\ user.sso => user.exists
    /\ user.synced \subseteq Named
    /\ \A l \in Logins : Found(l)

LEMMA MappingNamed ==
    ASSUME mapping \in Mappings
    PROVE  {pair[2] : pair \in mapping} \subseteq Named
  BY DEF Named, Targets

\* A login leaves the roles alone that no mapping ever names, however many
\* logins of the user overlap.
THEOREM ManualRolesAreKept == Spec => []ManualRolesKept
<1>1. Init => KeptInv
  BY DEF Init, KeptInv, Found, NoUser, NoLogin
<1>2. TypeOK /\ KeptInv /\ [Next]_vars => KeptInv'
  <2> SUFFICES ASSUME TypeOK, KeptInv, [Next]_vars PROVE KeptInv'
    OBVIOUS
  <2> USE DEF TypeOK, KeptInv, Found
  <2>1. ASSUME NEW l \in Logins, Request(l) PROVE KeptInv'
    BY <2>1 DEF Request, Becomes, NoLogin
  <2>2. ASSUME NEW l \in Logins, Lookup(l) PROVE KeptInv'
    BY <2>2 DEF Lookup, Becomes, LoginStates
  <2>3. ASSUME NEW l \in Logins, DeletePlainUser(l) PROVE KeptInv'
    <3>1. /\ login'[l].before = {}
          /\ login'[l].pc = "provision"
          /\ login'[l].target = login[l].target
          /\ login'[l].lastSynced = login[l].lastSynced
      BY <2>3 DEF DeletePlainUser, LoginStates
    <3>2. Found(l)'
      BY <3>1
    <3>3. ASSUME NEW m \in Logins, m # l PROVE Found(m)'
      BY <2>3, <3>3 DEF DeletePlainUser, LoginStates
    <3>4. (user.sso => user.exists)' /\ (user.synced \subseteq Named)'
      BY <2>3 DEF DeletePlainUser, NoUser
    <3> QED BY <3>2, <3>3, <3>4
  <2>4. ASSUME NEW l \in Logins, ProvisionUser(l) PROVE KeptInv'
    BY <2>4 DEF ProvisionUser, Disturbing, LoginStates
  <2>5. ASSUME NEW l \in Logins, ChooseTarget(l) PROVE KeptInv'
    <3>1. Mapped \subseteq Named
      BY MappingNamed DEF Mapped
    <3>2. {Default} \subseteq Named
      BY DEF Named
    <3>3. Found(l)'
      BY <2>5, <3>1, <3>2, TargetChosen
    <3> QED BY <2>5, <3>3, TargetChosen
  <2>6. ASSUME NEW l \in Logins, ReadRoles(l) PROVE KeptInv'
    BY <2>6 DEF ReadRoles, Becomes, LoginStates
  <2>7. ASSUME NEW l \in Logins, CommitRoles(l) PROVE KeptInv'
    <3>1. Managed(l) \subseteq Named
      BY MappingNamed DEF Managed, Named
    <3>2. login[l].current \ Named \subseteq NewRoles(l)
      BY <3>1 DEF NewRoles
    <3>3. /\ user'.sso = user.sso /\ user'.exists = user.exists
          /\ user'.synced \in {user.synced, login[l].target}
          /\ user'.roles = IF NewRoles(l) # login[l].current THEN NewRoles(l)
                           ELSE user.roles
      BY <2>7 DEF CommitRoles, Users
    <3>4. Found(l)'
      <4>1. /\ login[l].pc = "commit"
            /\ login'[l].pc = "session"
            /\ login'[l].target = login[l].target
            /\ login'[l].lastSynced = login[l].lastSynced
            /\ login'[l].before = login[l].before
            /\ login'[l].disturbed = login[l].disturbed
        BY <2>7 DEF CommitRoles, Disturbing, LoginStates
      <4>2. ~login[l].disturbed => user'.roles = NewRoles(l)
        BY <3>3, <4>1
      <4>3. ~login[l].disturbed => login[l].before \ Named \subseteq NewRoles(l)
        BY <3>2, <4>1
      <4> QED BY <4>1, <4>2, <4>3
    <3>5. ASSUME NEW m \in Logins, m # l PROVE Found(m)'
      BY <2>7, <3>5 DEF CommitRoles, Disturbing, LoginStates
    <3> QED BY <3>3, <3>4, <3>5
  <2>8. ASSUME NEW l \in Logins, CommitFails(l) PROVE KeptInv'
    BY <2>8 DEF CommitFails, Becomes, LoginStates
  <2>9. ASSUME NEW l \in Logins, InitializeSession(l) \/ LoginFails(l)
        PROVE KeptInv'
    BY <2>9 DEF InitializeSession, LoginFails, Becomes, NoLogin
  <2>10. ASSUME ChangeGrants PROVE KeptInv'
    BY <2>10 DEF ChangeGrants
  <2>11. ASSUME CreatePlainUser PROVE KeptInv'
    <3>1. /\ user'.exists
          /\ user'.synced = {}
      BY <2>11 DEF CreatePlainUser
    <3>2. ASSUME NEW l \in Logins PROVE Found(l)'
      BY <2>11 DEF CreatePlainUser, LoginStates
    <3> QED BY <3>1, <3>2
  <2>12. ASSUME EditRoles PROVE KeptInv'
    BY <2>12 DEF EditRoles, Users, LoginStates
  <2>13. ASSUME RestartContainer PROVE KeptInv'
    BY <2>13 DEF RestartContainer, NoLogin
  <2>14. CASE UNCHANGED vars
    BY <2>14 DEF vars
  <2> QED
    BY <2>1, <2>2, <2>3, <2>4, <2>5, <2>6, <2>7, <2>8, <2>9, <2>10, <2>11,
       <2>12, <2>13, <2>14 DEF Next, LoginStep
<1>3. KeptInv => ManualRolesKept
  BY DEF KeptInv, Found, ManualRolesKept, Named
<1> QED
  BY <1>1, <1>2, <1>3, TypeCorrect, PTL DEF Spec

-----------------------------------------------------------------------------
(* Roles a synchronisation has given.                                      *)

\* The logins of the user come one after the other.
Alone == \A l, m \in Logins : l = m

\* What the thread l has read accounts for the roles it found.
Accounted(l) ==
    /\ login[l].ok => login[l].pc = "session"
    /\ login[l].pc \in {"sync", "apply", "commit"} => user.exists
    /\ login[l].pc = "commit" =>
          /\ login[l].lastSynced = user.synced
          /\ user.roles \subseteq manual \cup login[l].current
          /\ login[l].current \subseteq manual \cup login[l].lastSynced \cup {Default}
          /\ ~login[l].disturbed => login[l].current = user.roles

RememberedInv ==
    /\ GrantsRemembered
    /\ SessionRoles
    /\ \A l \in Logins : Accounted(l)

\* When logins do not overlap, what a login has read accounts for the roles
\* the user holds, at every statement of syncUserRoles.
LEMMA RememberedHolds ==
    ASSUME Alone
    PROVE  Spec => []RememberedInv
<1>1. Init => RememberedInv
  BY DEF Init, RememberedInv, GrantsRemembered, SessionRoles, Accounted,
         NoUser, NoLogin
<1>2. TypeOK /\ RememberedInv /\ [Next]_vars => RememberedInv'
  <2> SUFFICES ASSUME TypeOK, RememberedInv, [Next]_vars PROVE RememberedInv'
    OBVIOUS
  <2> USE Alone DEF Alone, TypeOK, RememberedInv, GrantsRemembered, SessionRoles,
                    Accounted
  <2>1. ASSUME NEW l \in Logins, Request(l) PROVE RememberedInv'
    BY <2>1 DEF Request, Becomes, NoLogin
  <2>2. ASSUME NEW l \in Logins, Lookup(l) PROVE RememberedInv'
    BY <2>2 DEF Lookup, Becomes, LoginStates
  <2>3. ASSUME NEW l \in Logins, DeletePlainUser(l) PROVE RememberedInv'
    <3>1. /\ login[l].pc = "plain"
          /\ login'[l].pc = "provision"
          /\ login'[l].ok = login[l].ok
      BY <2>3 DEF DeletePlainUser, LoginStates
    <3>2. user'.roles = {}
      BY <2>3 DEF DeletePlainUser, NoUser
    <3>3. Accounted(l)' /\ SessionRoles'
      BY <3>1
    <3> QED BY <3>2, <3>3
  <2>4. ASSUME NEW l \in Logins, ProvisionUser(l) PROVE RememberedInv'
    BY <2>4 DEF ProvisionUser, Disturbing, LoginStates
  <2>5. ASSUME NEW l \in Logins, ChooseTarget(l) PROVE RememberedInv'
    BY <2>5, TargetChosen
  <2>6. ASSUME NEW l \in Logins, ReadRoles(l) PROVE RememberedInv'
    BY <2>6 DEF ReadRoles, Becomes, LoginStates
  <2>7. ASSUME NEW l \in Logins, CommitRoles(l) PROVE RememberedInv'
    <3> DEFINE current == login[l].current
               target == login[l].target
    <3>1. current \ Managed(l) \subseteq manual
      BY <2>7 DEF CommitRoles, Managed
    <3>2. /\ NewRoles(l) \subseteq manual \cup target
          /\ target \subseteq NewRoles(l)
      BY <3>1 DEF NewRoles
    <3>3. /\ user'.exists = user.exists
          /\ user'.synced = target
          /\ user'.roles = IF NewRoles(l) # current THEN NewRoles(l) ELSE user.roles
          /\ manual' = manual
          /\ login'[l].target = target
          /\ login'[l].pc = "session"
          /\ login'[l].disturbed = login[l].disturbed
      BY <2>7 DEF CommitRoles, Disturbing, Users, LoginStates
    <3>4. user'.roles \subseteq manual \cup target
      BY <2>7, <3>2, <3>3 DEF CommitRoles
    <3>5. ~login[l].disturbed => user'.roles = NewRoles(l)
      BY <2>7, <3>3 DEF CommitRoles
    <3> QED BY <3>2, <3>3, <3>4, <3>5
  <2>8. ASSUME NEW l \in Logins, CommitFails(l) PROVE RememberedInv'
    BY <2>8 DEF CommitFails, Becomes, LoginStates
  <2>9. ASSUME NEW l \in Logins, InitializeSession(l) \/ LoginFails(l)
        PROVE RememberedInv'
    BY <2>9 DEF InitializeSession, LoginFails, Becomes, NoLogin
  <2>10. ASSUME ChangeGrants PROVE RememberedInv'
    BY <2>10 DEF ChangeGrants
  <2>11. ASSUME CreatePlainUser PROVE RememberedInv'
    BY <2>11 DEF CreatePlainUser, LoginStates
  <2>12. ASSUME EditRoles PROVE RememberedInv'
    BY <2>12 DEF EditRoles, Users, LoginStates
  <2>13. ASSUME RestartContainer PROVE RememberedInv'
    BY <2>13 DEF RestartContainer, NoLogin
  <2>14. CASE UNCHANGED vars
    BY <2>14 DEF vars
  <2> QED
    BY <2>1, <2>2, <2>3, <2>4, <2>5, <2>6, <2>7, <2>8, <2>9, <2>10, <2>11,
       <2>12, <2>13, <2>14 DEF Next, LoginStep
<1> QED
  BY <1>1, <1>2, TypeCorrect, PTL DEF Spec

\* When logins do not overlap, every role the user holds can be taken back
\* unless an administrator gave it.
THEOREM RolesAreAccountedFor ==
    ASSUME Alone
    PROVE  Spec => []GrantsRemembered
<1>1. RememberedInv => GrantsRemembered
  BY DEF RememberedInv
<1> QED
  BY <1>1, RememberedHolds, PTL

\* When logins do not overlap, a session that follows a synchronisation starts
\* with the roles the Snowflake roles mapped to, apart from those an
\* administrator gave.
THEOREM SessionsGetTheirRoles ==
    ASSUME Alone
    PROVE  Spec => []SessionRoles
<1>1. RememberedInv => SessionRoles
  BY DEF RememberedInv
<1> QED
  BY <1>1, RememberedHolds, PTL

=============================================================================
