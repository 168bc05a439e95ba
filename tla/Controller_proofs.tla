-------------------------- MODULE Controller_proofs --------------------------
(***************************************************************************)
(* Theorems about the one Snowflake connection: for any number of threads  *)
(* and of tokens, the lock keeps the connection to one thread at a time,   *)
(* and the single retry hides every rotation of the token.                 *)
(*                                                                         *)
(* Theorems about the identity cache: whatever the number of requests and  *)
(* tokens, and however their queries overlap, the age of what a caller is  *)
(* judged by is bounded.                                                   *)
(*                                                                         *)
(* With the invariants of the Postgres objects and of the installation,    *)
(* they give those of the four parts side by side.                         *)
(***************************************************************************)
EXTENDS MCController, Provisioning_proofs, Installation_proofs, TLAPS

-----------------------------------------------------------------------------
(* The Snowflake connection.                                               *)

\* The lock is held by the thread inside execute_sql's `with _lock`.
LockOK == \A t \in Threads : call[t].pc \in AtLock <=> lock = t

\* What a call has come to on its way, by where it stands.
CallProgress(t) ==
    /\ call[t].expiries <= expired
    /\ call[t].pc \in {"idle", "waiting", "connect", "execute"} => call[t].ran = 0
    /\ call[t].pc \in {"reconnect", "reexecute"} => call[t].ran \in 0..1

CallProgressOK == \A t \in Threads : CallProgress(t)

\* The second attempt has a connection of its own, as new as the file.
SecondChance(t) ==
    /\ call[t].pc = "reconnect" => conn = None
    /\ call[t].pc = "reexecute" =>
           /\ call[t].used \in 1..MaxToken
           /\ call[t].used > expired \/ call[t].expiries > 0
    /\ call[t].pc = "refused" => call[t].expiries > 0

SecondChanceOK == \A t \in Threads : SecondChance(t)

SqlInv == SqlTypeOK /\ LockOK /\ CallProgressOK /\ SecondChanceOK

Calls == [pc : {"idle", "waiting"} \cup AtLock \cup Ended,
          used : {None} \cup 1..MaxToken, ran : 0..2,
          expiries : 0..MaxToken, losses : 0..2]

-----------------------------------------------------------------------------

LEMMA SqlInitOK == SqlInit => SqlInv
BY SqlClientAssumption
DEF SqlInit, SqlInv, SqlTypeOK, LockOK, CallProgressOK, CallProgress, SecondChanceOK,
    SecondChance, NoCall, AtLock, Ended

\* A step of one thread: what the thread's new call must satisfy for the
\* invariant to survive.  The others keep theirs; none of them is at the
\* lock when the thread is, so that the connection is not theirs.
LEMMA StepOfThread ==
    ASSUME SqlInv, NEW t \in Threads, NEW next \in Calls,
           CallBecomes(t, next), UNCHANGED <<token, expired>>,
           conn' \in {None} \cup 1..MaxToken,
           conn' = conn \/ lock = t,
           lock' = (IF next.pc \in AtLock THEN t
                    ELSE IF lock = t THEN None ELSE lock),
           lock \in {None, t} \/ next.pc \notin AtLock,
           next.expiries <= expired,
           next.pc \in {"idle", "waiting", "connect", "execute"} => next.ran = 0,
           next.pc \in {"reconnect", "reexecute"} => next.ran \in 0..1,
           next.pc = "reconnect" => conn' = None,
           next.pc = "reexecute" =>
               /\ next.used \in 1..MaxToken
               /\ next.used > expired \/ next.expiries > 0,
           next.pc = "refused" => next.expiries > 0
    PROVE  SqlInv'
<1>1. call \in [Threads -> Calls]
    BY DEF SqlInv, SqlTypeOK, Calls
<1>2. call' \in [Threads -> Calls]
    BY <1>1 DEF CallBecomes
<1>3. call'[t] = next /\ \A u \in Threads \ {t} : call'[u] = call[u]
    BY <1>1 DEF CallBecomes
<1>4. SqlTypeOK'
    BY <1>2 DEF SqlInv, SqlTypeOK, Calls
<1>5. LockOK'
    <2>1. (call[t].pc \in AtLock <=> lock = t)'
        BY <1>3, SqlClientAssumption DEF SqlInv, LockOK
    <2>2. ASSUME NEW u \in Threads \ {t}
          PROVE  (call[u].pc \in AtLock <=> lock = u)'
        BY <1>3, SqlClientAssumption DEF SqlInv, LockOK
    <2> QED
        BY <2>1, <2>2 DEF LockOK
<1>6. CallProgressOK'
    BY <1>3 DEF SqlInv, CallProgressOK, CallProgress
<1>7. SecondChanceOK'
    <2>1. SecondChance(t)'
        BY <1>3 DEF SecondChance
    <2>2. ASSUME NEW u \in Threads \ {t}
          PROVE  SecondChance(u)'
        BY <1>3 DEF SqlInv, SecondChanceOK, SecondChance, LockOK, AtLock
    <2> QED
        BY <2>1, <2>2 DEF SecondChanceOK
<1> QED
    BY <1>4, <1>5, <1>6, <1>7 DEF SqlInv

\* Expire is the one step that changes every call under way.
LEMMA ExpireOK == SqlInv /\ Expire => SqlInv'
<1> SUFFICES ASSUME SqlInv, Expire PROVE SqlInv'
    OBVIOUS
<1>1. call \in [Threads -> Calls] /\ token \in 1..MaxToken /\ expired \in 0..MaxToken
    BY DEF SqlInv, SqlTypeOK, Calls
<1>2. /\ expired' = token - 1 /\ expired + 1 < token
      /\ UNCHANGED <<token, conn, lock>>
    BY DEF Expire
<1>3. ASSUME NEW t \in Threads
      PROVE  /\ call'[t] \in Calls
             /\ call'[t].pc = call[t].pc
             /\ call'[t].used = call[t].used
             /\ call'[t].ran = call[t].ran
             /\ call'[t].expiries <= expired'
             /\ call[t].pc \in AtLock => call'[t].expiries > 0
             /\ call'[t].expiries >= call[t].expiries
    <2>1. call[t] \in Calls /\ call[t].expiries <= expired
        BY <1>1 DEF SqlInv, CallProgressOK, CallProgress
    <2>2. call'[t] = IF call[t].pc \in {"waiting"} \cup AtLock
                     THEN [call[t] EXCEPT !.expiries = @ + 1] ELSE call[t]
        BY DEF Expire
    <2> QED
        BY <1>1, <1>2, <2>1, <2>2, SqlClientAssumption DEF Calls
<1>4. DOMAIN call' = Threads /\ call' \in [Threads -> Calls]
    <2>1. call' = [t \in Threads |-> call'[t]]
        BY DEF Expire
    <2> QED
        BY <1>3, <2>1
<1>5. SqlTypeOK'
    BY <1>1, <1>2, <1>4, SqlClientAssumption DEF SqlInv, SqlTypeOK, Calls
<1>6. LockOK'
    BY <1>2, <1>3 DEF SqlInv, LockOK
<1>7. CallProgressOK'
    BY <1>3 DEF SqlInv, CallProgressOK, CallProgress
<1>8. SecondChanceOK'
    <2> SUFFICES ASSUME NEW t \in Threads PROVE SecondChance(t)'
        BY DEF SecondChanceOK
    <2>1. SecondChance(t) /\ call[t] \in Calls /\ call'[t] \in Calls
        BY <1>1, <1>3 DEF SqlInv, SecondChanceOK
    <2>2. call[t].expiries \in Nat /\ call'[t].expiries \in Nat
        BY <2>1 DEF Calls
    <2> QED
        BY <1>2, <1>3, <2>1, <2>2 DEF SecondChance, AtLock
<1> QED
    BY <1>5, <1>6, <1>7, <1>8 DEF SqlInv

LEMMA CallOK ==
    ASSUME SqlInv, NEW t \in Threads
    PROVE  /\ call[t] \in Calls /\ call[t].losses \in 0..2 /\ call[t].ran \in 0..2
           /\ call[t].expiries \in 0..MaxToken
           /\ call[t].used \in {None} \cup 1..MaxToken
           /\ call[t].pc \in {"idle", "waiting"} \cup AtLock \cup Ended
           /\ token \in 1..MaxToken /\ expired \in 0..MaxToken /\ expired < token
           /\ conn \in {None} \cup 1..MaxToken
           /\ lock = t <=> call[t].pc \in AtLock
           /\ CallProgress(t) /\ SecondChance(t)
BY DEF SqlInv, SqlTypeOK, LockOK, CallProgressOK, SecondChanceOK, Calls

\* The first attempt of t has failed and left a call failed.
LEMMA RetryOK ==
    ASSUME SqlInv, NEW t \in Threads, NEW failed \in Calls, Retry(t, failed),
           UNCHANGED <<token, expired>>, lock = t,
           failed.expiries <= expired, failed.ran \in 0..1
    PROVE  SqlInv'
<1> DEFINE next == [failed EXCEPT !.pc = "reconnect", !.used = None]
<1>1. /\ next \in Calls /\ next.pc = "reconnect"
      /\ next.ran = failed.ran /\ next.expiries = failed.expiries
    BY DEF Calls, AtLock
<1>2. CallBecomes(t, next) /\ conn' = None /\ lock' = lock
    BY DEF Retry, AfterError
<1> HIDE DEF next
<1> QED
    BY <1>1, <1>2, StepOfThread DEF AtLock

\* t leaves the lock with a call that has ended.
LEMMA LeaveOK ==
    ASSUME SqlInv, NEW t \in Threads, NEW how \in Calls, Leave(t, how),
           UNCHANGED <<token, expired>>, lock = t,
           conn' \in {None} \cup 1..MaxToken,
           how.pc \in Ended, how.expiries <= expired,
           how.pc = "refused" => how.expiries > 0
    PROVE  SqlInv'
<1>1. CallBecomes(t, how) /\ lock' = None
    BY DEF Leave
<1>2. how.pc \notin AtLock /\ how.pc \notin {"idle", "waiting"}
    BY DEF Ended, AtLock
<1> QED
    BY <1>1, <1>2, StepOfThread DEF AtLock

-----------------------------------------------------------------------------

LEMMA OutsideOK ==
    ASSUME SqlInv, NEW t \in Threads, Call(t) \/ Acquire(t) \/ Return(t)
    PROVE  SqlInv'
<1>1. CASE Call(t)
    <2> DEFINE next == [NoCall EXCEPT !.pc = "waiting"]
    <2>1. /\ next \in Calls /\ next.pc = "waiting" /\ next.ran = 0
          /\ next.expiries = 0
        BY SqlClientAssumption DEF Calls, NoCall
    <2>2. CallBecomes(t, next) /\ call[t].pc = "idle"
          /\ UNCHANGED <<token, expired, conn, lock>>
        BY <1>1 DEF Call
    <2> HIDE DEF next
    <2> QED
        BY <2>1, <2>2, CallOK, StepOfThread DEF AtLock
<1>2. CASE Acquire(t)
    <2> DEFINE next == [call[t] EXCEPT !.pc = "connect"]
    <2>1. /\ next \in Calls /\ next.pc = "connect" /\ next.ran = call[t].ran
          /\ next.expiries = call[t].expiries
        BY CallOK DEF Calls, AtLock
    <2>2. CallBecomes(t, next) /\ call[t].pc = "waiting" /\ lock = None /\ lock' = t
          /\ UNCHANGED <<token, expired, conn>>
        BY <1>2 DEF Acquire
    <2> HIDE DEF next
    <2> QED
        BY <2>1, <2>2, CallOK, StepOfThread DEF AtLock, CallProgress
<1>3. CASE Return(t)
    <2>1. /\ NoCall \in Calls /\ NoCall.pc = "idle" /\ NoCall.ran = 0
          /\ NoCall.expiries = 0
        BY SqlClientAssumption DEF Calls, NoCall
    <2>2. CallBecomes(t, NoCall) /\ call[t].pc \in Ended
          /\ UNCHANGED <<token, expired, conn, lock>>
        BY <1>3 DEF Return
    <2> QED
        BY <2>1, <2>2, CallOK, StepOfThread DEF AtLock, Ended
<1> QED
    BY <1>1, <1>2, <1>3

LEMMA ConnectOK ==
    ASSUME SqlInv, NEW t \in Threads, Connect(t)
    PROVE  SqlInv'
<1> DEFINE first == call[t].pc = "connect"
           pc == IF first THEN "execute" ELSE "reexecute"
<1>1. call[t].pc \in {"connect", "reconnect"} /\ lock = t
      /\ UNCHANGED <<token, expired>>
    BY CallOK DEF Connect, AtLock
<1>2. CASE /\ conn # None \/ conn' = token
           /\ conn' \in {conn, token}
           /\ CallBecomes(t, [call[t] EXCEPT !.pc = pc, !.used = conn'])
           /\ UNCHANGED lock
    <2> DEFINE next == [call[t] EXCEPT !.pc = pc, !.used = conn']
    <2>1. /\ next \in Calls /\ next.pc = pc /\ next.used = conn'
          /\ next.ran = call[t].ran /\ next.expiries = call[t].expiries
        BY <1>2, CallOK DEF Calls, AtLock
    <2>2. pc = "reexecute" => conn' = token /\ call[t].ran \in 0..1
        BY <1>1, <1>2, CallOK DEF SecondChance, CallProgress
    <2>3. pc = "execute" => call[t].ran = 0
        BY <1>1, CallOK DEF CallProgress
    <2>4. call[t].expiries <= expired /\ pc \in {"execute", "reexecute"}
        BY CallOK DEF CallProgress
    <2>5. CallBecomes(t, next)
        BY <1>2
    <2> HIDE DEF next, pc
    <2> QED
        BY <1>1, <1>2, <2>1, <2>2, <2>3, <2>4, <2>5, CallOK, StepOfThread DEF AtLock
<1>3. CASE \* the login fails
           /\ call[t].losses < 2
           /\ LET lost == [call[t] EXCEPT !.losses = @ + 1]
              IN  IF first THEN Retry(t, lost)
                  ELSE conn' = conn /\ Leave(t, [lost EXCEPT !.pc = "raised"])
    <2> DEFINE lost == [call[t] EXCEPT !.losses = @ + 1]
               raised == [lost EXCEPT !.pc = "raised"]
    <2>0. call[t].losses < 2
        BY <1>3
    <2>1. /\ lost \in Calls /\ lost.ran = call[t].ran
          /\ lost.expiries = call[t].expiries
          /\ raised \in Calls /\ raised.pc = "raised"
          /\ raised.expiries = call[t].expiries
        <3>1. call[t].losses + 1 \in 0..2
            BY <2>0, CallOK
        <3> QED
            BY <3>1, CallOK DEF Calls, Ended
    <2>2. call[t].expiries <= expired /\ call[t].ran \in 0..1
        BY <1>1, CallOK DEF CallProgress
    <2>3. IF first THEN Retry(t, lost) ELSE conn' = conn /\ Leave(t, raised)
        BY <1>3
    <2> HIDE DEF lost, raised
    <2>4. CASE first
        BY <1>1, <2>1, <2>2, <2>3, <2>4, RetryOK
    <2>5. CASE ~first
        BY <1>1, <2>1, <2>2, <2>3, <2>5, LeaveOK, CallOK DEF Ended
    <2> QED
        BY <2>4, <2>5
<1> QED
    BY <1>2, <1>3 DEF Connect

LEMMA AttemptOK ==
    ASSUME SqlInv, NEW t \in Threads, Answer(t) \/ Refuse(t) \/ Lose(t) \/ Reject(t)
    PROVE  SqlInv'
<1>1. /\ call[t].pc \in {"execute", "reexecute"} /\ lock = t
      /\ UNCHANGED <<token, expired>>
    BY CallOK DEF Answer, Refuse, Lose, Reject, AtLock
<1>2. /\ call[t].expiries <= expired /\ call[t].ran \in 0..1
      /\ call[t].pc = "execute" => call[t].ran = 0
    BY <1>1, CallOK DEF CallProgress
<1>3. CASE Answer(t)
    <2> DEFINE how == [call[t] EXCEPT !.pc = "returned", !.ran = @ + 1]
    <2>1. call[t].ran + 1 \in 0..2
        BY <1>2
    <2>2. how \in Calls /\ how.pc = "returned" /\ how.expiries = call[t].expiries
        BY <2>1, CallOK DEF Calls, Ended
    <2>3. Leave(t, how) /\ conn' = conn
        BY <1>3 DEF Answer
    <2> HIDE DEF how
    <2> QED
        BY <1>1, <1>2, <2>2, <2>3, CallOK, LeaveOK DEF Ended
<1>4. CASE Refuse(t)
    <2>1. CASE call[t].pc = "execute"
        <3>1. Retry(t, call[t])
            BY <1>4, <2>1 DEF Refuse
        <3> QED
            BY <1>1, <1>2, <3>1, CallOK, RetryOK
    <2>2. CASE call[t].pc = "reexecute"
        <3> DEFINE how == [call[t] EXCEPT !.pc = "refused"]
        <3>1. /\ how \in Calls /\ how.pc = "refused"
              /\ how.expiries = call[t].expiries
            BY CallOK DEF Calls, Ended
        <3>2. call[t].used \in 1..MaxToken /\ call[t].used <= expired
            BY <1>4, <2>2, CallOK DEF Refuse, SecondChance
        <3>3. call[t].expiries > 0
            BY <2>2, <3>2, CallOK DEF SecondChance
        <3>4. Leave(t, how) /\ conn' = conn
            BY <1>4, <2>2 DEF Refuse
        <3> HIDE DEF how
        <3> QED
            BY <1>1, <1>2, <3>1, <3>3, <3>4, CallOK, LeaveOK DEF Ended
    <2> QED
        BY <1>1, <2>1, <2>2
<1>5. CASE Lose(t)
    <2>1. PICK ran \in (IF call[t].used > expired THEN {0, 1} ELSE {0}) :
              LET lost == [call[t] EXCEPT !.losses = @ + 1, !.ran = @ + ran]
              IN  IF call[t].pc = "execute" THEN Retry(t, lost)
                  ELSE Leave(t, [lost EXCEPT !.pc = "raised"]) /\ UNCHANGED conn
        BY <1>5 DEF Lose
    <2> DEFINE lost == [call[t] EXCEPT !.losses = @ + 1, !.ran = @ + ran]
               raised == [lost EXCEPT !.pc = "raised"]
    <2>2. call[t].losses < 2
        BY <1>5 DEF Lose
    <2>3. call[t].losses + 1 \in 0..2 /\ ran \in 0..1 /\ call[t].ran + ran \in 0..2
        BY <1>2, <2>2, CallOK
    <2>4. /\ lost \in Calls /\ lost.ran = call[t].ran + ran
          /\ lost.expiries = call[t].expiries
          /\ raised \in Calls /\ raised.pc = "raised"
          /\ raised.expiries = call[t].expiries
        BY <2>3, CallOK DEF Calls, Ended
    <2>5. IF call[t].pc = "execute" THEN Retry(t, lost)
          ELSE Leave(t, raised) /\ conn' = conn
        BY <2>1
    <2> HIDE DEF lost, raised
    <2>6. CASE call[t].pc = "execute"
        BY <1>1, <1>2, <2>3, <2>4, <2>5, <2>6, RetryOK
    <2>7. CASE call[t].pc # "execute"
        BY <1>1, <1>2, <2>4, <2>5, <2>7, CallOK, LeaveOK DEF Ended
    <2> QED
        BY <2>6, <2>7
<1>6. CASE Reject(t)
    <2> DEFINE how == [call[t] EXCEPT !.pc = "raised"]
    <2>1. how \in Calls /\ how.pc = "raised" /\ how.expiries = call[t].expiries
        BY CallOK DEF Calls, Ended
    <2>2. Leave(t, how) /\ conn' \in {None, conn}
        BY <1>6 DEF Reject, AfterError
    <2> HIDE DEF how
    <2> QED
        BY <1>1, <1>2, <2>1, <2>2, CallOK, LeaveOK DEF Ended
<1> QED
    BY <1>3, <1>4, <1>5, <1>6

LEMMA SqlNextOK == SqlInv /\ [SqlNext]_sqlVars => SqlInv'
<1> SUFFICES ASSUME SqlInv, [SqlNext]_sqlVars PROVE SqlInv'
    OBVIOUS
<1>1. CASE Rotate
    <2>1. /\ token < MaxToken /\ token' = token + 1
          /\ UNCHANGED <<expired, conn, lock, call>>
        BY <1>1 DEF Rotate
    <2>2. token' \in 1..MaxToken /\ expired' < token'
        BY <2>1, SqlClientAssumption DEF SqlInv, SqlTypeOK
    <2>3. SqlTypeOK'
        BY <2>1, <2>2 DEF SqlInv, SqlTypeOK
    <2>4. LockOK' /\ CallProgressOK' /\ SecondChanceOK'
        BY <2>1
        DEF SqlInv, LockOK, CallProgressOK, CallProgress, SecondChanceOK, SecondChance
    <2> QED
        BY <2>3, <2>4 DEF SqlInv
<1>2. CASE Expire
    BY <1>2, ExpireOK
<1>3. ASSUME NEW t \in Threads, Call(t) \/ CallStep(t) PROVE SqlInv'
    BY <1>3, OutsideOK, ConnectOK, AttemptOK DEF CallStep
<1>4. CASE UNCHANGED sqlVars
    BY <1>4
    DEF sqlVars, SqlInv, SqlTypeOK, LockOK, CallProgressOK, CallProgress, SecondChanceOK,
        SecondChance
<1> QED
    BY <1>1, <1>2, <1>3, <1>4 DEF SqlNext

LEMMA SqlInvariant == SqlSpec => []SqlInv
BY SqlInitOK, SqlNextOK, PTL DEF SqlSpec

-----------------------------------------------------------------------------

\* The state of the connection, the lock and the calls keeps its type; no
\* statement takes effect more than twice.
THEOREM SqlTypeCorrect == SqlSpec => []SqlTypeOK
<1>1. SqlInv => SqlTypeOK
    BY DEF SqlInv
<1> QED
    BY <1>1, SqlInvariant, PTL

\* snowflake_client.execute_sql: the connector is not thread-safe, and _lock
\* covers both attempts, so that no two threads use the connection at once.
THEOREM ConnectionIsExclusive == SqlSpec => []ConnectionExclusive
<1>1. SqlInv => ConnectionExclusive
    BY DEF SqlInv, LockOK, ConnectionExclusive
<1> QED
    BY <1>1, SqlInvariant, PTL

\* snowflake_client.execute_sql and get_connection: a rotation of the session
\* token is hidden by the one retry, which opens a new connection; a call is
\* refused for good only when the second token has expired in turn.
THEOREM RotationIsHidden == SqlSpec => []RotationHidden
<1>1. SqlInv => RotationHidden
    BY DEF SqlInv, SecondChanceOK, SecondChance, RotationHidden
<1> QED
    BY <1>1, SqlInvariant, PTL

-----------------------------------------------------------------------------
(* The identity of callers.                                                *)

\* The user held these roles at some tick from the given one on.
HeldSince(roles, from) ==
    \E i \in 1..clock : i >= from /\ roles = held[i]

\* What the cache keeps was so when its request began, or since.
CacheOK ==
    \A k \in Tokens : cache[k] # NoEntry =>
        /\ cache[k].ts <= clock
        /\ HeldSince(cache[k].roles, cache[k].ts)

\* So was what the browser session vouches for, unless it vouches for nothing.
BrowserOK ==
    /\ browser.since <= clock
    /\ browser.roles # {} => HeldSince(browser.roles, browser.since)

RequestOK(r) ==
    /\ req[r].start <= clock
    /\ req[r].pc \in {"lookup", "query", "store"} =>
           req[r].token \in Tokens /\ ~req[r].failed
    /\ req[r].pc \in {"lookup", "query"} => req[r].roles = {}
    /\ req[r].pc = "store" => HeldSince(req[r].roles, req[r].start)
    /\ req[r].pc = "served" =>
           IF req[r].failed THEN req[r].roles = {}
           ELSE HeldSince(req[r].roles, req[r].start - IdentityTtl + 1)
    /\ req[r].pc = "vouched" /\ req[r].roles # {} =>
           HeldSince(req[r].roles, req[r].start)

RequestsOK == \A r \in Requests : RequestOK(r)

IdentityInv == IdentityTypeOK /\ CacheOK /\ BrowserOK /\ RequestsOK

ReqStates == [pc : {"idle", "lookup", "query", "store", "served", "vouched"},
              token : Tokens \cup {NoEntry}, start : 1..MaxTicks,
              roles : SUBSET Roles, failed : BOOLEAN]

-----------------------------------------------------------------------------

LEMMA IdentityInitOK == IdentityInit => IdentityInv
<1> SUFFICES ASSUME IdentityInit PROVE IdentityInv
    OBVIOUS
<1>1. PICK roles \in SUBSET Roles : held = <<roles>>
    BY DEF IdentityInit
<1>2. held \in Seq(SUBSET Roles) /\ Len(held) = 1
    BY <1>1
<1>3. MaxTicks \in Nat /\ 1 <= MaxTicks
    BY IdentityAssumption
<1>4. IdentityTypeOK
    BY <1>2, <1>3 DEF IdentityInit, IdentityTypeOK, NoBrowser, NoRequest, Entries
<1> QED
    BY <1>2, <1>4
    DEF IdentityInit, IdentityInv, CacheOK, BrowserOK, RequestsOK, RequestOK,
        NoBrowser, NoRequest, clock

LEMMA IdentityFacts ==
    ASSUME IdentityInv
    PROVE  /\ held \in Seq(SUBSET Roles) /\ clock \in 1..MaxTicks
           /\ cache \in [Tokens -> Entries \cup {NoEntry}]
           /\ browser \in [open : BOOLEAN, since : 1..MaxTicks, roles : SUBSET Roles]
           /\ browser.since \in 1..MaxTicks /\ browser.roles \in SUBSET Roles
           /\ req \in [Requests -> ReqStates]
           /\ held[clock] \in SUBSET Roles
           /\ MaxTicks \in Nat /\ IdentityTtl \in Nat /\ IdentityTtl >= 1
BY IdentityAssumption DEF IdentityInv, IdentityTypeOK, ReqStates, clock

\* A step of one request that leaves the clock, the cache and the browser.
LEMMA RequestMoves ==
    ASSUME IdentityInv, NEW r \in Requests, NEW next \in ReqStates,
           ReqBecomes(r, next), UNCHANGED <<held, browser>>,
           CacheOK', cache' \in [Tokens -> Entries \cup {NoEntry}],
           next.start <= clock,
           next.pc \in {"lookup", "query", "store"} =>
               next.token \in Tokens /\ ~next.failed,
           next.pc \in {"lookup", "query"} => next.roles = {},
           next.pc = "store" => HeldSince(next.roles, next.start),
           next.pc = "served" =>
               IF next.failed THEN next.roles = {}
               ELSE HeldSince(next.roles, next.start - IdentityTtl + 1),
           next.pc = "vouched" /\ next.roles # {} => HeldSince(next.roles, next.start)
    PROVE  IdentityInv'
<1>1. /\ req' \in [Requests -> ReqStates] /\ req'[r] = next
      /\ \A q \in Requests \ {r} : req'[q] = req[q]
    BY IdentityFacts DEF ReqBecomes
<1>2. IdentityTypeOK'
    BY <1>1 DEF IdentityInv, IdentityTypeOK, ReqStates, clock
<1>3. BrowserOK'
    BY DEF IdentityInv, BrowserOK, HeldSince, clock
<1>4. RequestsOK'
    <2>1. RequestOK(r)'
        BY <1>1 DEF RequestOK, HeldSince, clock
    <2>2. ASSUME NEW q \in Requests \ {r} PROVE RequestOK(q)'
        BY <1>1 DEF IdentityInv, RequestsOK, RequestOK, HeldSince, clock
    <2> QED
        BY <2>1, <2>2 DEF RequestsOK
<1> QED
    BY <1>2, <1>3, <1>4 DEF IdentityInv

LEMMA CacheStays ==
    ASSUME IdentityInv, UNCHANGED <<held, cache>>
    PROVE  CacheOK' /\ cache' \in [Tokens -> Entries \cup {NoEntry}]
BY IdentityFacts DEF IdentityInv, CacheOK, HeldSince, clock

LEMMA RequestFacts ==
    ASSUME IdentityInv, NEW r \in Requests
    PROVE  /\ req[r] \in ReqStates /\ req[r].start \in 1..MaxTicks
           /\ req[r].roles \in SUBSET Roles /\ RequestOK(r)
BY IdentityFacts DEF IdentityInv, RequestsOK, ReqStates

LEMMA BeginOK ==
    ASSUME IdentityInv, NEW r \in Requests, Present(r) \/ Vouch(r) \/ Reply(r)
    PROVE  IdentityInv'
<1>1. CASE Present(r)
    <2>1. PICK k \in Tokens : ReqBecomes(r, [NoRequest EXCEPT
                  !.pc = "lookup", !.token = k, !.start = clock])
        BY <1>1 DEF Present
    <2> DEFINE next == [NoRequest EXCEPT !.pc = "lookup", !.token = k, !.start = clock]
    <2>2. /\ next \in ReqStates /\ next.pc = "lookup" /\ next.start = clock
          /\ next.token = k /\ next.failed = FALSE /\ next.roles = {}
        BY IdentityFacts DEF ReqStates, NoRequest
    <2>3. ReqBecomes(r, next) /\ UNCHANGED <<held, cache, browser>>
        BY <1>1, <2>1 DEF Present
    <2> HIDE DEF next
    <2> QED
        BY <2>2, <2>3, IdentityFacts, CacheStays, RequestMoves
<1>2. CASE Vouch(r)
    <2>1. PICK internal \in BOOLEAN :
              ReqBecomes(r, [NoRequest EXCEPT
                  !.pc = "vouched",
                  !.start = IF internal THEN browser.since ELSE clock,
                  !.roles = IF internal THEN browser.roles ELSE {}])
        BY <1>2 DEF Vouch
    <2> DEFINE start == IF internal THEN browser.since ELSE clock
               roles == IF internal THEN browser.roles ELSE {}
               next == [NoRequest EXCEPT !.pc = "vouched", !.start = start,
                                         !.roles = roles]
    <2>2. /\ start \in 1..MaxTicks /\ start <= clock /\ roles \in SUBSET Roles
          /\ roles # {} => HeldSince(roles, start)
        BY IdentityFacts DEF IdentityInv, BrowserOK
    <2> HIDE DEF start, roles
    <2>3. /\ next \in ReqStates /\ next.pc = "vouched" /\ next.start = start
          /\ next.roles = roles
        BY <2>2 DEF ReqStates, NoRequest
    <2>4. ReqBecomes(r, next) /\ UNCHANGED <<held, cache, browser>>
        BY <1>2, <2>1 DEF Vouch, start, roles
    <2> HIDE DEF next
    <2> QED
        BY <2>2, <2>3, <2>4, CacheStays, RequestMoves
<1>3. CASE Reply(r)
    <2>1. /\ NoRequest \in ReqStates /\ NoRequest.pc = "idle"
          /\ NoRequest.start <= clock
        BY IdentityFacts DEF ReqStates, NoRequest
    <2>2. ReqBecomes(r, NoRequest) /\ UNCHANGED <<held, cache, browser>>
        BY <1>3 DEF Reply
    <2> QED
        BY <2>1, <2>2, CacheStays, RequestMoves
<1> QED
    BY <1>1, <1>2, <1>3

LEMMA LookUpOK ==
    ASSUME IdentityInv, NEW r \in Requests, LookUp(r)
    PROVE  IdentityInv'
<1> DEFINE entry == cache[req[r].token]
<1>1. /\ req[r].pc = "lookup" /\ req[r].token \in Tokens /\ ~req[r].failed
      /\ req[r].roles = {} /\ req[r].start <= clock
      /\ UNCHANGED <<held, cache, browser>>
    BY RequestFacts DEF LookUp, RequestOK
<1>2. CASE Fresh(entry, req[r].start)
    <2> DEFINE next == [req[r] EXCEPT !.pc = "served", !.roles = entry.roles]
    <2>1. /\ entry \in Entries /\ entry.ts \in 1..MaxTicks /\ entry.roles \in SUBSET Roles
          /\ HeldSince(entry.roles, entry.ts)
          /\ entry.ts >= req[r].start - IdentityTtl + 1
        BY <1>1, <1>2, IdentityFacts, RequestFacts
        DEF Fresh, Entries, IdentityInv, CacheOK
    <2>2. HeldSince(entry.roles, req[r].start - IdentityTtl + 1)
        BY <2>1, IdentityFacts, RequestFacts DEF HeldSince
    <2>3. ReqBecomes(r, next)
        BY <1>2 DEF LookUp
    <2> HIDE DEF entry
    <2>4. /\ next \in ReqStates /\ next.pc = "served" /\ next.roles = entry.roles
          /\ next.start = req[r].start /\ next.failed = req[r].failed
        BY <2>1, RequestFacts DEF ReqStates
    <2> HIDE DEF next
    <2> QED
        BY <1>1, <2>2, <2>3, <2>4, CacheStays, RequestMoves
<1>3. CASE ~Fresh(entry, req[r].start)
    <2> DEFINE next == [req[r] EXCEPT !.pc = "query"]
    <2>1. /\ next \in ReqStates /\ next.pc = "query" /\ next.roles = req[r].roles
          /\ next.start = req[r].start /\ next.failed = req[r].failed
          /\ next.token = req[r].token
        BY RequestFacts DEF ReqStates
    <2>2. ReqBecomes(r, next)
        BY <1>3 DEF LookUp
    <2> HIDE DEF next, entry
    <2> QED
        BY <1>1, <2>1, <2>2, CacheStays, RequestMoves
<1> QED
    BY <1>2, <1>3

LEMMA QueryOK ==
    ASSUME IdentityInv, NEW r \in Requests, Query(r) \/ QueryFails(r)
    PROVE  IdentityInv'
<1>1. /\ req[r].pc = "query" /\ req[r].token \in Tokens /\ ~req[r].failed
      /\ req[r].roles = {} /\ req[r].start <= clock
      /\ UNCHANGED <<held, cache, browser>>
    BY RequestFacts DEF Query, QueryFails, RequestOK
<1>2. CASE Query(r)
    <2> DEFINE next == [req[r] EXCEPT !.pc = "store", !.roles = held[clock]]
    <2>1. /\ next \in ReqStates /\ next.pc = "store" /\ next.roles = held[clock]
          /\ next.start = req[r].start /\ next.failed = req[r].failed
          /\ next.token = req[r].token
        BY RequestFacts, IdentityFacts DEF ReqStates
    <2>2. HeldSince(held[clock], req[r].start)
        BY <1>1, IdentityFacts DEF HeldSince
    <2>3. ReqBecomes(r, next)
        BY <1>2 DEF Query
    <2> HIDE DEF next
    <2> QED
        BY <1>1, <2>1, <2>2, <2>3, CacheStays, RequestMoves
<1>3. CASE QueryFails(r)
    <2> DEFINE next == [req[r] EXCEPT !.pc = "served", !.failed = TRUE]
    <2>1. /\ next \in ReqStates /\ next.pc = "served" /\ next.roles = req[r].roles
          /\ next.start = req[r].start /\ next.failed = TRUE
        BY RequestFacts DEF ReqStates
    <2>2. ReqBecomes(r, next)
        BY <1>3 DEF QueryFails
    <2> HIDE DEF next
    <2> QED
        BY <1>1, <2>1, <2>2, CacheStays, RequestMoves
<1> QED
    BY <1>2, <1>3

LEMMA StoreOK ==
    ASSUME IdentityInv, NEW r \in Requests, Store(r)
    PROVE  IdentityInv'
<1> DEFINE entry == [ts |-> req[r].start, roles |-> req[r].roles]
           next == [req[r] EXCEPT !.pc = "served"]
<1>1. /\ req[r].pc = "store" /\ req[r].token \in Tokens /\ ~req[r].failed
      /\ req[r].start <= clock /\ HeldSince(req[r].roles, req[r].start)
      /\ UNCHANGED <<held, browser>>
    BY RequestFacts DEF Store, RequestOK
<1>2. /\ next \in ReqStates /\ next.pc = "served" /\ next.roles = req[r].roles
      /\ next.start = req[r].start /\ next.failed = req[r].failed
    BY RequestFacts DEF ReqStates
<1>3. HeldSince(req[r].roles, req[r].start - IdentityTtl + 1)
    BY <1>1, IdentityFacts, RequestFacts DEF HeldSince
<1>4. entry \in Entries /\ entry.ts = req[r].start /\ entry.roles = req[r].roles
    BY RequestFacts DEF Entries
<1>5. cache' = [k \in Tokens |->
                   IF k = req[r].token THEN entry
                   ELSE IF Fresh(cache[k], req[r].start) THEN cache[k] ELSE NoEntry]
    BY DEF Store, Stamped
<1>6. ReqBecomes(r, next)
    BY DEF Store
<1> HIDE DEF entry, next
<1>7. cache' \in [Tokens -> Entries \cup {NoEntry}]
    BY <1>4, <1>5, IdentityFacts
<1>8. CacheOK'
    <2> SUFFICES ASSUME NEW k \in Tokens, cache'[k] # NoEntry
                 PROVE  /\ cache'[k].ts <= clock
                        /\ HeldSince(cache'[k].roles, cache'[k].ts)
        BY <1>1 DEF CacheOK, HeldSince, clock
    <2>1. cache'[k] = entry \/ cache'[k] = cache[k]
        BY <1>5
    <2> QED
        BY <1>1, <1>4, <2>1 DEF IdentityInv, CacheOK
<1> QED
    BY <1>1, <1>2, <1>3, <1>6, <1>7, <1>8, RequestMoves

\* A later tick forgets nothing.
LEMMA TickRemembers ==
    ASSUME IdentityInv, PassTick
    PROVE  /\ held' \in Seq(SUBSET Roles) /\ clock' = clock + 1 /\ clock' <= MaxTicks
           /\ \A i \in 1..clock : held'[i] = held[i]
<1>1. PICK roles \in SUBSET Roles : held' = Append(held, roles)
    BY DEF PassTick
<1>2. held \in Seq(SUBSET Roles) /\ clock \in 1..MaxTicks /\ clock < MaxTicks
    BY IdentityFacts DEF PassTick
<1> QED
    BY <1>1, <1>2, IdentityFacts DEF clock

LEMMA PassTickOK ==
    ASSUME IdentityInv, PassTick
    PROVE  IdentityInv'
<1>1. UNCHANGED <<cache, browser, req>>
    BY DEF PassTick
<1>2. clock \in Nat /\ clock' = clock + 1
    BY IdentityFacts, TickRemembers
<1>3. IdentityTypeOK'
    BY <1>1, <1>2, TickRemembers, IdentityFacts DEF IdentityInv, IdentityTypeOK, clock
<1>4. CacheOK'
    <2> SUFFICES ASSUME NEW k \in Tokens, cache[k] # NoEntry
                 PROVE  cache[k].ts <= clock' /\ HeldSince(cache[k].roles, cache[k].ts)'
        BY <1>1 DEF CacheOK, HeldSince
    <2>1. cache[k] \in Entries /\ cache[k].ts \in 1..MaxTicks
        BY IdentityFacts DEF Entries
    <2>2. cache[k].ts <= clock /\ HeldSince(cache[k].roles, cache[k].ts)
        BY DEF IdentityInv, CacheOK
    <2>3. HeldSince(cache[k].roles, cache[k].ts)'
        <3>1. PICK i \in 1..clock : i >= cache[k].ts /\ cache[k].roles = held[i]
            BY <2>2 DEF HeldSince
        <3>2. i \in 1..clock' /\ held'[i] = held[i]
            BY <1>2, TickRemembers
        <3> QED
            BY <1>1, <3>1, <3>2 DEF HeldSince
    <2> QED
        BY <1>2, <2>1, <2>2, <2>3
<1>5. BrowserOK'
    BY <1>1, <1>2, TickRemembers, IdentityFacts DEF IdentityInv, BrowserOK, HeldSince
<1>6. RequestsOK'
    <2> SUFFICES ASSUME NEW r \in Requests PROVE RequestOK(r)'
        BY DEF RequestsOK
    <2> QED
        BY <1>1, <1>2, TickRemembers, IdentityFacts, RequestFacts
        DEF RequestOK, HeldSince
<1> QED
    BY <1>3, <1>4, <1>5, <1>6 DEF IdentityInv

LEMMA BrowserStepOK ==
    ASSUME IdentityInv, OpenBrowser \/ CloseBrowser
    PROVE  IdentityInv'
<1>1. UNCHANGED <<held, cache, req>>
    BY DEF OpenBrowser, CloseBrowser
<1>2. /\ browser' \in [open : BOOLEAN, since : 1..MaxTicks, roles : SUBSET Roles]
      /\ BrowserOK'
    <2>1. CASE OpenBrowser
        <3>1. PICK resolved \in BOOLEAN :
                  browser' = [open |-> TRUE, since |-> clock,
                              roles |-> IF resolved THEN held[clock] ELSE {}]
            BY <2>1 DEF OpenBrowser
        <3>2. /\ browser'.since = clock
              /\ browser'.roles = held[clock] \/ browser'.roles = {}
            BY <3>1
        <3>3. HeldSince(held[clock], clock)
            BY IdentityFacts DEF HeldSince
        <3> QED
            BY <1>1, <3>1, <3>2, <3>3, IdentityFacts DEF BrowserOK, HeldSince, clock
    <2>2. CASE CloseBrowser
        BY <1>1, <2>2, IdentityFacts DEF CloseBrowser, NoBrowser, BrowserOK, clock
    <2> QED
        BY <2>1, <2>2
<1>3. IdentityTypeOK'
    BY <1>1, <1>2 DEF IdentityInv, IdentityTypeOK, clock
<1>4. CacheOK' /\ RequestsOK'
    BY <1>1 DEF IdentityInv, CacheOK, RequestsOK, RequestOK, HeldSince, clock
<1> QED
    BY <1>2, <1>3, <1>4 DEF IdentityInv

LEMMA RestartOK ==
    ASSUME IdentityInv, RestartCache
    PROVE  IdentityInv'
<1>1. /\ UNCHANGED <<held, browser>>
      /\ \A k \in Tokens : cache'[k] = NoEntry
      /\ cache' \in [Tokens -> Entries \cup {NoEntry}]
    BY DEF RestartCache
<1>2. NoRequest \in ReqStates /\ NoRequest.pc = "idle" /\ NoRequest.start = 1
    BY IdentityFacts DEF ReqStates, NoRequest
<1>3. req' \in [Requests -> ReqStates] /\ \A r \in Requests : req'[r] = NoRequest
    BY <1>2 DEF RestartCache
<1>4. IdentityTypeOK'
    BY <1>1, <1>3 DEF IdentityInv, IdentityTypeOK, ReqStates, clock
<1>5. CacheOK' /\ BrowserOK'
    BY <1>1 DEF IdentityInv, CacheOK, BrowserOK, HeldSince, clock
<1>6. RequestsOK'
    BY <1>1, <1>2, <1>3, IdentityFacts DEF RequestsOK, RequestOK, clock
<1> QED
    BY <1>4, <1>5, <1>6 DEF IdentityInv

LEMMA IdentityNextOK == IdentityInv /\ [IdentityNext]_identityVars => IdentityInv'
<1> SUFFICES ASSUME IdentityInv, [IdentityNext]_identityVars PROVE IdentityInv'
    OBVIOUS
<1>1. ASSUME NEW r \in Requests, RequestStep(r) PROVE IdentityInv'
    BY <1>1, BeginOK, LookUpOK, QueryOK, StoreOK DEF RequestStep
<1>2. CASE UNCHANGED identityVars
    BY <1>2
    DEF identityVars, IdentityInv, IdentityTypeOK, CacheOK, BrowserOK, RequestsOK,
        RequestOK, HeldSince, clock
<1> QED
    BY <1>1, <1>2, BrowserStepOK, PassTickOK, RestartOK DEF IdentityNext

LEMMA IdentityInvariant == IdentitySpec => []IdentityInv
BY IdentityInitOK, IdentityNextOK, PTL DEF IdentitySpec

-----------------------------------------------------------------------------

\* The clock, the cache, the browser session and the requests keep their type.
THEOREM IdentityTypeCorrect == IdentitySpec => []IdentityTypeOK
<1>1. IdentityInv => IdentityTypeOK
    BY DEF IdentityInv
<1> QED
    BY <1>1, IdentityInvariant, PTL

\* auth.py, _cached_identity and authorize: nobody is let in by roles that he
\* lost before the lifetime of a cache entry, however many requests present
\* his token and however their queries overlap.
THEOREM RevocationIsBounded == IdentitySpec => []RevocationBounded
<1>1. ASSUME IdentityInv, NEW r \in Requests,
             req[r].pc \in {"served", "vouched"}, Authorized(req[r].roles)
      PROVE  \E i \in 1..clock :
                /\ i > req[r].start - (IF req[r].pc = "served" THEN IdentityTtl ELSE 1)
                /\ Authorized(held[i])
    <2>1. req[r].roles # {}
        BY <1>1 DEF Authorized
    <2>2. CASE req[r].pc = "served"
        <3>1. HeldSince(req[r].roles, req[r].start - IdentityTtl + 1)
            BY <1>1, <2>1, <2>2, RequestFacts DEF RequestOK
        <3>2. PICK i \in 1..clock :
                  /\ i >= req[r].start - IdentityTtl + 1
                  /\ req[r].roles = held[i]
            BY <3>1 DEF HeldSince
        <3>3. i > req[r].start - IdentityTtl
            BY <1>1, <3>2, IdentityFacts, RequestFacts
        <3>4. Authorized(held[i])
            BY <1>1, <3>2
        <3> QED
            BY <2>2, <3>3, <3>4
    <2>3. CASE req[r].pc = "vouched"
        <3>1. PICK i \in 1..clock : i >= req[r].start /\ req[r].roles = held[i]
            BY <1>1, <2>1, <2>3, RequestFacts DEF RequestOK, HeldSince
        <3>2. i > req[r].start - 1
            BY <1>1, <3>1, IdentityFacts, RequestFacts
        <3>3. Authorized(held[i])
            BY <1>1, <3>1
        <3> QED
            BY <2>3, <3>2, <3>3
    <2> QED
        BY <1>1, <2>2, <2>3
<1>2. IdentityInv => RevocationBounded
    BY <1>1 DEF RevocationBounded
<1> QED
    BY <1>2, IdentityInvariant, PTL

\* auth.py, resolve_caller: a query that fails costs its own request its
\* roles and no later one, since only answers are cached.
THEOREM FailureIsNotRemembered == IdentitySpec => []FailureNotRemembered
<1>1. ASSUME IdentityInv, NEW r \in Requests,
             req[r].pc = "served", ~req[r].failed, ~Authorized(req[r].roles)
      PROVE  \E i \in 1..clock :
                i > req[r].start - IdentityTtl /\ ~Authorized(held[i])
    <2>1. PICK i \in 1..clock :
              i >= req[r].start - IdentityTtl + 1 /\ req[r].roles = held[i]
        BY <1>1, RequestFacts DEF RequestOK, HeldSince
    <2>2. i > req[r].start - IdentityTtl
        BY <1>1, <2>1, IdentityFacts, RequestFacts
    <2>3. ~Authorized(held[i])
        BY <1>1, <2>1
    <2> QED
        BY <2>2, <2>3
<1>2. IdentityInv => FailureNotRemembered
    BY <1>1 DEF FailureNotRemembered
<1> QED
    BY <1>2, IdentityInvariant, PTL

-----------------------------------------------------------------------------
(* The four parts side by side.                                            *)

ControllerInv == SqlInv /\ IdentityInv /\ ProvisioningInv /\ InstallationInv

\* A step of one part is a stutter of the others.
LEMMA ControllerInvariant == ControllerSpec => []ControllerInv
<1>1. ControllerInit => ControllerInv
    BY SqlInitOK, IdentityInitOK, ProvisioningInitOK, InstallationInitOK
    DEF ControllerInit, ControllerInv
<1>2. ControllerInv /\ [ControllerNext]_controllerVars => ControllerInv'
    <2> SUFFICES ASSUME ControllerInv, [ControllerNext]_controllerVars
                 PROVE  ControllerInv'
        OBVIOUS
    <2>1. /\ [SqlNext]_sqlVars /\ [IdentityNext]_identityVars
          /\ [ProvisioningNext]_provisioningVars
          /\ [InstallationNext]_installationVars
        BY DEF ControllerNext, controllerVars
    <2> QED
        BY <2>1, SqlNextOK, IdentityNextOK, ProvisioningNextOK, InstallationStepOK
        DEF ControllerInv
<1> QED
    BY <1>1, <1>2, PTL DEF ControllerSpec

\* Every state of the four parts keeps its type, whichever of them moves.
THEOREM ControllerTypeCorrect == ControllerSpec => []ControllerTypeOK
<1>1. ControllerInv => ControllerTypeOK
    <2>1. ProvisioningInv => ProvisioningTypeOK
        BY TypeParts DEF ProvisioningInv
    <2> QED
        BY <2>1 DEF ControllerInv, ControllerTypeOK, SqlInv, IdentityInv, InstallationInv
<1> QED
    BY <1>1, ControllerInvariant, PTL
=============================================================================
