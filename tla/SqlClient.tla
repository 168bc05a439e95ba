----------------------------- MODULE SqlClient -----------------------------
(***************************************************************************)
(* The one Snowflake connection of the Controller (snowflake_client.py):   *)
(* every route and every background task runs its statements through       *)
(* execute_sql, which holds a lock from the first attempt to the last.     *)
(*                                                                         *)
(* Snowflake and the session token are external.  The platform writes a    *)
(* new token to the token file from time to time, and some time later the  *)
(* older ones expire, also for the connections opened with them.  The      *)
(* network may lose a statement before or after Snowflake has run it; both *)
(* look like the same OperationalError.                                    *)
(***************************************************************************)
EXTENDS Naturals

CONSTANTS
    Threads,     \* threads of the server's pool that run statements
    MaxToken,    \* bound: tokens the platform writes
    None         \* no connection, nobody at the lock

ASSUME SqlClientAssumption ==
    /\ MaxToken \in Nat \ {0}
    /\ None \notin Threads
    /\ None \notin Nat

VARIABLES
    token,     \* the token in the file
    expired,   \* the tokens up to this one have expired
    conn,      \* the token _conn was opened with, or None
    lock,      \* the thread that holds _lock, or None
    call       \* what each thread does

sqlVars == <<token, expired, conn, lock, call>>

\* used: the connection the thread's statement runs on.
\* ran: how often the statement took effect.
\* expiries: tokens that expired during the call, losses: answers lost.
NoCall == [pc |-> "idle", used |-> None, ran |-> 0, expiries |-> 0, losses |-> 0]

AtLock == {"connect", "execute", "reconnect", "reexecute"}
Ended == {"returned", "raised", "refused"}

SqlTypeOK ==
    /\ token \in 1..MaxToken
    /\ expired \in 0..MaxToken
    /\ expired < token
    /\ conn \in {None} \cup 1..MaxToken
    /\ lock \in {None} \cup Threads
    /\ call \in [Threads -> [pc : {"idle", "waiting"} \cup AtLock \cup Ended,
                             used : {None} \cup 1..MaxToken, ran : 0..2,
                             expiries : 0..MaxToken, losses : 0..2]]

SqlInit ==
    /\ token = 1
    /\ expired = 0
    /\ conn = None
    /\ lock = None
    /\ call = [t \in Threads |-> NoCall]

CallBecomes(t, next) == call' = [call EXCEPT ![t] = next]

-----------------------------------------------------------------------------
(* execute_sql.                                                            *)

Call(t) ==
    /\ call[t].pc = "idle"
    /\ CallBecomes(t, [NoCall EXCEPT !.pc = "waiting"])
    /\ UNCHANGED <<token, expired, conn, lock>>

Acquire(t) ==
    /\ call[t].pc = "waiting"
    /\ lock = None
    /\ lock' = t
    /\ CallBecomes(t, [call[t] EXCEPT !.pc = "connect"])
    /\ UNCHANGED <<token, expired, conn>>

\* Mutant: an exception leaves the lock held.
LeaveLocked(t, how) ==
    /\ lock' = lock
    /\ CallBecomes(t, how)

\* The thread leaves the lock: with a result, with an error of the
\* statement's own, or because Snowflake could not be asked.
Leave(t, how) ==
    /\ lock' = None
    /\ CallBecomes(t, how)

\* Mutant: a connection the server has not closed is kept.
AfterErrorKept == conn

\* After any exception of the first attempt.
AfterError == None

\* The first attempt failed: a recoverable failure is tried once more.
\* Mutant: the lock is given up between the attempts.
RetryUnlocked(t, failed) ==
    /\ conn' = AfterError
    /\ lock' = None
    /\ CallBecomes(t, [failed EXCEPT !.pc = "reconnect", !.used = None])

Retry(t, failed) ==
    /\ conn' = AfterError
    /\ lock' = lock
    /\ CallBecomes(t, [failed EXCEPT !.pc = "reconnect", !.used = None])

\* get_connection: a kept connection, or a new one with the token of the
\* file, which has expired in the meantime at worst.  is_closed() may find a
\* kept one closed.  A login that fails is recoverable.
Connect(t) ==
    /\ call[t].pc \in {"connect", "reconnect"}
    /\ LET first == call[t].pc = "connect"
           next == IF first THEN "execute" ELSE "reexecute"
       IN  \/ /\ conn # None
              /\ CallBecomes(t, [call[t] EXCEPT !.pc = next, !.used = conn])
              /\ UNCHANGED <<conn, lock>>
           \/ /\ conn' = token
              /\ CallBecomes(t, [call[t] EXCEPT !.pc = next, !.used = token])
              /\ UNCHANGED lock
           \/ /\ call[t].losses < 2
              /\ LET lost == [call[t] EXCEPT !.losses = @ + 1]
                 IN  IF first THEN Retry(t, lost)
                     ELSE /\ conn' = conn
                          /\ Leave(t, [lost EXCEPT !.pc = "raised"])
    /\ UNCHANGED <<token, expired>>

\* The statement runs and its rows arrive.
Answer(t) ==
    /\ call[t].pc \in {"execute", "reexecute"}
    /\ call[t].used > expired
    /\ Leave(t, [call[t] EXCEPT !.pc = "returned", !.ran = @ + 1])
    /\ UNCHANGED <<token, expired, conn>>

\* Snowflake refuses an expired token and runs nothing.
Refuse(t) ==
    /\ call[t].pc \in {"execute", "reexecute"}
    /\ call[t].used <= expired
    /\ IF call[t].pc = "execute" THEN Retry(t, call[t])
       ELSE Leave(t, [call[t] EXCEPT !.pc = "refused"]) /\ UNCHANGED conn
    /\ UNCHANGED <<token, expired>>

\* Mutant: a statement is repeated until it gets through.
LoseRepeated(t) ==
    /\ call[t].pc \in {"execute", "reexecute"}
    /\ call[t].losses < 2
    /\ \E ran \in (IF call[t].used > expired THEN {0, 1} ELSE {0}) :
           Retry(t, [call[t] EXCEPT !.losses = @ + 1, !.ran = @ + ran])
    /\ UNCHANGED <<token, expired>>

\* The network fails: the statement has run or it has not.
Lose(t) ==
    /\ call[t].pc \in {"execute", "reexecute"}
    /\ call[t].losses < 2
    /\ \E ran \in (IF call[t].used > expired THEN {0, 1} ELSE {0}) :
           LET lost == [call[t] EXCEPT !.losses = @ + 1, !.ran = @ + ran]
           IN  IF call[t].pc = "execute" THEN Retry(t, lost)
               ELSE Leave(t, [lost EXCEPT !.pc = "raised"]) /\ UNCHANGED conn
    /\ UNCHANGED <<token, expired>>

\* Snowflake rejects the statement, or the timeout of the first attempt
\* cancels it: not recoverable.
Reject(t) ==
    /\ call[t].pc \in {"execute", "reexecute"}
    /\ call[t].used > expired
    /\ conn' = (IF call[t].pc = "execute" THEN AfterError ELSE conn)
    /\ Leave(t, [call[t] EXCEPT !.pc = "raised"])
    /\ UNCHANGED <<token, expired>>

Return(t) ==
    /\ call[t].pc \in Ended
    /\ CallBecomes(t, NoCall)
    /\ UNCHANGED <<token, expired, conn, lock>>

CallStep(t) ==
    \/ Acquire(t) \/ Connect(t) \/ Answer(t) \/ Refuse(t) \/ Lose(t)
    \/ Reject(t) \/ Return(t)

-----------------------------------------------------------------------------
(* The platform.                                                           *)

Rotate ==
    /\ token < MaxToken
    /\ token' = token + 1
    /\ UNCHANGED <<expired, conn, lock, call>>

Expire ==
    /\ expired + 1 < token
    /\ expired' = token - 1
    /\ call' = [t \in Threads |->
                   IF call[t].pc \in {"waiting"} \cup AtLock
                   THEN [call[t] EXCEPT !.expiries = @ + 1] ELSE call[t]]
    /\ UNCHANGED <<token, conn, lock>>

SqlNext == Rotate \/ Expire \/ \E t \in Threads : Call(t) \/ CallStep(t)

SqlSpec == SqlInit /\ [][SqlNext]_sqlVars

\* Every attempt ends, and the lock passes to each waiting thread in the end.
SqlFairness ==
    \A t \in Threads : WF_sqlVars(CallStep(t)) /\ SF_sqlVars(Acquire(t))

SqlFairSpec == SqlSpec /\ SqlFairness

-----------------------------------------------------------------------------
(* Properties.                                                             *)

\* The connector is not thread-safe: no two threads use the connection at
\* once, the retries included.
ConnectionExclusive ==
    \A t, u \in Threads :
        call[t].pc \in AtLock /\ call[u].pc \in AtLock => t = u

\* A rotated token costs a call nothing but its retry: a call is refused for
\* good only when a token expired while it was under way.
RotationHidden ==
    \A t \in Threads : call[t].pc = "refused" => call[t].expiries > 0

\* Whatever fails, the lock is given up: every call gets its turn and ends.
CallsEnd == \A t \in Threads : call[t].pc = "waiting" ~> call[t].pc \in Ended
=============================================================================
