--------------------------- MODULE CallerIdentity ---------------------------
(***************************************************************************)
(* Who a request to the Controller comes from, and what it may do          *)
(* (Controller/app/auth.py, and auth.py of the Admin UI).                  *)
(*                                                                         *)
(* A machine client presents its Snowflake token: the Controller asks      *)
(* Snowflake for the roles of the token's user and keeps the answer for a  *)
(* while.  The lock of the cache is not held over the query, so two        *)
(* requests with one token may both ask.  An operator comes through the    *)
(* Admin UI, which has asked for the roles itself when the browser session *)
(* began and vouches for them; the Controller believes it when it presents *)
(* the token the two services share.                                       *)
(*                                                                         *)
(* Snowflake is external.  Time is counted in ticks of the monotonic       *)
(* clock; the roles of the one user change between ticks.                  *)
(***************************************************************************)
EXTENDS Integers, Sequences

CONSTANTS
    Requests,     \* threads that serve requests
    Tokens,       \* the tokens the user's machine clients present
    Roles,        \* account roles
    Privileged,   \* PRIVILEGED_ROLES
    OwnerRole,    \* the owner_role of the app every request is about
    IdentityTtl,  \* _IDENTITY_CACHE_TTL_SECS
    MaxTicks,     \* bound on the clock
    NoEntry       \* what the cache answers when it has none

ASSUME IdentityAssumption ==
    /\ IdentityTtl \in Nat \ {0}
    /\ MaxTicks \in Nat \ {0}
    /\ Privileged \subseteq Roles
    /\ OwnerRole \in Roles
    /\ NoEntry \notin [ts : Nat, roles : SUBSET Roles]

VARIABLES
    held,      \* the roles the user held at each tick up to now
    cache,     \* _identity_cache, by token
    browser,   \* the operator's browser session: the roles it vouches for
    req        \* the requests under way

identityVars == <<held, cache, browser, req>>

clock == Len(held)

Entries == [ts : 1..MaxTicks, roles : SUBSET Roles]

NoRequest == [pc |-> "idle", token |-> NoEntry, start |-> 1, roles |-> {},
              failed |-> FALSE]

NoBrowser == [open |-> FALSE, since |-> 1, roles |-> {}]

IdentityTypeOK ==
    /\ held \in Seq(SUBSET Roles) /\ Len(held) \in 1..MaxTicks
    /\ cache \in [Tokens -> Entries \cup {NoEntry}]
    /\ browser \in [open : BOOLEAN, since : 1..MaxTicks, roles : SUBSET Roles]
    /\ req \in [Requests ->
                   [pc : {"idle", "lookup", "query", "store", "served", "vouched"},
                    token : Tokens \cup {NoEntry}, start : 1..MaxTicks,
                    roles : SUBSET Roles, failed : BOOLEAN]]

IdentityInit ==
    /\ \E roles \in SUBSET Roles : held = <<roles>>
    /\ cache = [k \in Tokens |-> NoEntry]
    /\ browser = NoBrowser
    /\ req = [r \in Requests |-> NoRequest]

ReqBecomes(r, next) == req' = [req EXCEPT ![r] = next]

-----------------------------------------------------------------------------
(* The public path: _cached_identity.                                      *)

Present(r) ==
    /\ req[r].pc = "idle"
    /\ \E k \in Tokens :
           ReqBecomes(r, [NoRequest EXCEPT !.pc = "lookup", !.token = k,
                                           !.start = clock])
    /\ UNCHANGED <<held, cache, browser>>

Fresh(entry, at) == entry # NoEntry /\ at - entry.ts < IdentityTtl

LookUp(r) ==
    /\ req[r].pc = "lookup"
    /\ LET entry == cache[req[r].token]
       IN  IF Fresh(entry, req[r].start)
           THEN ReqBecomes(r, [req[r] EXCEPT !.pc = "served", !.roles = entry.roles])
           ELSE ReqBecomes(r, [req[r] EXCEPT !.pc = "query"])
    /\ UNCHANGED <<held, cache, browser>>

\* Snowflake answers with the roles of this moment.
Query(r) ==
    /\ req[r].pc = "query"
    /\ ReqBecomes(r, [req[r] EXCEPT !.pc = "store", !.roles = held[clock]])
    /\ UNCHANGED <<held, cache, browser>>

\* Mutant: that a caller has no roles is kept like any other answer.
QueryFailsCached(r) ==
    /\ req[r].pc = "query"
    /\ cache' = [cache EXCEPT ![req[r].token] = [ts |-> req[r].start, roles |-> {}]]
    /\ ReqBecomes(r, [req[r] EXCEPT !.pc = "served", !.failed = TRUE])
    /\ UNCHANGED <<held, browser>>

\* A caller that cannot be resolved has no roles.
QueryFails(r) ==
    /\ req[r].pc = "query"
    /\ ReqBecomes(r, [req[r] EXCEPT !.pc = "served", !.failed = TRUE])
    /\ UNCHANGED <<held, cache, browser>>

\* Mutant: the entry is as old as its storing, not as its request.
StampedNow(r) == clock

\* The time an entry is counted from.
Stamped(r) == req[r].start

\* Entries that had expired when the request began are dropped.
Store(r) ==
    /\ req[r].pc = "store"
    /\ cache' = [k \in Tokens |->
                    IF k = req[r].token
                    THEN [ts |-> Stamped(r), roles |-> req[r].roles]
                    ELSE IF Fresh(cache[k], req[r].start) THEN cache[k] ELSE NoEntry]
    /\ ReqBecomes(r, [req[r] EXCEPT !.pc = "served"])
    /\ UNCHANGED <<held, browser>>

-----------------------------------------------------------------------------
(* The internal path: the Admin UI vouches.                                *)

\* The session resolves the operator's roles once; failing, it vouches for
\* none as long as it lives.
OpenBrowser ==
    /\ ~browser.open
    /\ \E resolved \in BOOLEAN :
           browser' = [open |-> TRUE, since |-> clock,
                       roles |-> IF resolved THEN held[clock] ELSE {}]
    /\ UNCHANGED <<held, cache, req>>

CloseBrowser ==
    /\ browser.open
    /\ browser' = NoBrowser
    /\ UNCHANGED <<held, cache, req>>

\* The header counts only with the token the two services share; a request
\* without it gets no roles.
Vouch(r) ==
    /\ req[r].pc = "idle"
    /\ \E internal \in BOOLEAN :
           /\ internal => browser.open
           /\ ReqBecomes(r, [NoRequest EXCEPT
                  !.pc = "vouched",
                  !.start = IF internal THEN browser.since ELSE clock,
                  !.roles = IF internal THEN browser.roles ELSE {}])
    /\ UNCHANGED <<held, cache, browser>>

-----------------------------------------------------------------------------

Reply(r) ==
    /\ req[r].pc \in {"served", "vouched"}
    /\ ReqBecomes(r, NoRequest)
    /\ UNCHANGED <<held, cache, browser>>

\* A tick passes, and the user's roles change or stay.
PassTick ==
    /\ clock < MaxTicks
    /\ \E roles \in SUBSET Roles : held' = Append(held, roles)
    /\ UNCHANGED <<cache, browser, req>>

\* A restart of the Controller empties the cache and drops its requests.
RestartCache ==
    /\ cache' = [k \in Tokens |-> NoEntry]
    /\ req' = [r \in Requests |-> NoRequest]
    /\ UNCHANGED <<held, browser>>

RequestStep(r) ==
    \/ Present(r) \/ LookUp(r) \/ Query(r) \/ QueryFails(r) \/ Store(r)
    \/ Vouch(r) \/ Reply(r)

IdentityNext ==
    \/ \E r \in Requests : RequestStep(r)
    \/ OpenBrowser \/ CloseBrowser \/ PassTick \/ RestartCache

IdentitySpec == IdentityInit /\ [][IdentityNext]_identityVars

-----------------------------------------------------------------------------
(* Properties.                                                             *)

\* authorize: what a request may do with the app.
Authorized(roles) == roles \cap Privileged # {} \/ OwnerRole \in roles

\* A machine client is let in only if its user would have been at some
\* moment less than the cache's lifetime before the request, or since: a
\* role taken away longer ago is worth nothing, however the queries of
\* several requests overlap.  An operator is let in only if he would have
\* been at some moment of his browser session.
RevocationBounded ==
    \A r \in Requests :
        req[r].pc \in {"served", "vouched"} /\ Authorized(req[r].roles) =>
            \E i \in 1..clock :
                /\ i > req[r].start - (IF req[r].pc = "served" THEN IdentityTtl ELSE 1)
                /\ Authorized(held[i])

\* A failed query is not remembered: who held a role during the cache's
\* lifetime and ever since is refused only by the failure of his own request.
FailureNotRemembered ==
    \A r \in Requests :
        req[r].pc = "served" /\ ~req[r].failed /\ ~Authorized(req[r].roles) =>
            \E i \in 1..clock :
                /\ i > req[r].start - IdentityTtl
                /\ ~Authorized(held[i])
=============================================================================
