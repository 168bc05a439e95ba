----------------------------- MODULE EgressWatch -----------------------------
(***************************************************************************)
(* The watch over the expiry of the account's egress addresses             *)
(* (egress_watch.py) and the routes that share its rows of internal_config.*)
(* One asyncio task fetches, stores, perhaps sends the alert, sleeps for a *)
(* day and starts again; requests are served by other threads between any  *)
(* two of its statements.  Every statement may fail, and the controller may*)
(* restart at any point and then watches at once.                          *)
(*                                                                         *)
(* Time passes in half days.  A time is a number of half days, a date the  *)
(* day it falls in.  Snowflake moves the expiry when it rotates addresses. *)
(***************************************************************************)
EXTENDS Integers

CONSTANTS
    Expiries,      \* the times at which the addresses of a rotation expire
    AckDates,      \* dates operators acknowledge through
    AlertDays,     \* ALERT_THRESHOLD_DAYS
    WarningDays,   \* WARNING_THRESHOLD_DAYS
    Horizon,       \* bound: the last time considered
    MaxFailures,   \* bound: failed statements and restarts
    None

ASSUME WatchAssumption ==
    /\ Expiries \subseteq Nat /\ Expiries # {}
    /\ AckDates \subseteq Nat
    /\ AlertDays \in Nat /\ WarningDays \in Nat
    /\ Horizon \in Nat /\ MaxFailures \in Nat
    /\ None \notin Nat

VARIABLES
    clock,     \* the time
    expiry,    \* the earliest expiry Snowflake reports
    config,    \* the rows of internal_config
    watch,     \* the task of run_loop
    form,      \* a request that has still to store the recipients
    mails,     \* how many alerts have been sent for each date
    lost,      \* how many sends of each date have left no or a doubled trace
    failures,  \* how many of them there have been
    unsent     \* since when an alert is due and none has gone out

vars == <<clock, expiry, config, watch, form, mails, lost, failures, unsent>>

Day == 2
DateOf(time) == time \div Day
Dates == 0..DateOf(Horizon)

Config == [expiry : Expiries \cup {None}, integration : BOOLEAN,
           recipients : BOOLEAN, ack : AckDates \cup {None},
           lastSent : Dates \cup {None}]

\* since: when the iteration or the sleep began; today: the date the alert is
\* for; stored: this iteration has stored the expiry; raced: a request has
\* written the configuration since it began.
Watch == [pc : {"fetch", "store_expiry", "integration", "recipients",
                "ack", "last", "send", "store_last", "asleep"},
          found : Expiries \cup {None}, today : Dates, since : 0..Horizon,
          stored : BOOLEAN, raced : BOOLEAN]

TypeOK ==
    /\ clock \in 0..Horizon
    /\ expiry \in Expiries
    /\ config \in Config
    /\ watch \in Watch
    /\ form \in {"idle", "set", "clear"}
    /\ mails \in [Dates -> Nat]
    /\ lost \in [Dates -> Nat]
    /\ failures \in 0..MaxFailures
    /\ unsent \in 0..Horizon \cup {None}

Init ==
    /\ clock = 0
    /\ expiry \in Expiries
    /\ config = [expiry |-> None, integration |-> FALSE, recipients |-> FALSE,
                 ack |-> None, lastSent |-> None]
    /\ watch = [pc |-> "fetch", found |-> None, today |-> 0, since |-> 0,
                stored |-> FALSE, raced |-> FALSE]
    /\ form = "idle"
    /\ mails = [d \in Dates |-> 0]
    /\ lost = [d \in Dates |-> 0]
    /\ failures = 0
    /\ unsent = None

\* Something fails; a run of the model sees at most MaxFailures of these.
Failing ==
    /\ failures < MaxFailures
    /\ failures' = failures + 1

-----------------------------------------------------------------------------
(* What the rows say.                                                      *)

\* Whole days left, negative once the expiry has passed.
DaysRemaining(time) == IF time = None THEN None ELSE (time - clock) \div Day

IsAcknowledged(time, ack) ==
    time # None /\ ack # None /\ DateOf(time) <= ack

\* get_egress_warning: the banner of the Apps page.
Warn ==
    /\ config.expiry # None
    /\ DaysRemaining(config.expiry) < WarningDays
    /\ ~IsAcknowledged(config.expiry, config.ack)

-----------------------------------------------------------------------------
(* run_iteration.                                                          *)

At(pc) == watch.pc = pc
Goto(pc) == watch' = [watch EXCEPT !.pc = pc]
Sleep == watch' = [watch EXCEPT !.pc = "asleep", !.since = clock]

\* The client answers a failure with no ranges, and no ranges have no expiry.
Fetch ==
    /\ At("fetch")
    /\ \E found \in {expiry, None} :
           /\ watch' = [watch EXCEPT !.pc = "store_expiry", !.found = found]
           /\ IF found = None THEN Failing ELSE UNCHANGED failures
    /\ UNCHANGED <<config, mails, lost>>

\* Storing no expiry deletes the row.  The ranges, stored next, are only
\* shown.  Whatever fails, the alert is tried.
StoreExpiry ==
    /\ At("store_expiry")
    /\ \/ /\ config' = [config EXCEPT !.expiry = watch.found]
          /\ watch' = [watch EXCEPT !.pc = "integration", !.stored = TRUE]
          /\ UNCHANGED failures
       \/ /\ Goto("integration")
          /\ Failing
          /\ UNCHANGED config
    /\ UNCHANGED <<mails, lost>>

ReadIntegration ==
    /\ At("integration")
    /\ IF config.integration THEN Goto("recipients") ELSE Sleep
    /\ UNCHANGED <<config, mails, lost, failures>>

AlertIsNear ==
    /\ watch.found # None
    /\ DaysRemaining(watch.found) <= AlertDays

ReadRecipients ==
    /\ At("recipients")
    /\ IF config.recipients /\ AlertIsNear THEN Goto("ack") ELSE Sleep
    /\ UNCHANGED <<config, mails, lost, failures>>

\* Mutant: the acknowledgement is not asked for.
ReadAckIgnoring ==
    /\ At("ack")
    /\ watch' = [watch EXCEPT !.pc = "last", !.today = DateOf(clock)]
    /\ UNCHANGED <<config, mails, lost, failures>>

ReadAck ==
    /\ At("ack")
    /\ IF IsAcknowledged(watch.found, config.ack) THEN Sleep
       ELSE watch' = [watch EXCEPT !.pc = "last", !.today = DateOf(clock)]
    /\ UNCHANGED <<config, mails, lost, failures>>

\* Mutant: a restart sends the alert again.
ReadLastSentIgnoring ==
    /\ At("last")
    /\ Goto("send")
    /\ UNCHANGED <<config, mails, lost, failures>>

\* Mutant: one alert, ever.
ReadLastSentAnyDate ==
    /\ At("last")
    /\ IF config.lastSent # None THEN Sleep ELSE Goto("send")
    /\ UNCHANGED <<config, mails, lost, failures>>

ReadLastSent ==
    /\ At("last")
    /\ IF config.lastSent = watch.today THEN Sleep ELSE Goto("send")
    /\ UNCHANGED <<config, mails, lost, failures>>

Sent(n) == mails' = [mails EXCEPT ![watch.today] = @ + n]
Lost == lost' = [lost EXCEPT ![watch.today] = @ + 1]

\* A send that reports a failure may have happened, and a lost connection
\* makes the client send again.
SendAlert ==
    /\ At("send")
    /\ \/ Goto("store_last") /\ Sent(1) /\ UNCHANGED <<lost, failures>>
       \/ Goto("store_last") /\ Sent(2) /\ Lost /\ Failing
       \/ Sleep /\ Sent(1) /\ Lost /\ Failing
       \/ Sleep /\ Failing /\ UNCHANGED <<mails, lost>>
    /\ UNCHANGED config

\* Mutant: the time of the alert is stored instead of its date.
StoreLastSentTime ==
    /\ At("store_last")
    /\ Sleep
    /\ config' = [config EXCEPT !.lastSent = clock]
    /\ UNCHANGED <<mails, lost, failures>>

StoreLastSent ==
    /\ At("store_last")
    /\ Sleep
    /\ \/ /\ config' = [config EXCEPT !.lastSent = watch.today]
          /\ UNCHANGED <<lost, failures>>
       \/ Lost /\ Failing /\ UNCHANGED config
    /\ UNCHANGED mails

\* A statement that reads fails: the iteration is over.
ReadFails ==
    /\ watch.pc \in {"integration", "recipients", "ack", "last"}
    /\ Sleep
    /\ Failing
    /\ UNCHANGED <<config, mails, lost>>

\* asyncio.sleep has returned.
Wake ==
    /\ At("asleep")
    /\ clock >= watch.since + Day
    /\ watch' = [watch EXCEPT !.pc = "fetch", !.since = clock, !.stored = FALSE,
                              !.raced = FALSE]
    /\ UNCHANGED <<config, mails, lost, failures>>

WatchStep ==
    /\ \/ Fetch \/ StoreExpiry \/ ReadIntegration \/ ReadRecipients
       \/ ReadAck \/ ReadLastSent \/ SendAlert
       \/ StoreLastSent \/ ReadFails \/ Wake
    /\ UNCHANGED <<clock, expiry, form>>

-----------------------------------------------------------------------------
(* Requests.                                                               *)

Raced == watch' = [watch EXCEPT !.raced = TRUE]

Acknowledge ==
    /\ \E date \in AckDates : config' = [config EXCEPT !.ack = date]
    /\ Raced
    /\ UNCHANGED <<clock, expiry, form, mails, lost, failures>>

\* set_egress_alert_config is two statements; the second may never come.
StoreIntegration ==
    /\ form = "idle"
    /\ \E on \in BOOLEAN : config' = [config EXCEPT !.integration = on]
    /\ form' \in {"set", "clear"}
    /\ Raced
    /\ UNCHANGED <<clock, expiry, mails, lost, failures>>

StoreRecipients ==
    /\ form # "idle"
    /\ form' = "idle"
    /\ \/ /\ config' = [config EXCEPT !.recipients = (form = "set")]
          /\ Raced
          /\ UNCHANGED failures
       \/ Failing /\ UNCHANGED <<config, watch>>
    /\ UNCHANGED <<clock, expiry, mails, lost>>

-----------------------------------------------------------------------------
(* The surroundings.                                                       *)

\* A restart starts an iteration at once; an alert just sent is forgotten.
Restart ==
    /\ watch' = [watch EXCEPT !.pc = "fetch", !.since = clock, !.stored = FALSE,
                              !.raced = FALSE]
    /\ form' = "idle"
    /\ Failing
    /\ IF At("store_last") THEN Lost ELSE UNCHANGED lost
    /\ UNCHANGED <<clock, expiry, config, mails>>

\* An iteration sees no two half days pass: its few statements have a minute each,
\* a second attempt as long as the connector keeps it (assumed: under half a day).
\* The sleep ends when it is over.
Tick ==
    /\ clock < Horizon
    /\ clock < watch.since + (IF At("asleep") THEN Day ELSE 1)
    /\ clock' = clock + 1
    /\ UNCHANGED <<expiry, config, watch, form, mails, lost, failures>>

\* Snowflake rotates the addresses to some that expire later.
Rotate ==
    /\ expiry' \in {time \in Expiries : time > expiry}
    /\ UNCHANGED <<clock, config, watch, form, mails, lost, failures>>

\* An alert about the addresses in use is due.
Due ==
    /\ config.integration /\ config.recipients
    /\ DaysRemaining(expiry) <= AlertDays
    /\ ~IsAcknowledged(expiry, config.ack)

\* The time counts from the last alert, or from when one became due.
CountUnsent ==
    unsent' = IF ~Due' THEN None
              ELSE IF unsent = None \/ mails' # mails \/ expiry' # expiry
                   THEN clock'
              ELSE unsent

Next ==
    /\ \/ WatchStep
       \/ Acknowledge \/ StoreIntegration \/ StoreRecipients
       \/ Restart \/ Tick \/ Rotate
    /\ CountUnsent

Spec == Init /\ [][Next]_vars

-----------------------------------------------------------------------------
(* Properties.                                                             *)

\* A date gets one alert, and one more for each send of that date that left
\* no trace or a doubled one; and no date is recorded without an alert.
AlertOncePerDay ==
    /\ \A d \in Dates : mails[d] <= 1 + lost[d]
    /\ config.lastSent # None => mails[config.lastSent] >= 1

\* Nobody is alerted who has switched alerts off, or about an expiry that is
\* acknowledged, unless the request came after the iteration had begun; and
\* an alert about the last days is not contradicted by a silent banner.
AlertJustified ==
    At("send") /\ ~watch.raced =>
        /\ config.integration /\ config.recipients
        /\ ~IsAcknowledged(watch.found, config.ack)
        /\ watch.stored /\ DaysRemaining(watch.found) < WarningDays => Warn

\* While an alert is due, one goes out every other day at the latest, and a
\* day and a half later for every failure: no restart, no failure, no earlier
\* alert and no settled acknowledgement of older addresses silences the watch
\* for good.
AlertInTime ==
    unsent # None => clock - unsent <= 2 * Day + 3 * failures
=============================================================================
