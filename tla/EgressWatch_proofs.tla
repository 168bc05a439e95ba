------------------------- MODULE EgressWatch_proofs -------------------------
(***************************************************************************)
(* Proofs about EgressWatch, for any horizon and any number of failures:   *)
(* its types, that a date gets one alert, that alerts are justified, and   *)
(* that they come in time.                                                 *)
(***************************************************************************)
EXTENDS EgressWatch, TLAPS

\* Times up to the horizon have dates, later times no earlier ones.
LEMMA Dated ==
    ASSUME NEW time \in 0..Horizon
    PROVE  DateOf(time) \in Dates
  BY WatchAssumption DEF DateOf, Dates, Day

LEMMA LaterDate ==
    ASSUME NEW time \in Nat
    PROVE  DateOf(time) <= DateOf(time + 1)
  BY DEF DateOf, Day

\* What a step of the task may leave in its record.
LEMMA WatchMoves ==
    ASSUME TypeOK
    PROVE  /\ \A pc \in {"integration", "recipients", "ack", "send", "store_last"} :
                 [watch EXCEPT !.pc = pc] \in Watch
           /\ [watch EXCEPT !.pc = "asleep", !.since = clock] \in Watch
           /\ [watch EXCEPT !.raced = TRUE] \in Watch
           /\ [watch EXCEPT !.pc = "fetch", !.since = clock, !.stored = FALSE,
                            !.raced = FALSE] \in Watch
  BY DEF TypeOK, Watch

LEMMA CountTyped ==
    ASSUME CountUnsent, clock' \in 0..Horizon, unsent \in 0..Horizon \cup {None}
    PROVE  unsent' \in 0..Horizon \cup {None}
  BY DEF CountUnsent

\* The variables keep their types.
THEOREM TypeCorrect == Spec => []TypeOK
<1>1. Init => TypeOK
  <2> SUFFICES ASSUME Init PROVE TypeOK
    OBVIOUS
  <2>1. 0 \in 0..Horizon /\ 0 \in Dates /\ 0 \in 0..MaxFailures
    BY WatchAssumption DEF Dates, DateOf, Day
  <2>2. config \in Config /\ watch \in Watch
    BY <2>1 DEF Init, Config, Watch
  <2> QED BY <2>1, <2>2 DEF Init, TypeOK
<1>2. TypeOK /\ [Next]_vars => TypeOK'
  <2> SUFFICES ASSUME TypeOK, [Next]_vars PROVE TypeOK'
    OBVIOUS
  <2> DEFINE Typed == /\ clock' \in 0..Horizon
                      /\ expiry' \in Expiries
                      /\ config' \in Config
                      /\ watch' \in Watch
                      /\ form' \in {"idle", "set", "clear"}
                      /\ mails' \in [Dates -> Nat]
                      /\ lost' \in [Dates -> Nat]
                      /\ failures' \in 0..MaxFailures
  <2>0. Failing => failures' \in 0..MaxFailures
    BY WatchAssumption DEF Failing, TypeOK
  <2>1. ASSUME WatchStep PROVE Typed
    <3>0. UNCHANGED <<clock, expiry, form>>
      BY <2>1 DEF WatchStep
    <3> SUFFICES /\ config' \in Config /\ watch' \in Watch
                 /\ mails' \in [Dates -> Nat] /\ lost' \in [Dates -> Nat]
                 /\ failures' \in 0..MaxFailures
      BY <3>0 DEF TypeOK
    <3>1. CASE Fetch
      <4>1. PICK found \in {expiry, None} :
               watch' = [watch EXCEPT !.pc = "store_expiry", !.found = found]
        BY <3>1 DEF Fetch
      <4>2. watch' \in Watch
        BY <4>1 DEF TypeOK, Watch
      <4>3. failures' \in 0..MaxFailures
        BY <2>0, <3>1 DEF Fetch, TypeOK
      <4> QED BY <3>1, <4>2, <4>3 DEF Fetch, TypeOK
    <3>2. CASE StoreExpiry
      <4>1. [watch EXCEPT !.pc = "integration", !.stored = TRUE] \in Watch
        BY DEF TypeOK, Watch
      <4>2. [config EXCEPT !.expiry = watch.found] \in Config
        BY DEF TypeOK, Config, Watch
      <4> QED BY <2>0, <3>2, <4>1, <4>2, WatchMoves DEF StoreExpiry, Goto, TypeOK
    <3>3. CASE ReadIntegration
      BY <3>3, WatchMoves DEF ReadIntegration, Goto, Sleep, TypeOK
    <3>4. CASE ReadRecipients
      BY <3>4, WatchMoves DEF ReadRecipients, Goto, Sleep, TypeOK
    <3>5. CASE ReadAck
      <4>1. [watch EXCEPT !.pc = "last", !.today = DateOf(clock)] \in Watch
        BY Dated DEF TypeOK, Watch
      <4> QED BY <3>5, <4>1, WatchMoves DEF ReadAck, Sleep, TypeOK
    <3>6. CASE ReadLastSent
      BY <3>6, WatchMoves DEF ReadLastSent, Goto, Sleep, TypeOK
    <3>7. CASE SendAlert
      <4>1. watch.today \in Dates
        BY DEF TypeOK, Watch
      <4>2. \A n \in Nat : Sent(n) => mails' \in [Dates -> Nat]
        BY <4>1 DEF Sent, TypeOK
      <4>3. Lost => lost' \in [Dates -> Nat]
        BY <4>1 DEF Lost, TypeOK
      <4> QED BY <2>0, <3>7, <4>2, <4>3, WatchMoves DEF SendAlert, Goto, Sleep, TypeOK
    <3>8. CASE StoreLastSent
      <4>1. watch.today \in Dates
        BY DEF TypeOK, Watch
      <4>2. [config EXCEPT !.lastSent = watch.today] \in Config
        BY <4>1 DEF TypeOK, Config
      <4>3. Lost => lost' \in [Dates -> Nat]
        BY <4>1 DEF Lost, TypeOK
      <4> QED BY <2>0, <3>8, <4>2, <4>3, WatchMoves DEF StoreLastSent, Sleep, TypeOK
    <3>9. CASE ReadFails
      BY <2>0, <3>9, WatchMoves DEF ReadFails, Sleep, TypeOK
    <3>10. CASE Wake
      BY <3>10, WatchMoves DEF Wake, TypeOK
    <3> QED
      BY <2>1, <3>1, <3>2, <3>3, <3>4, <3>5, <3>6, <3>7, <3>8, <3>9, <3>10
         DEF WatchStep
  <2>2. ASSUME Acknowledge PROVE Typed
    <3>1. \A date \in AckDates : [config EXCEPT !.ack = date] \in Config
      BY DEF TypeOK, Config
    <3> QED BY <2>2, <3>1, WatchMoves DEF Acknowledge, Raced, TypeOK
  <2>3. ASSUME StoreIntegration PROVE Typed
    <3>1. \A on \in BOOLEAN : [config EXCEPT !.integration = on] \in Config
      BY DEF TypeOK, Config
    <3> QED BY <2>3, <3>1, WatchMoves DEF StoreIntegration, Raced, TypeOK
  <2>4. ASSUME StoreRecipients PROVE Typed
    <3>1. \A on \in BOOLEAN : [config EXCEPT !.recipients = on] \in Config
      BY DEF TypeOK, Config
    <3>2. (form = "set") \in BOOLEAN
      OBVIOUS
    <3> QED BY <2>0, <2>4, <3>1, <3>2, WatchMoves DEF StoreRecipients, Raced, TypeOK
  <2>5. ASSUME Restart PROVE Typed
    <3>1. Lost => lost' \in [Dates -> Nat]
      BY DEF Lost, TypeOK, Watch
    <3> QED BY <2>0, <2>5, <3>1, WatchMoves DEF Restart, TypeOK
  <2>6. ASSUME Tick PROVE Typed
    BY <2>6, WatchAssumption DEF Tick, TypeOK
  <2>7. ASSUME Rotate PROVE Typed
    BY <2>7 DEF Rotate, TypeOK
  <2>8. CASE Next
    <3>1. Typed
      BY <2>1, <2>2, <2>3, <2>4, <2>5, <2>6, <2>7, <2>8 DEF Next
    <3>2. unsent' \in 0..Horizon \cup {None}
      BY <2>8, <3>1, CountTyped DEF Next, TypeOK
    <3> QED BY <3>1, <3>2 DEF TypeOK
  <2>9. CASE UNCHANGED vars
    BY <2>9 DEF vars, TypeOK
  <2> QED BY <2>8, <2>9
<1> QED
  BY <1>1, <1>2, PTL DEF Spec

-----------------------------------------------------------------------------
(* One alert for a date.                                                   *)

\* The dates stored and worked on only go forward.
Forward ==
    /\ config.lastSent # None => config.lastSent <= DateOf(clock)
    /\ watch.pc \in {"last", "send", "store_last"} => watch.today <= DateOf(clock)
    /\ watch.pc \in {"last", "send", "store_last"} /\ config.lastSent # None
          => config.lastSent <= watch.today
    /\ watch.pc = "send" => config.lastSent # watch.today

\* A date that is recorded, or about to be, has had its alert.
Recorded ==
    /\ config.lastSent # None => mails[config.lastSent] >= 1
    /\ watch.pc = "store_last" => mails[watch.today] >= 1

\* Date d is still to be recorded: neither stored as the last nor about to be.
Unrecorded(d) ==
    /\ config.lastSent # None => d > config.lastSent
    /\ ~(watch.pc = "store_last" /\ watch.today = d)

\* An unrecorded date has no alerts but those whose sending left no trace.
Counted ==
    \A d \in Dates : /\ mails[d] <= 1 + lost[d]
                     /\ Unrecorded(d) => mails[d] <= lost[d]

CountInv == Forward /\ Recorded /\ Counted

LEMMA Typing ==
    ASSUME TypeOK
    PROVE  /\ clock \in Nat /\ DateOf(clock) \in Nat
           /\ Dates \subseteq Nat /\ None \notin Dates
           /\ watch.today \in Dates
           /\ config.lastSent \in Dates \cup {None}
           /\ mails \in [Dates -> Nat] /\ lost \in [Dates -> Nat]
<1>1. clock \in Nat /\ Dates \subseteq Nat
  BY WatchAssumption DEF TypeOK, Dates
<1>2. DateOf(clock) \in Dates
  BY Dated DEF TypeOK
<1>3. watch.today \in Dates /\ config.lastSent \in Dates \cup {None}
  BY DEF TypeOK, Watch, Config
<1> QED
  BY <1>1, <1>2, <1>3, WatchAssumption DEF TypeOK

\* A step that keeps the dates and the alerts keeps the counts.
LEMMA CountKept ==
    ASSUME CountInv, UNCHANGED <<clock, mails, lost>>,
           config'.lastSent = config.lastSent, watch'.today = watch.today,
           \/ watch'.pc = watch.pc
           \/ watch'.pc \notin {"last", "send", "store_last"} /\ watch.pc # "store_last"
    PROVE  CountInv'
<1>1. Forward' /\ Recorded'
  BY DEF CountInv, Forward, Recorded
<1>2. \A d : Unrecorded(d)' => Unrecorded(d)
  BY DEF Unrecorded
<1>3. Counted'
  BY <1>2 DEF CountInv, Counted
<1> QED
  BY <1>1, <1>3 DEF CountInv

LEMMA SendCounted ==
    ASSUME TypeOK, CountInv, SendAlert, UNCHANGED clock
    PROVE  CountInv'
<1> DEFINE today == watch.today
           last == config.lastSent
<1>1. /\ watch.pc = "send" /\ config' = config /\ watch'.today = today
      /\ \/ watch'.pc = "store_last" /\ Sent(1) /\ UNCHANGED lost
         \/ watch'.pc = "store_last" /\ Sent(2) /\ Lost
         \/ watch'.pc = "asleep" /\ Sent(1) /\ Lost
         \/ watch'.pc = "asleep" /\ UNCHANGED <<mails, lost>>
  BY DEF SendAlert, At, Goto, Sleep, TypeOK, Watch
<1>2. today \in Nat /\ (last # None => last \in Nat /\ last < today)
  BY <1>1, Typing DEF CountInv, Forward
<1>3. mails[today] <= lost[today]
  <2>1. Unrecorded(today)
    BY <1>1, <1>2 DEF Unrecorded
  <2> QED BY <2>1, Typing DEF CountInv, Counted
<1>4. Forward'
  BY <1>1, <1>2, Typing DEF CountInv, Forward
<1>5. /\ mails'[today] >= mails[today] /\ mails'[today] <= 1 + lost'[today]
      /\ watch'.pc = "store_last" => mails'[today] >= 1
      /\ watch'.pc # "store_last" => mails'[today] <= lost'[today]
      /\ mails[today] \in Nat /\ mails'[today] \in Nat /\ lost'[today] \in Nat
      /\ \A d \in Dates : d # today => mails'[d] = mails[d] /\ lost'[d] = lost[d]
  <2>1. CASE Sent(1) /\ UNCHANGED lost /\ watch'.pc = "store_last"
    BY <1>3, <2>1, Typing DEF Sent
  <2>2. CASE Sent(2) /\ Lost /\ watch'.pc = "store_last"
    BY <1>3, <2>2, Typing DEF Sent, Lost
  <2>3. CASE Sent(1) /\ Lost /\ watch'.pc = "asleep"
    BY <1>3, <2>3, Typing DEF Sent, Lost
  <2>4. CASE UNCHANGED <<mails, lost>> /\ watch'.pc = "asleep"
    BY <1>3, <2>4, Typing
  <2> QED BY <1>1, <2>1, <2>2, <2>3, <2>4
<1>6. Recorded'
  BY <1>1, <1>2, <1>5, Typing DEF CountInv, Recorded
<1>7. Counted'
  <2> SUFFICES ASSUME NEW d \in Dates
               PROVE  /\ mails'[d] <= 1 + lost'[d]
                      /\ Unrecorded(d)' => mails'[d] <= lost'[d]
    BY DEF Counted
  <2>1. CASE d = today
    BY <1>1, <1>5, <2>1 DEF Unrecorded
  <2>2. CASE d # today
    <3>1. Unrecorded(d)' => Unrecorded(d)
      BY <1>1 DEF Unrecorded
    <3> QED BY <1>5, <2>2, <3>1 DEF CountInv, Counted
  <2> QED BY <2>1, <2>2
<1> QED
  BY <1>4, <1>6, <1>7 DEF CountInv

LEMMA StoreCounted ==
    ASSUME TypeOK, CountInv, StoreLastSent, UNCHANGED clock
    PROVE  CountInv'
<1> DEFINE today == watch.today
           last == config.lastSent
<1>1. /\ watch.pc = "store_last" /\ watch'.pc = "asleep" /\ mails' = mails
      /\ \/ config'.lastSent = today /\ lost' = lost
         \/ Lost /\ config' = config
  BY DEF StoreLastSent, At, Sleep, TypeOK, Watch, Config
<1>2. /\ today \in Nat /\ today <= DateOf(clock)
      /\ last # None => last \in Nat /\ last <= today
  BY <1>1, Typing DEF CountInv, Forward
<1>3. Forward' /\ Recorded'
  BY <1>1, <1>2, Typing DEF CountInv, Forward, Recorded
<1>4. Counted'
  <2> SUFFICES ASSUME NEW d \in Dates
               PROVE  /\ mails'[d] <= 1 + lost'[d]
                      /\ Unrecorded(d)' => mails'[d] <= lost'[d]
    BY DEF Counted
  <2>0. d \in Nat /\ mails[d] \in Nat /\ lost[d] \in Nat /\ mails[d] <= 1 + lost[d]
    BY Typing DEF CountInv, Counted
  <2>1. CASE config'.lastSent = today /\ lost' = lost
    <3>1. Unrecorded(d)' => Unrecorded(d)
      BY <1>1, <1>2, <2>0, <2>1, Typing DEF Unrecorded
    <3> QED BY <1>1, <2>1, <3>1 DEF CountInv, Counted
  <2>2. CASE Lost /\ config' = config /\ d = today
    BY <1>1, <2>0, <2>2, Typing DEF Lost
  <2>3. CASE Lost /\ config' = config /\ d # today
    <3>1. lost'[d] = lost[d]
      BY <2>3, Typing DEF Lost
    <3>2. Unrecorded(d)' => Unrecorded(d)
      BY <1>1, <2>3 DEF Unrecorded
    <3> QED BY <1>1, <3>1, <3>2 DEF CountInv, Counted
  <2> QED BY <1>1, <2>1, <2>2, <2>3
<1> QED
  BY <1>3, <1>4 DEF CountInv

LEMMA RestartCounted ==
    ASSUME TypeOK, CountInv, Restart
    PROVE  CountInv'
<1>1. /\ watch'.pc = "fetch" /\ watch'.today = watch.today
      /\ UNCHANGED <<clock, config, mails>>
      /\ IF watch.pc = "store_last" THEN Lost ELSE UNCHANGED lost
  BY DEF Restart, At, TypeOK, Watch
<1>2. CASE watch.pc # "store_last"
  BY <1>1, <1>2, CountKept
<1>3. CASE watch.pc = "store_last"
  <2>1. Forward' /\ Recorded'
    BY <1>1 DEF CountInv, Forward, Recorded
  <2>2. ASSUME NEW d \in Dates
        PROVE  /\ mails'[d] <= 1 + lost'[d]
               /\ Unrecorded(d)' => mails'[d] <= lost'[d]
    <3>0. mails[d] \in Nat /\ lost[d] \in Nat /\ mails[d] <= 1 + lost[d]
      BY Typing DEF CountInv, Counted
    <3>1. CASE d = watch.today
      BY <1>1, <1>3, <3>0, <3>1, Typing DEF Lost
    <3>2. CASE d # watch.today
      <4>1. lost'[d] = lost[d]
        BY <1>1, <1>3, <3>2, Typing DEF Lost
      <4>2. Unrecorded(d)' => Unrecorded(d)
        BY <1>1, <3>2 DEF Unrecorded
      <4> QED BY <1>1, <4>1, <4>2 DEF CountInv, Counted
    <3> QED BY <3>1, <3>2
  <2> QED BY <2>1, <2>2 DEF CountInv, Counted
<1> QED
  BY <1>2, <1>3

\* CountInv holds always.
LEMMA CountsHold == Spec => []CountInv
<1>1. Init => CountInv
  BY DEF Init, CountInv, Forward, Recorded, Counted
<1>2. TypeOK /\ CountInv /\ [Next]_vars => CountInv'
  <2> SUFFICES ASSUME TypeOK, CountInv, [Next]_vars PROVE CountInv'
    OBVIOUS
  <2>1. ASSUME Fetch \/ StoreExpiry \/ ReadIntegration \/ ReadRecipients
               \/ ReadFails \/ Wake,
               UNCHANGED clock
        PROVE  CountInv'
    <3>1. config'.lastSent = config.lastSent /\ UNCHANGED <<mails, lost>>
      BY <2>1 DEF Fetch, StoreExpiry, ReadIntegration, ReadRecipients, ReadFails,
                  Wake, TypeOK, Config
    <3>2. /\ watch'.today = watch.today
          /\ watch'.pc \notin {"last", "send", "store_last"}
          /\ watch.pc # "store_last"
      BY <2>1 DEF Fetch, StoreExpiry, ReadIntegration, ReadRecipients, ReadFails,
                  Wake, At, Goto, Sleep, TypeOK, Watch
    <3> QED BY <2>1, <3>1, <3>2, CountKept
  <2>2. ASSUME ReadAck, UNCHANGED clock PROVE CountInv'
    <3>1. CASE IsAcknowledged(watch.found, config.ack)
      BY <2>2, <3>1, CountKept DEF ReadAck, At, Sleep, TypeOK, Watch
    <3>2. CASE ~IsAcknowledged(watch.found, config.ack)
      <4>1. /\ watch.pc = "ack" /\ watch'.pc = "last"
            /\ watch'.today = DateOf(clock)
            /\ UNCHANGED <<config, mails, lost>>
        BY <2>2, <3>2 DEF ReadAck, At, TypeOK, Watch
      <4>2. Forward' /\ Recorded'
        BY <2>2, <4>1, Typing DEF CountInv, Forward, Recorded
      <4>3. \A d : Unrecorded(d)' => Unrecorded(d)
        BY <4>1 DEF Unrecorded
      <4> QED BY <4>1, <4>2, <4>3 DEF CountInv, Counted
    <3> QED BY <3>1, <3>2
  <2>3. ASSUME ReadLastSent, UNCHANGED clock PROVE CountInv'
    <3>1. CASE config.lastSent = watch.today
      BY <2>3, <3>1, CountKept DEF ReadLastSent, At, Sleep, TypeOK, Watch
    <3>2. CASE config.lastSent # watch.today
      <4>1. /\ watch.pc = "last" /\ watch'.pc = "send"
            /\ watch'.today = watch.today
            /\ UNCHANGED <<config, mails, lost>>
        BY <2>3, <3>2 DEF ReadLastSent, At, Goto, TypeOK, Watch
      <4>2. Forward' /\ Recorded'
        BY <2>3, <3>2, <4>1 DEF CountInv, Forward, Recorded
      <4>3. \A d : Unrecorded(d)' => Unrecorded(d)
        BY <4>1 DEF Unrecorded
      <4> QED BY <4>1, <4>2, <4>3 DEF CountInv, Counted
    <3> QED BY <3>1, <3>2
  <2>4. CASE WatchStep
    BY <2>1, <2>2, <2>3, <2>4, SendCounted, StoreCounted DEF WatchStep
  <2>5. CASE Acknowledge \/ StoreIntegration \/ StoreRecipients \/ Rotate
    <3>1. /\ config'.lastSent = config.lastSent
          /\ watch'.pc = watch.pc /\ watch'.today = watch.today
          /\ UNCHANGED <<clock, mails, lost>>
      BY <2>5 DEF Acknowledge, StoreIntegration, StoreRecipients, Rotate, Raced,
                  TypeOK, Watch, Config
    <3> QED BY <3>1, CountKept
  <2>6. CASE Tick
    <3>1. /\ clock' = clock + 1 /\ clock' \in Nat
          /\ UNCHANGED <<config, watch, mails, lost>>
      BY <2>6, Typing DEF Tick
    <3>2. DateOf(clock) <= DateOf(clock') /\ DateOf(clock') \in Nat
      BY <3>1, LaterDate, Typing DEF DateOf, Day
    <3>3. Forward'
      BY <3>1, <3>2, Typing DEF CountInv, Forward
    <3>4. Recorded' /\ Counted'
      BY <3>1 DEF CountInv, Recorded, Counted, Unrecorded
    <3> QED BY <3>3, <3>4 DEF CountInv
  <2>7. CASE UNCHANGED vars
    BY <2>7, CountKept DEF vars
  <2> QED
    BY <2>4, <2>5, <2>6, <2>7, RestartCounted DEF Next
<1> QED
  BY <1>1, <1>2, TypeCorrect, PTL DEF Spec

\* A date gets one alert, and one more for each send that left no trace or a
\* doubled one, whatever fails and however often the controller restarts.
THEOREM AlertsAreCounted == Spec => []AlertOncePerDay
<1>1. CountInv => AlertOncePerDay
  BY DEF CountInv, Recorded, Counted, AlertOncePerDay
<1> QED
  BY <1>1, CountsHold, PTL

-----------------------------------------------------------------------------
(* What the moves of the task change of its record.                        *)

LEMMA MovesOn ==
    ASSUME TypeOK, NEW pc, Goto(pc)
    PROVE  /\ watch'.pc = pc /\ watch'.found = watch.found /\ watch'.today = watch.today
           /\ watch'.since = watch.since /\ watch'.stored = watch.stored
           /\ watch'.raced = watch.raced
BY DEF Goto, TypeOK, Watch

LEMMA FallsAsleep ==
    ASSUME TypeOK, Sleep
    PROVE  /\ watch'.pc = "asleep" /\ watch'.since = clock /\ watch'.found = watch.found
           /\ watch'.today = watch.today /\ watch'.stored = watch.stored
           /\ watch'.raced = watch.raced
BY DEF Sleep, TypeOK, Watch

\* An iteration begins, after the sleep or a restart.
LEMMA Begins ==
    ASSUME TypeOK, Wake \/ Restart
    PROVE  /\ watch'.pc = "fetch" /\ watch'.since = clock /\ ~watch'.stored
           /\ ~watch'.raced /\ watch'.found = watch.found /\ watch'.today = watch.today
           /\ config' = config
BY DEF Wake, Restart, TypeOK, Watch

\* A request changes one row of the configuration, and not the one that tells
\* when the last alert was sent.
LEMMA RequestsRace ==
    ASSUME TypeOK, Acknowledge \/ StoreIntegration \/ StoreRecipients
    PROVE  /\ watch'.pc = watch.pc /\ watch'.found = watch.found
           /\ watch'.today = watch.today /\ watch'.since = watch.since
           /\ watch'.stored = watch.stored /\ watch'.raced \in BOOLEAN
           /\ (config' = config /\ watch' = watch) \/ watch'.raced
           /\ config'.lastSent = config.lastSent /\ config'.expiry = config.expiry
BY DEF Acknowledge, StoreIntegration, StoreRecipients, Raced, TypeOK, Watch, Config

-----------------------------------------------------------------------------
(* Why an alert is sent.                                                   *)

\* What an iteration that no request has raced with has read is still so:
\* each statement adds the row it has read.
ReadsHold ==
    /\ watch.pc \in {"ack", "last", "send"} => watch.found # None
    /\ ~watch.raced =>
         /\ watch.pc \in {"recipients", "ack", "last", "send"} => config.integration
         /\ watch.pc \in {"ack", "last", "send"} => config.recipients
         /\ watch.pc \in {"last", "send"} => ~IsAcknowledged(watch.found, config.ack)
         /\ watch.stored => config.expiry = watch.found
    /\ watch.stored => watch.pc \notin {"fetch", "store_expiry"}

\* An alert is sent only if it is justified (AlertJustified), unless a request
\* came after the iteration had begun.
THEOREM AlertsAreJustified == Spec => []AlertJustified
<1>1. Init => ReadsHold
  BY DEF Init, ReadsHold
<1>2. TypeOK /\ ReadsHold /\ [Next]_vars => ReadsHold'
  <2> SUFFICES ASSUME TypeOK, ReadsHold, [Next]_vars PROVE ReadsHold'
    OBVIOUS
  <2> USE MovesOn, FallsAsleep DEF At, ReadsHold
  <2>1. CASE Fetch
    <3>1. watch'.pc = "store_expiry" /\ watch'.stored = watch.stored
      BY <2>1 DEF Fetch, TypeOK, Watch
    <3> QED BY <2>1, <3>1 DEF Fetch
  <2>2. CASE StoreExpiry
    <3>1. CASE Goto("integration") /\ UNCHANGED config
      BY <2>2, <3>1 DEF StoreExpiry
    <3>2. CASE /\ config' = [config EXCEPT !.expiry = watch.found]
               /\ watch' = [watch EXCEPT !.pc = "integration", !.stored = TRUE]
      <4>1. config'.expiry = watch.found
        BY <3>2 DEF TypeOK, Config
      <4>2. watch'.pc = "integration" /\ watch'.found = watch.found
        BY <3>2 DEF TypeOK, Watch
      <4> QED BY <4>1, <4>2
    <3> QED BY <2>2, <3>1, <3>2 DEF StoreExpiry
  <2>3. CASE ReadIntegration
    BY <2>3 DEF ReadIntegration
  <2>4. CASE ReadRecipients
    BY <2>4 DEF ReadRecipients, AlertIsNear
  <2>5. CASE ReadAck
    <3>1. CASE IsAcknowledged(watch.found, config.ack)
      BY <2>5, <3>1 DEF ReadAck
    <3>2. CASE ~IsAcknowledged(watch.found, config.ack)
      <4>1. /\ watch'.pc = "last" /\ watch'.found = watch.found
            /\ watch'.stored = watch.stored /\ watch'.raced = watch.raced
        BY <2>5, <3>2 DEF ReadAck, TypeOK, Watch
      <4> QED BY <2>5, <3>2, <4>1 DEF ReadAck, IsAcknowledged
    <3> QED BY <3>1, <3>2
  <2>6. CASE ReadLastSent
    BY <2>6 DEF ReadLastSent, IsAcknowledged
  <2>7. CASE SendAlert
    BY <2>7 DEF SendAlert
  <2>8. CASE StoreLastSent
    <3>1. config'.expiry = config.expiry
      BY <2>8 DEF StoreLastSent, TypeOK, Config
    <3> QED BY <2>8, <3>1 DEF StoreLastSent
  <2>9. CASE ReadFails
    BY <2>9 DEF ReadFails
  <2>10. CASE Wake \/ Restart
    BY <2>10, Begins
  <2>11. CASE Acknowledge \/ StoreIntegration \/ StoreRecipients
    BY <2>11, RequestsRace DEF IsAcknowledged
  <2>12. CASE Tick \/ Rotate \/ UNCHANGED vars
    BY <2>12 DEF Tick, Rotate, vars, IsAcknowledged
  <2> QED
    BY <2>1, <2>2, <2>3, <2>4, <2>5, <2>6, <2>7, <2>8, <2>9, <2>10, <2>11, <2>12
       DEF Next, WatchStep
<1>3. ReadsHold => AlertJustified
  BY DEF ReadsHold, AlertJustified, At, Warn, IsAcknowledged, DaysRemaining
<1> QED
  BY <1>1, <1>2, <1>3, TypeCorrect, PTL DEF Spec

-----------------------------------------------------------------------------
(* How long an alert that is due can wait.                                 *)

\* Unless something fails, this iteration sends the alert that is due: it has
\* found the expiry of the addresses in use, and no alert of its date is
\* recorded.
OnTrack ==
    \/ /\ watch.pc \in {"fetch", "store_expiry", "integration", "recipients", "ack"}
       /\ config.lastSent # None => config.lastSent < DateOf(watch.since)
       /\ watch.pc # "fetch" => watch.found = expiry
    \/ watch.pc = "last" /\ config.lastSent # watch.today
    \/ watch.pc = "send"

\* An iteration takes a half day at most, the sleep two of them; so the next
\* alert leaves by since + 3 from the sleep, since + 1 when on track, and
\* since + 4 otherwise.  A failure costs an iteration, three half days.
WaitBounded ==
    LET waited == watch.since - unsent
    IN  unsent # None =>
          /\ watch.pc = "asleep" => waited <= 1 + 3 * failures
          /\ OnTrack => waited <= 3 + 3 * failures
          /\ watch.pc # "asleep" /\ ~OnTrack => waited <= 3 * failures

\* The iteration and the sleep last no longer than they may, an alert recorded
\* before the sleep is not of a day after it, and unsent counts while an alert
\* is due.
TimeOK ==
    /\ watch.since <= clock
    /\ clock <= watch.since + (IF watch.pc = "asleep" THEN Day ELSE 1)
    /\ watch.pc = "asleep" /\ config.lastSent # None
          => config.lastSent <= DateOf(watch.since)
    /\ unsent # None => Due

TimeInv == TimeOK /\ WaitBounded

\* Later times have later dates, and those after a sleep a later one.
LEMMA DatesGrow ==
    ASSUME NEW s \in Nat, NEW t \in Nat, s <= t
    PROVE  /\ DateOf(s) \in Nat /\ DateOf(t) \in Nat /\ DateOf(s) <= DateOf(t)
           /\ s + Day <= t => DateOf(s) < DateOf(t)
BY DEF DateOf, Day

\* The counter of waiting time, as a step leaves it: started again, or kept.
LEMMA Waiting ==
    ASSUME CountUnsent, unsent' # None
    PROVE  /\ Due'
           /\ \/ unsent' = clock'
              \/ unsent' = unsent /\ unsent # None /\ mails' = mails /\ expiry' = expiry
BY DEF CountUnsent

\* The numbers TimeInv compares are numbers.
LEMMA Times ==
    ASSUME TypeOK
    PROVE  /\ clock \in Nat /\ watch.since \in Nat /\ failures \in Nat
           /\ watch.today \in Nat /\ expiry \in Nat /\ expiry # None
           /\ watch.pc \in {"fetch", "store_expiry", "integration", "recipients",
                            "ack", "last", "send", "store_last", "asleep"}
           /\ config.lastSent # None => config.lastSent \in Nat
           /\ unsent # None => unsent \in Nat
<1>1. watch.since \in Nat /\ watch.pc \in {"fetch", "store_expiry", "integration",
           "recipients", "ack", "last", "send", "store_last", "asleep"}
  BY DEF TypeOK, Watch
<1>2. expiry \in Nat /\ failures \in Nat /\ (unsent # None => unsent \in Nat)
  BY WatchAssumption DEF TypeOK
<1> QED
  BY <1>1, <1>2, Typing, WatchAssumption

\* A step of the task that goes on with the iteration keeps the bounds when it
\* stays on track, or has a failure or a new alert to account for it.
LEMMA IterationGoesOn ==
    ASSUME TypeOK, TimeInv, CountUnsent,
           clock' = clock, watch'.since = watch.since,
           watch.pc # "asleep", watch'.pc # "asleep",
           failures' \in Nat, failures' >= failures,
           \/ unsent' = clock
           \/ failures' >= failures + 1
           \/ unsent' # None /\ OnTrack => OnTrack'
    PROVE  TimeInv'
<1>1. TimeOK'
  BY Waiting DEF TimeInv, TimeOK
<1> DEFINE since == watch.since
           waited == since - unsent
<1>0. /\ since \in Nat /\ clock \in Nat /\ failures \in Nat /\ since <= clock
      /\ unsent # None => unsent \in Nat /\ waited \in Int
      /\ watch'.since = since
  BY Times DEF TimeInv, TimeOK
<1>2. unsent # None => /\ waited <= 3 + 3 * failures
                       /\ ~OnTrack => waited <= 3 * failures
  BY <1>0 DEF TimeInv, WaitBounded
<1> DEFINE waited1 == since - unsent'
<1>3. unsent' # None => /\ waited1 <= 3 + 3 * failures'
                        /\ ~OnTrack' => waited1 <= 3 * failures'
  <2>1. CASE unsent' = clock
    BY <1>0, <2>1
  <2>2. CASE unsent' = unsent /\ unsent # None /\ failures' >= failures + 1
    BY <1>0, <1>2, <2>2
  <2>3. CASE unsent' = unsent /\ unsent # None /\ (OnTrack => OnTrack')
    BY <1>0, <1>2, <2>3
  <2> QED BY <2>1, <2>2, <2>3, Waiting
<1>4. WaitBounded'
  BY <1>0, <1>3 DEF WaitBounded
<1> QED
  BY <1>1, <1>4 DEF TimeInv

\* A step that ends the iteration keeps them when the iteration was not on
\* track, has failed or has sent the alert.
LEMMA IterationEnds ==
    ASSUME TypeOK, TypeOK', CountInv', TimeInv, CountUnsent,
           clock' = clock, watch'.since = clock,
           watch.pc # "asleep", watch'.pc = "asleep",
           failures' \in Nat, failures' >= failures,
           \/ unsent' \in {None, clock}
           \/ failures' >= failures + 1
           \/ ~OnTrack
    PROVE  TimeInv'
<1>1. TimeOK'
  BY Waiting, Times DEF TimeInv, TimeOK, CountInv, Forward, Day
<1> DEFINE waited == clock - unsent
<1>0. /\ clock \in Nat /\ failures \in Nat /\ watch.since \in Nat
      /\ clock <= watch.since + 1
      /\ unsent # None => unsent \in Nat /\ waited \in Int
  BY Times DEF TimeInv, TimeOK
<1>2. unsent # None => /\ waited <= 4 + 3 * failures
                       /\ ~OnTrack => waited <= 1 + 3 * failures
  BY <1>0 DEF TimeInv, WaitBounded
<1> DEFINE waited1 == clock - unsent'
<1>3. unsent' # None => waited1 <= 1 + 3 * failures'
  <2>1. CASE unsent' = clock
    <3>1. waited1 = 0
      BY <1>0, <2>1
    <3>2. \A n \in Nat : 0 <= 1 + 3 * n
      OBVIOUS
    <3> QED BY <3>1, <3>2
  <2>2. CASE unsent' = unsent /\ unsent # None /\ failures' >= failures + 1
    BY <1>0, <1>2, <2>2
  <2>3. CASE unsent' = unsent /\ unsent # None /\ ~OnTrack
    BY <1>0, <1>2, <2>3
  <2> QED BY <2>1, <2>2, <2>3, Waiting
<1>4. ~OnTrack'
  BY DEF OnTrack
<1>5. WaitBounded'
  BY <1>3, <1>4 DEF WaitBounded
<1> QED
  BY <1>1, <1>5 DEF TimeInv

\* While the task reads, an alert that is due keeps it on track.
LEMMA StaysOnTrack ==
    ASSUME TypeOK, CountInv, TimeInv, unsent # None, OnTrack,
           expiry' = expiry, config'.lastSent = config.lastSent, clock' = clock,
           \/ StoreExpiry \/ ReadIntegration \/ ReadRecipients \/ ReadAck \/ ReadLastSent
    PROVE  OnTrack'
<1> USE MovesOn, Times DEF At, OnTrack
<1>0. Due
  BY DEF TimeInv, TimeOK
<1>1. CASE StoreExpiry
  <2>1. /\ watch.pc = "store_expiry" /\ watch'.pc = "integration"
        /\ watch'.found = watch.found /\ watch'.since = watch.since
    BY <1>1 DEF StoreExpiry, TypeOK, Watch
  <2> QED BY <2>1
<1>2. CASE ReadIntegration
  BY <1>0, <1>2 DEF ReadIntegration, Due
<1>3. CASE ReadRecipients
  <2>1. watch.pc = "recipients" /\ watch.found = expiry
    BY <1>3 DEF ReadRecipients
  <2>2. AlertIsNear /\ config.recipients
    BY <1>0, <2>1 DEF AlertIsNear, Due
  <2>3. Goto("ack")
    BY <1>3, <2>2 DEF ReadRecipients
  <2> QED BY <2>1, <2>3
<1>4. CASE ReadAck
  <2>1. watch.pc = "ack" /\ watch.found = expiry
    BY <1>4 DEF ReadAck
  <2>2. ~IsAcknowledged(watch.found, config.ack)
    BY <1>0, <2>1 DEF Due
  <2>3. watch'.pc = "last" /\ watch'.today = DateOf(clock)
    BY <1>4, <2>2 DEF ReadAck, TypeOK, Watch
  <2>4. DateOf(watch.since) <= DateOf(clock) /\ DateOf(watch.since) \in Nat
        /\ DateOf(clock) \in Nat
    BY DatesGrow DEF TimeInv, TimeOK
  <2>5. config.lastSent # None => config.lastSent \in Nat /\ config.lastSent < DateOf(clock)
    BY <2>1, <2>4
  <2>6. config.lastSent # DateOf(clock)
    BY <2>4, <2>5, WatchAssumption
  <2> QED BY <2>3, <2>6
<1>5. CASE ReadLastSent
  BY <1>5 DEF ReadLastSent
<1> QED
  BY <1>1, <1>2, <1>3, <1>4, <1>5

\* A step of the task keeps the bounds.
LEMMA TaskKeepsTime ==
    ASSUME TypeOK, TypeOK', CountInv, CountInv', TimeInv, CountUnsent, WatchStep
    PROVE  TimeInv'
<1> USE MovesOn, FallsAsleep, Times DEF At
<1>0. /\ clock' = clock /\ expiry' = expiry /\ failures' \in Nat
      /\ Failing => failures' >= failures + 1
      /\ UNCHANGED failures => failures' >= failures
  BY WatchAssumption DEF WatchStep, TypeOK, Failing
<1>1. CASE Fetch
  <2>1. PICK found \in {expiry, None} :
           /\ watch' = [watch EXCEPT !.pc = "store_expiry", !.found = found]
           /\ IF found = None THEN Failing ELSE UNCHANGED failures
    BY <1>1 DEF Fetch
  <2>2. watch.pc = "fetch" /\ config' = config
    BY <1>1 DEF Fetch
  <2>3. watch'.pc = "store_expiry" /\ watch'.found = found /\ watch'.since = watch.since
    BY <2>1 DEF TypeOK, Watch
  <2>4. CASE found = None
    <3>1. failures' >= failures + 1 /\ failures' >= failures
      BY <1>0, <2>1, <2>4
    <3> QED BY <1>0, <2>2, <2>3, <3>1, IterationGoesOn
  <2>5. CASE found = expiry
    <3>1. OnTrack => OnTrack'
      BY <1>0, <2>2, <2>3, <2>5 DEF OnTrack
    <3>2. failures' >= failures
      BY <1>0, <2>1, <2>5
    <3> QED BY <1>0, <2>2, <2>3, <3>1, <3>2, IterationGoesOn
  <2> QED BY <2>4, <2>5
<1>2. CASE \/ StoreExpiry \/ ReadIntegration \/ ReadRecipients \/ ReadAck \/ ReadLastSent
  <2>1. config'.lastSent = config.lastSent /\ mails' = mails
    BY <1>2
    DEF StoreExpiry, ReadIntegration, ReadRecipients, ReadAck, ReadLastSent, TypeOK, Config
  <2>2. failures' >= failures
    BY <1>0, <1>2 DEF StoreExpiry, ReadIntegration, ReadRecipients, ReadAck, ReadLastSent
  <2>3. /\ watch.pc # "asleep"
        /\ \/ watch'.pc = "asleep" /\ watch'.since = clock
           \/ watch'.pc # "asleep" /\ watch'.since = watch.since
    <3>1. CASE StoreExpiry
      BY <3>1 DEF StoreExpiry, TypeOK, Watch
    <3>2. CASE ReadAck
      <4>1. CASE IsAcknowledged(watch.found, config.ack)
        BY <3>2, <4>1 DEF ReadAck
      <4>2. CASE ~IsAcknowledged(watch.found, config.ack)
        BY <3>2, <4>2 DEF ReadAck, TypeOK, Watch
      <4> QED BY <4>1, <4>2
    <3>3. CASE ReadIntegration \/ ReadRecipients \/ ReadLastSent
      BY <3>3 DEF ReadIntegration, ReadRecipients, ReadLastSent
    <3> QED BY <1>2, <3>1, <3>2, <3>3
  <2>4. unsent # None /\ OnTrack => OnTrack'
    BY <1>0, <1>2, <2>1, StaysOnTrack
  <2>5. CASE watch'.pc = "asleep"
    <3>1. ~OnTrack'
      BY <2>5 DEF OnTrack
    <3>2. unsent' \in {None, clock} \/ ~OnTrack
      BY <1>0, <2>4, <3>1, Waiting
    <3> QED BY <1>0, <2>2, <2>3, <2>5, <3>2, IterationEnds
  <2>6. CASE watch'.pc # "asleep"
    <3>1. unsent' = clock \/ (unsent' # None /\ OnTrack => OnTrack')
      BY <1>0, <2>4, Waiting
    <3> QED BY <1>0, <2>2, <2>3, <2>6, <3>1, IterationGoesOn
  <2> QED BY <2>5, <2>6
<1>3. CASE SendAlert
  <2>1. watch.pc = "send"
    BY <1>3 DEF SendAlert
  <2>2. failures' >= failures
    BY <1>0, <1>3 DEF SendAlert
  <2>3. \A n \in {1, 2} : Sent(n) => mails' # mails
    BY Typing DEF Sent
  <2>4. CASE Goto("store_last") /\ (Sent(1) \/ Sent(2))
    <3>1. unsent' \in {None, clock}
      BY <1>0, <2>3, <2>4, Waiting
    <3> QED BY <1>0, <2>1, <2>2, <2>4, <3>1, IterationGoesOn
  <2>5. CASE Sleep /\ Failing
    BY <1>0, <2>1, <2>2, <2>5, IterationEnds
  <2> QED BY <1>3, <2>4, <2>5 DEF SendAlert
<1>4. CASE StoreLastSent
  <2>1. watch.pc = "store_last" /\ Sleep /\ ~OnTrack
    BY <1>4 DEF StoreLastSent, OnTrack
  <2>2. failures' >= failures
    BY <1>0, <1>4 DEF StoreLastSent
  <2> QED BY <1>0, <2>1, <2>2, IterationEnds
<1>5. CASE ReadFails
  <2>1. watch.pc # "asleep" /\ Sleep /\ failures' >= failures + 1 /\ failures' >= failures
    BY <1>0, <1>5 DEF ReadFails
  <2> QED BY <1>0, <2>1, IterationEnds
<1>6. CASE Wake
  <2>1. /\ watch.pc = "asleep" /\ clock >= watch.since + Day /\ UNCHANGED <<mails, failures>>
        /\ clock = watch.since + Day
    BY <1>6 DEF Wake, TimeInv, TimeOK, Day
  <2>2. watch'.pc = "fetch" /\ watch'.since = clock /\ config' = config
    BY <1>6, Begins
  <2>3. DateOf(watch.since) < DateOf(clock) /\ DateOf(watch.since) \in Nat
        /\ DateOf(clock) \in Nat
    BY <2>1, DatesGrow DEF Day
  <2>4. OnTrack'
    BY <1>0, <2>1, <2>2, <2>3 DEF OnTrack, TimeInv, TimeOK
  <2>5. TimeOK'
    BY <1>0, <2>2, Waiting DEF TimeOK
  <2>6. WaitBounded'
    <3>1. unsent' # None => clock - unsent' <= 3 + 3 * failures'
      <4>1. CASE unsent' = clock
        <5>1. clock - unsent' = 0
          BY <4>1
        <5>2. \A n \in Nat : 0 <= 3 + 3 * n
          OBVIOUS
        <5> QED BY <1>0, <5>1, <5>2
      <4>2. CASE unsent' = unsent /\ unsent # None
        <5>1. watch.since - unsent <= 1 + 3 * failures
          BY <2>1, <4>2 DEF TimeInv, WaitBounded
        <5> QED BY <2>1, <4>2, <5>1 DEF Day
      <4> QED BY <1>0, <4>1, <4>2, Waiting
    <3> QED BY <2>2, <2>4, <3>1 DEF WaitBounded
  <2> QED BY <2>5, <2>6 DEF TimeInv
<1> QED
  BY <1>1, <1>2, <1>3, <1>4, <1>5, <1>6 DEF WatchStep

\* A restart costs a failure: the new iteration may find today's alert
\* recorded, but then the old one was not on track either.
LEMMA RestartKeepsTime ==
    ASSUME TypeOK, TypeOK', CountInv, TimeInv, CountUnsent, Restart
    PROVE  TimeInv'
<1> USE Times
<1>1. /\ watch'.pc = "fetch" /\ watch'.since = clock /\ UNCHANGED <<clock, config, mails>>
      /\ failures' = failures + 1
  BY Begins DEF Restart, Failing
<1>2. TimeOK'
  BY <1>1, Waiting DEF TimeOK
<1> DEFINE waited == clock - unsent
<1>3. unsent # None => /\ waited <= 6 + 3 * failures
                       /\ watch.pc = "asleep" \/ ~OnTrack => waited <= 3 + 3 * failures
  BY DEF TimeInv, TimeOK, WaitBounded, Day, OnTrack
<1>4. watch.pc # "asleep" /\ OnTrack => OnTrack'
  <2>1. DateOf(watch.since) <= DateOf(clock) /\ DateOf(watch.since) \in Nat
        /\ DateOf(clock) \in Nat
    BY DatesGrow DEF TimeInv, TimeOK
  <2>2. watch.pc # "asleep" /\ OnTrack /\ config.lastSent # None
          => config.lastSent < DateOf(clock)
    BY <2>1 DEF OnTrack, CountInv, Forward
  <2> QED BY <1>1, <2>2 DEF OnTrack
<1>5. unsent' # None => /\ clock - unsent' <= 6 + 3 * failures
                        /\ ~OnTrack' => clock - unsent' <= 3 + 3 * failures
  <2>1. CASE unsent' = clock
    <3>1. clock - unsent' = 0
      BY <2>1
    <3>2. \A n \in Nat : 0 <= 3 + 3 * n /\ 0 <= 6 + 3 * n
      OBVIOUS
    <3> QED BY <3>1, <3>2
  <2>2. CASE unsent' = unsent /\ unsent # None
    BY <1>3, <1>4, <2>2
  <2> QED BY <1>1, <2>1, <2>2, Waiting
<1>6. WaitBounded'
  BY <1>1, <1>5 DEF WaitBounded
<1> QED
  BY <1>2, <1>6 DEF TimeInv

\* Requests, rotations and the passing of time leave the task where it is; an
\* alert that becomes due with them counts from now.
LEMMA SurroundingsKeepTime ==
    ASSUME TypeOK, TypeOK', TimeInv, CountUnsent,
           Acknowledge \/ StoreIntegration \/ StoreRecipients \/ Tick \/ Rotate
    PROVE  TimeInv'
<1> USE Times
<1>1. /\ watch'.pc = watch.pc /\ watch'.found = watch.found /\ watch'.since = watch.since
      /\ watch'.today = watch.today /\ config'.lastSent = config.lastSent
      /\ failures' \in Nat /\ failures' >= failures /\ mails' = mails
      /\ clock' \in Nat /\ clock' >= clock
      /\ clock' <= watch.since + (IF watch.pc = "asleep" THEN Day ELSE 1)
  <2>1. CASE Tick
    BY <2>1 DEF Tick, At, TimeInv, TimeOK, Day
  <2>2. CASE Rotate
    BY <2>2 DEF Rotate, TimeInv, TimeOK
  <2>3. CASE Acknowledge \/ StoreIntegration \/ StoreRecipients
    BY <2>3, RequestsRace
    DEF Acknowledge, StoreIntegration, StoreRecipients, Failing, TimeInv, TimeOK
  <2> QED BY <2>1, <2>2, <2>3
<1>2. TimeOK'
  BY <1>1, Waiting DEF TimeInv, TimeOK
<1>3. expiry' = expiry => (OnTrack' <=> OnTrack)
  BY <1>1 DEF OnTrack
<1>4. WaitBounded'
  <2> SUFFICES ASSUME unsent' # None PROVE WaitBounded'
    BY DEF WaitBounded
  <2>1. CASE unsent' = clock'
    <3>1. watch.since <= clock
      BY DEF TimeInv, TimeOK
    <3>2. watch'.since - unsent' <= 0
      BY <1>1, <2>1, <3>1
    <3>3. \A n \in Nat : 0 <= 3 * n /\ 0 <= 1 + 3 * n /\ 0 <= 3 + 3 * n
      OBVIOUS
    <3>4. watch'.since - unsent' \in Int
      BY <1>1, <2>1
    <3> QED BY <1>1, <3>2, <3>3, <3>4 DEF WaitBounded
  <2>2. CASE unsent' = unsent /\ unsent # None /\ expiry' = expiry
    BY <1>1, <1>3, <2>2 DEF TimeInv, WaitBounded
  <2> QED BY <2>1, <2>2, Waiting
<1> QED
  BY <1>2, <1>4 DEF TimeInv

\* While an alert is due, one goes out every other day at the latest, and a
\* day and a half later for every failure (AlertInTime).
THEOREM AlertsComeInTime == Spec => []AlertInTime
<1>1. Init => TimeInv
  BY WatchAssumption DEF Init, TimeInv, TimeOK, WaitBounded, Day
<1>2. TypeOK /\ TypeOK' /\ CountInv /\ CountInv' /\ TimeInv /\ [Next]_vars => TimeInv'
  <2> SUFFICES ASSUME TypeOK, TypeOK', CountInv, CountInv', TimeInv, [Next]_vars
               PROVE  TimeInv'
    OBVIOUS
  <2>1. CASE UNCHANGED vars
    BY <2>1 DEF vars, TimeInv, TimeOK, WaitBounded, OnTrack, Due, DaysRemaining,
                IsAcknowledged
  <2> QED
    BY <2>1, TaskKeepsTime, RestartKeepsTime, SurroundingsKeepTime DEF Next
<1>3. TypeOK /\ TimeInv => AlertInTime
  <2> SUFFICES ASSUME TypeOK, TimeInv, unsent # None
               PROVE  clock - unsent <= 2 * Day + 3 * failures
    BY DEF AlertInTime
  <2> QED BY Times DEF TimeInv, TimeOK, WaitBounded, OnTrack, Day
<1> QED
  BY <1>1, <1>2, <1>3, TypeCorrect, CountsHold, PTL DEF Spec

=============================================================================
