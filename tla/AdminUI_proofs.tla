--------------------------- MODULE AdminUI_proofs ---------------------------
(***************************************************************************)
(* Theorems about the Admin UI: for any number of sessions, operators and  *)
(* changes, the Apps page shows its operator what he was told that he did, *)
(* and warns when it lacks the statuses; for any number of pages, sources  *)
(* and jobs, a page of the logs gets those it asked for, and keeps its job *)
(* while it asks.                                                          *)
(*                                                                         *)
(* Theorems about the constants of an app: for any number of panels, PADs  *)
(* and constants, no editor, however old, makes the registry name a        *)
(* constant whose secret has no value, or lose one the app's PAD declares. *)
(***************************************************************************)
EXTENDS MCAdminUI, TLAPS

-----------------------------------------------------------------------------
(* The table of the Apps page.                                             *)

\* The only session of its operator.  Of two tabs of one operator, one may have
\* fetched before the other acts what it stores afterwards.
Lone(s) == \A u \in Sessions : OperatorOf[u] = OperatorOf[s] => u = s

AppRows == [version : 0..MaxVersion, transient : BOOLEAN]

TabStates == [pc : {"closed", "idle", "acted", "rerun", "lookup"} \cup Computing,
              polling : BOOLEAN, flagged : BOOLEAN, warned : BOOLEAN,
              shown : Tables \cup {Missing}, table : Tables \cup {Missing},
              acted : 0..MaxVersion]

\* Whoever has fetched has an answer.
FetchedOK == \A s \in Sessions : tab[s].pc = "fetched" => tab[s].table # Missing

PageInv == PageTypeOK /\ FetchedOK

\* What a tab has at hand is as new as the last action it refreshes after, from
\* the time the caches are empty; and it is told of blanks when it fetches the
\* answer that has them, since nobody else fetches for its operator.
SeenBy(t, answer, version) ==
    /\ t.acted <= version
    /\ t.pc = "fetched" => t.table.version >= t.acted
    /\ answer # Missing => /\ answer.blank <=> t.warned
                           /\ t.pc # "acted" => answer.version >= t.acted
    /\ t.pc = "idle" /\ t.shown # Missing => /\ t.shown.version >= t.acted
                                             /\ t.shown.blank <=> t.warned

Seen(s) == SeenBy(tab[s], answers[OperatorOf[s]], app.version)

SeenOK == \A s \in Sessions : Lone(s) => Seen(s)

-----------------------------------------------------------------------------

LEMMA PageFacts ==
    ASSUME PageInv, NEW s \in Sessions
    PROVE  /\ tab \in [Sessions -> TabStates] /\ tab[s] \in TabStates
           /\ tab[s].acted \in 0..MaxVersion /\ tab[s].flagged \in BOOLEAN
           /\ tab[s].warned \in BOOLEAN
           /\ tab[s].table \in Tables \cup {Missing}
           /\ tab[s].shown \in Tables \cup {Missing}
           /\ tab[s].pc = "fetched" => tab[s].table \in Tables
           /\ OperatorOf[s] \in Operators
           /\ answers[OperatorOf[s]] \in Tables \cup {Missing}
BY PageAssumption DEF PageInv, PageTypeOK, FetchedOK, TabStates

LEMMA AppFacts ==
    ASSUME PageInv
    PROVE  /\ app \in AppRows /\ app.version \in 0..MaxVersion /\ MaxVersion \in Nat
           /\ answers \in [Operators -> Tables \cup {Missing}]
BY PageAssumption DEF PageInv, PageTypeOK, AppRows

LEMMA TablesTyped ==
    ASSUME NEW table \in Tables
    PROVE  /\ table.version \in 0..MaxVersion /\ table.transient \in BOOLEAN
           /\ table.blank \in BOOLEAN /\ table # Missing
<1>1. table \in [version : Nat, transient : BOOLEAN, blank : BOOLEAN]
    BY PageAssumption DEF Tables
<1> QED
    BY <1>1, PageAssumption DEF Tables

\* A step of one session: what its tab becomes is all there is to look at.
LEMMA TabStep ==
    ASSUME PageInv, NEW s \in Sessions, NEW next \in TabStates, TabBecomes(s, next),
           app' \in AppRows, answers' \in [Operators -> Tables \cup {Missing}],
           next.pc = "fetched" => next.table # Missing
    PROVE  PageInv' /\ tab'[s] = next /\ \A u \in Sessions \ {s} : tab'[u] = tab[u]
<1>1. tab \in [Sessions -> TabStates]
    BY PageFacts
<1>2. /\ tab' \in [Sessions -> TabStates] /\ tab'[s] = next
      /\ \A u \in Sessions \ {s} : tab'[u] = tab[u]
    BY <1>1 DEF TabBecomes
<1>3. PageTypeOK'
    BY <1>2 DEF PageTypeOK, TabStates, AppRows
<1>4. FetchedOK'
    BY <1>2 DEF PageInv, FetchedOK
<1> QED
    BY <1>2, <1>3, <1>4 DEF PageInv

\* A tab that stays loses nothing when the app changes or an answer is dropped.
LEMMA SeenStays ==
    ASSUME PageInv, PageInv', NEW s \in Sessions, Seen(s), tab'[s] = tab[s],
           app'.version >= app.version,
           answers'[OperatorOf[s]] \in {answers[OperatorOf[s]], Missing}
    PROVE  Seen(s)'
<1>1. /\ tab[s].acted \in Nat /\ app.version \in Nat /\ app'.version \in Nat
      /\ app'.version >= app.version
    BY PageFacts, AppFacts DEF PageInv, PageTypeOK
<1> QED
    BY <1>1 DEF Seen, SeenBy

\* What a session does concerns its own operator's answer, and drops others'.
LEMMA SeenStep ==
    ASSUME PageInv, PageInv', SeenOK, NEW s \in Sessions,
           \A u \in Sessions \ {s} : tab'[u] = tab[u],
           app'.version >= app.version,
           \A o \in Operators \ {OperatorOf[s]} : answers'[o] \in {answers[o], Missing},
           Lone(s) => Seen(s)'
    PROVE  SeenOK'
<1> SUFFICES ASSUME NEW u \in Sessions, u # s, Lone(u) PROVE Seen(u)'
    BY DEF SeenOK, Lone
<1>1. OperatorOf[u] \in Operators \ {OperatorOf[s]}
    BY PageFacts DEF Lone
<1> QED
    BY <1>1, SeenStays DEF SeenOK

LEMMA RefreshNowTyped ==
    RefreshNow => /\ answers' \in [Operators -> Tables \cup {Missing}]
                  /\ \A o \in Operators : answers'[o] = Missing
BY DEF RefreshNow

\* _apps_table shows the table it has, or runs the script again.
LEMMA WithTableShows ==
    ASSUME NEW t \in TabStates, NEW table \in Tables
    PROVE  /\ WithTable(t, table) \in TabStates
           /\ WithTable(t, table).pc \in {"idle", "rerun"}
           /\ WithTable(t, table).pc = "idle" => WithTable(t, table).shown = table
           /\ WithTable(t, table).acted = t.acted
           /\ WithTable(t, table).warned = t.warned
BY TablesTyped DEF WithTable, TabStates

-----------------------------------------------------------------------------

LEMMA PageInitOK == PageInit => PageInv /\ SeenOK
<1> SUFFICES ASSUME PageInit PROVE PageInv /\ SeenOK
    OBVIOUS
<1>1. NewTab \in TabStates /\ NewTab.pc = "closed" /\ NewTab.acted = 0
    BY PageAssumption DEF NewTab, TabStates
<1>2. /\ app \in AppRows /\ app.version = 0
      /\ answers \in [Operators -> Tables \cup {Missing}]
      /\ \A s \in Sessions : tab[s] = NewTab /\ answers[OperatorOf[s]] = Missing
      /\ tab \in [Sessions -> TabStates]
    BY <1>1, PageAssumption DEF PageInit, AppRows
<1> QED
    BY <1>1, <1>2
    DEF PageInv, PageTypeOK, FetchedOK, SeenOK, Seen, SeenBy, TabStates, AppRows

\* Steps that find the caches as they are or empty them, and leave what the
\* session shows.
LEMMA PlainStepOK ==
    ASSUME PageInv, NEW s \in Sessions,
           OpenPage(s) \/ Rerun(s) \/ Tick(s) \/ Acted(s) \/ Reload(s)
    PROVE  PageInv' /\ (SeenOK => SeenOK')
<1>1. PICK pc \in {"rerun", "lookup"}, polling \in BOOLEAN :
          TabBecomes(s, [tab[s] EXCEPT !.pc = pc, !.polling = polling])
    <2>1. tab[s] \in TabStates
        BY PageFacts
    <2>2. \A pc : [tab[s] EXCEPT !.pc = pc]
                      = [tab[s] EXCEPT !.pc = pc, !.polling = tab[s].polling]
        BY <2>1 DEF TabStates
    <2>3. tab[s].polling \in BOOLEAN /\ tab[s].flagged \in BOOLEAN
        BY <2>1 DEF TabStates
    <2> QED
        BY <2>2, <2>3 DEF OpenPage, Rerun, Tick, Acted, Reload
<1> DEFINE next == [tab[s] EXCEPT !.pc = pc, !.polling = polling]
<1>2. /\ next \in TabStates /\ next.pc \in {"rerun", "lookup"}
      /\ next.acted = tab[s].acted /\ next.warned = tab[s].warned
    BY PageFacts DEF TabStates
<1>3. app' = app /\ ((answers' = answers /\ tab[s].pc # "acted") \/ RefreshNow)
    BY DEF OpenPage, Rerun, Tick, Acted, Reload
<1>4. /\ answers' \in [Operators -> Tables \cup {Missing}]
      /\ \A o \in Operators : answers'[o] \in {answers[o], Missing}
      /\ tab[s].pc = "acted" => \A o \in Operators : answers'[o] = Missing
    BY <1>3, AppFacts, RefreshNowTyped
<1> HIDE DEF next
<1>5. /\ PageInv' /\ tab'[s] = next
      /\ \A u \in Sessions \ {s} : tab'[u] = tab[u]
    BY <1>1, <1>2, <1>3, <1>4, AppFacts, TabStep DEF next
<1>6. ASSUME SeenOK PROVE SeenOK'
    <2>1. app'.version >= app.version
        BY <1>3, AppFacts
    <2>2. Lone(s) => Seen(s)'
        BY <1>2, <1>3, <1>4, <1>5, <1>6, PageFacts DEF SeenOK, Seen, SeenBy
    <2> QED
        BY <1>4, <1>5, <1>6, <2>1, <2>2, SeenStep
<1> QED
    BY <1>5, <1>6

LEMMA LookupOK ==
    ASSUME PageInv, NEW s \in Sessions, LookupApps(s)
    PROVE  PageInv' /\ (SeenOK => SeenOK')
<1> DEFINE answer == answers[OperatorOf[s]]
           next == IF answer = Missing THEN [tab[s] EXCEPT !.pc = "fetch"]
                   ELSE WithTable(tab[s], answer)
<1>1. TabBecomes(s, next) /\ app' = app /\ answers' = answers /\ tab[s].pc = "lookup"
    BY DEF LookupApps
<1>2. CASE answer = Missing
    <2>1. /\ next \in TabStates /\ next.pc = "fetch"
          /\ next.acted = tab[s].acted /\ next.warned = tab[s].warned
        BY <1>2, PageFacts DEF TabStates, Computing
    <2> HIDE DEF next
    <2>2. /\ PageInv' /\ tab'[s] = next
          /\ \A u \in Sessions \ {s} : tab'[u] = tab[u]
        BY <1>1, <2>1, AppFacts, TabStep
    <2>3. ASSUME SeenOK PROVE SeenOK'
        <3>1. Lone(s) => Seen(s)'
            BY <1>1, <1>2, <2>1, <2>2, <2>3 DEF SeenOK, Seen, SeenBy
        <3> QED
            BY <1>1, <2>2, <2>3, <3>1, AppFacts, SeenStep
    <2> QED
        BY <2>2, <2>3
<1>3. CASE answer # Missing
    <2>1. answer \in Tables /\ next = WithTable(tab[s], answer) /\ tab[s] \in TabStates
        BY <1>3, PageFacts
    <2> HIDE DEF next, answer
    <2>2. /\ next \in TabStates /\ next.pc \in {"idle", "rerun"}
          /\ next.acted = tab[s].acted /\ next.warned = tab[s].warned
          /\ next.pc = "idle" => next.shown = answer
        BY <2>1, WithTableShows
    <2> USE DEF answer
    <2>3. /\ PageInv' /\ tab'[s] = next
          /\ \A u \in Sessions \ {s} : tab'[u] = tab[u]
        BY <1>1, <2>2, AppFacts, TabStep
    <2>4. ASSUME SeenOK PROVE SeenOK'
        <3>1. Lone(s) => Seen(s)'
            BY <1>1, <1>3, <2>2, <2>3, <2>4 DEF SeenOK, Seen, SeenBy
        <3> QED
            BY <1>1, <2>3, <2>4, <3>1, AppFacts, SeenStep
    <2> QED
        BY <2>3, <2>4
<1> QED
    BY <1>2, <1>3

LEMMA FetchOK ==
    ASSUME PageInv, NEW s \in Sessions, Fetch(s) \/ FetchFails(s)
    PROVE  PageInv' /\ (SeenOK => SeenOK')
<1>1. app' = app /\ answers' = answers /\ tab[s].pc = "fetch"
    BY DEF Fetch, FetchFails
<1>2. CASE Fetch(s)
    <2>1. PICK blank \in BOOLEAN :
              TabBecomes(s, [tab[s] EXCEPT !.pc = "fetched",
                  !.table = [version |-> app.version, transient |-> app.transient,
                             blank |-> blank]])
        BY <1>2 DEF Fetch
    <2> DEFINE table == [version |-> app.version, transient |-> app.transient,
                         blank |-> blank]
               next == [tab[s] EXCEPT !.pc = "fetched", !.table = table]
    <2>2. table \in Tables /\ table.version = app.version
        BY AppFacts DEF Tables, AppRows
    <2> HIDE DEF table
    <2>3. /\ next \in TabStates /\ next.pc = "fetched" /\ next.table = table
          /\ next.acted = tab[s].acted /\ next.warned = tab[s].warned
        BY <2>2, PageFacts DEF TabStates, Computing
    <2>4. TabBecomes(s, next)
        BY <2>1 DEF table
    <2> HIDE DEF next
    <2>5. /\ PageInv' /\ tab'[s] = next
          /\ \A u \in Sessions \ {s} : tab'[u] = tab[u]
        BY <1>1, <2>2, <2>3, <2>4, AppFacts, TablesTyped, TabStep
    <2>6. ASSUME SeenOK PROVE SeenOK'
        <3>1. Lone(s) => app.version >= tab[s].acted
            BY <2>6, AppFacts, PageFacts DEF SeenOK, Seen, SeenBy
        <3>2. Lone(s) => Seen(s)'
            BY <1>1, <2>2, <2>3, <2>5, <2>6, <3>1 DEF SeenOK, Seen, SeenBy
        <3> QED
            BY <1>1, <2>5, <2>6, <3>2, AppFacts, SeenStep
    <2> QED
        BY <2>5, <2>6
<1>3. CASE FetchFails(s)
    <2> DEFINE next == [tab[s] EXCEPT !.pc = "idle", !.shown = Missing]
    <2>1. /\ next \in TabStates /\ next.pc = "idle" /\ next.shown = Missing
          /\ next.acted = tab[s].acted /\ next.warned = tab[s].warned
        BY PageFacts DEF TabStates
    <2>2. TabBecomes(s, next)
        BY <1>3 DEF FetchFails
    <2> HIDE DEF next
    <2>3. /\ PageInv' /\ tab'[s] = next
          /\ \A u \in Sessions \ {s} : tab'[u] = tab[u]
        BY <1>1, <2>1, <2>2, AppFacts, TabStep
    <2>4. ASSUME SeenOK PROVE SeenOK'
        <3>1. Lone(s) => Seen(s)'
            BY <1>1, <2>1, <2>3, <2>4 DEF SeenOK, Seen, SeenBy
        <3> QED
            BY <1>1, <2>3, <2>4, <3>1, AppFacts, SeenStep
    <2> QED
        BY <2>3, <2>4
<1> QED
    BY <1>2, <1>3

LEMMA StoreAnswerOK ==
    ASSUME PageInv, NEW s \in Sessions, StoreAnswer(s)
    PROVE  PageInv' /\ (SeenOK => SeenOK')
<1> DEFINE table == tab[s].table
           told == [tab[s] EXCEPT !.warned = Warned(tab[s])]
           next == WithTable(told, table)
<1>1. /\ TabBecomes(s, next) /\ app' = app /\ tab[s].pc = "fetched"
      /\ answers' = [answers EXCEPT ![OperatorOf[s]] = table]
    BY DEF StoreAnswer
<1>2. table \in Tables
    BY <1>1, PageFacts
<1>3. told \in TabStates /\ told.acted = tab[s].acted /\ told.warned = table.blank
    BY <1>2, PageFacts, TablesTyped DEF TabStates, Warned
<1> HIDE DEF table, told
<1>4. /\ next \in TabStates /\ next.pc \in {"idle", "rerun"}
      /\ next.acted = tab[s].acted /\ next.warned = table.blank
      /\ next.pc = "idle" => next.shown = table
    BY <1>2, <1>3, WithTableShows
<1> HIDE DEF next
<1>5. /\ answers' \in [Operators -> Tables \cup {Missing}]
      /\ answers'[OperatorOf[s]] = table
      /\ \A o \in Operators \ {OperatorOf[s]} : answers'[o] = answers[o]
    BY <1>1, <1>2, AppFacts, PageFacts
<1>6. /\ PageInv' /\ tab'[s] = next
      /\ \A u \in Sessions \ {s} : tab'[u] = tab[u]
    BY <1>1, <1>4, <1>5, AppFacts, TabStep
<1>7. ASSUME SeenOK PROVE SeenOK'
    <2>1. Lone(s) => table.version >= tab[s].acted /\ tab[s].acted <= app.version
        BY <1>1, <1>7 DEF table, SeenOK, Seen, SeenBy
    <2>2. Lone(s) => Seen(s)'
        BY <1>1, <1>4, <1>5, <1>6, <2>1 DEF Seen, SeenBy
    <2> QED
        BY <1>1, <1>5, <1>6, <1>7, <2>2, AppFacts, SeenStep
<1> QED
    BY <1>6, <1>7

LEMMA NextVersionOK ==
    ASSUME PageInv, NEW transient \in BOOLEAN, NextVersion(transient)
    PROVE  /\ app' \in AppRows /\ app'.version = app.version + 1
           /\ app.version + 1 \in 0..MaxVersion /\ app'.version >= app.version
<1>1. app.version + 1 \in 0..MaxVersion
    BY AppFacts DEF NextVersion
<1> QED
    BY <1>1, AppFacts DEF NextVersion, AppRows

LEMMA ActOK ==
    ASSUME PageInv, NEW s \in Sessions, Act(s)
    PROVE  PageInv' /\ (SeenOK => SeenOK')
<1> DEFINE next == [tab[s] EXCEPT !.pc = "acted", !.acted = app.version + 1]
<1>1. /\ TabBecomes(s, next) /\ answers' = answers /\ NextVersion(TRUE)
      /\ tab[s].pc = "idle"
    BY DEF Act, Admitted
<1>2. /\ app' \in AppRows /\ app'.version = app.version + 1
      /\ app.version + 1 \in 0..MaxVersion /\ app'.version >= app.version
    BY <1>1, NextVersionOK
<1>3. /\ next \in TabStates /\ next.pc = "acted"
      /\ next.acted = app.version + 1 /\ next.warned = tab[s].warned
    BY <1>2, PageFacts DEF TabStates
<1> HIDE DEF next
<1>4. /\ PageInv' /\ tab'[s] = next
      /\ \A u \in Sessions \ {s} : tab'[u] = tab[u]
    BY <1>1, <1>2, <1>3, AppFacts, TabStep
<1>5. ASSUME SeenOK PROVE SeenOK'
    <2>1. Lone(s) => Seen(s)'
        BY <1>1, <1>2, <1>3, <1>4, <1>5 DEF SeenOK, Seen, SeenBy
    <2> QED
        BY <1>1, <1>2, <1>4, <1>5, <2>1, SeenStep
<1> QED
    BY <1>4, <1>5

\* What no session learns of leaves the tabs, and empties answers only.
LEMMA ElsewhereOK ==
    ASSUME PageInv, \/ TaskEnds \/ ClientActs \/ UNCHANGED pageVars
                    \/ \E s \in Sessions : ActUnanswered(s)
                    \/ \E o \in Operators : AnswerExpires(o)
    PROVE  PageInv' /\ (SeenOK => SeenOK')
<1>1. app' \in AppRows /\ app'.version >= app.version /\ tab' = tab
    <2>1. CASE TaskEnds \/ ClientActs \/ \E s \in Sessions : ActUnanswered(s)
        BY <2>1, NextVersionOK DEF TaskEnds, ClientActs, ActUnanswered, Admitted
    <2>2. CASE (\E o \in Operators : AnswerExpires(o)) \/ UNCHANGED pageVars
        BY <2>2, AppFacts DEF AnswerExpires, pageVars
    <2> QED
        BY <2>1, <2>2
<1>2. /\ answers' \in [Operators -> Tables \cup {Missing}]
      /\ \A o \in Operators : answers'[o] \in {answers[o], Missing}
    BY AppFacts DEF TaskEnds, ClientActs, ActUnanswered, AnswerExpires, pageVars
<1>3. PageInv'
    BY <1>1, <1>2 DEF PageInv, PageTypeOK, FetchedOK, AppRows
<1>4. ASSUME SeenOK PROVE SeenOK'
    BY <1>1, <1>2, <1>3, <1>4, PageFacts, SeenStays DEF SeenOK
<1> QED
    BY <1>3, <1>4

LEMMA PageNextOK ==
    PageInv /\ [PageNext]_pageVars => PageInv' /\ (SeenOK => SeenOK')
<1> SUFFICES ASSUME PageInv, [PageNext]_pageVars
             PROVE  PageInv' /\ (SeenOK => SeenOK')
    OBVIOUS
<1>1. ASSUME NEW s \in Sessions,
             OpenPage(s) \/ ScriptStep(s) \/ Tick(s) \/ Act(s) \/ Reload(s)
      PROVE  PageInv' /\ (SeenOK => SeenOK')
    BY <1>1, PlainStepOK, LookupOK, FetchOK, StoreAnswerOK, ActOK DEF ScriptStep
<1>2. ASSUME NEW s \in Sessions, ActUnanswered(s)
      PROVE  PageInv' /\ (SeenOK => SeenOK')
    BY <1>2, ElsewhereOK
<1> QED
    BY <1>1, <1>2, ElsewhereOK DEF PageNext

LEMMA PageInvariant == PageSpec => []PageInv
<1>1. PageInit => PageInv
    BY PageInitOK
<1>2. PageInv /\ [PageNext]_pageVars => PageInv'
    BY PageNextOK
<1> QED
    BY <1>1, <1>2, PTL DEF PageSpec

LEMMA SeenInvariant == PageSpec => []SeenOK
<1>1. PageInit => SeenOK
    BY PageInitOK
<1>2. SeenOK /\ PageInv /\ [PageNext]_pageVars => SeenOK'
    BY PageNextOK
<1> QED
    BY <1>1, <1>2, PageInvariant, PTL DEF PageSpec

\* The app's row, the cached answers and the tabs keep their type, however many
\* sessions an operator has.
THEOREM PageTypeCorrect == PageSpec => []PageTypeOK
<1>1. PageInv => PageTypeOK
    BY DEF PageInv
<1> QED
    BY <1>1, PageInvariant, PTL

\* 1_Apps.py, _refresh_now after an action, and data.py, whose warning is the
\* session's that fetches: the only session of an operator is shown no table
\* older than an action it was answered or did in bulk, and is told of missing
\* statuses with the tables that miss them and with no others, whatever operators
\* with more sessions do and whichever other actions run unanswered.
THEOREM LoneSessionsAreTold ==
    ASSUME NEW s \in Sessions, Lone(s)
    PROVE  PageSpec => [](AtRest(s) => /\ tab[s].shown.version >= tab[s].acted
                                       /\ tab[s].shown.blank <=> tab[s].warned)
<1>1. SeenOK => (AtRest(s) => /\ tab[s].shown.version >= tab[s].acted
                              /\ tab[s].shown.blank <=> tab[s].warned)
    BY Lone(s) DEF SeenOK, Seen, SeenBy, AtRest
<1> QED
    BY <1>1, SeenInvariant, PTL

\* 1_Apps.py, _refresh_now after an action that was answered and after a bulk
\* action: no session is shown a table older than such an action of its own, if
\* it is the only one its operator has open.
THEOREM OwnActionsAreShown ==
    ASSUME \A s \in Sessions : Lone(s)
    PROVE  PageSpec => []OwnActionShown
<1>1. SeenOK => OwnActionShown
    BY DEF SeenOK, Seen, SeenBy, OwnActionShown, AtRest
<1> QED
    BY <1>1, SeenInvariant, PTL

\* data.py, apps_status_unavailable: a session that is its operator's only one
\* is warned with a table that lacks the statuses, and with no other.
THEOREM BlanksAreWarnedOf ==
    ASSUME \A s \in Sessions : Lone(s)
    PROVE  PageSpec => []BlankMeansWarned
<1>1. SeenOK => BlankMeansWarned
    BY DEF SeenOK, Seen, SeenBy, BlankMeansWarned, AtRest
<1> QED
    BY <1>1, SeenInvariant, PTL

-----------------------------------------------------------------------------
(* The downloads of the Logs page.                                         *)

JobStates == [key : Sources \cup {NoLogs}, listed : BOOLEAN,
              status : {"PENDING"} \cup Endings, logs : Sources \cup {NoLogs},
              finished : 0..Never, lost : BOOLEAN]

ViewStates == [job : 0..MaxJobs, logs : Sources \cup {NoLogs}, asked : 0..MaxWall,
               status : {"none", "PENDING"} \cup Endings]

PollStates == [pc : {"idle", "found", "answered"}, source : Sources \cup {NoLogs},
               job : 0..MaxJobs, logs : Sources \cup {NoLogs}, page : BOOLEAN,
               status : {"none", "PENDING"} \cup Endings]

\* A job is what its task has made of it, and is dropped unfinished by a
\* restart alone.
JobOK(job, now) ==
    /\ job.listed => job.key \in Sources
    /\ job.key = NoLogs => ~job.lost /\ job.status = "PENDING"
    /\ job.status = "PENDING" => job.finished = Never
    /\ job.status # "PENDING" => job.finished <= now
    /\ job.logs = IF job.status = "READY" THEN job.key ELSE NoLogs
    /\ job.key # NoLogs /\ ~job.listed /\ ~job.lost =>
           job.status # "PENDING" /\ now - job.finished > LogTtl

\* A page has a job of its source, and saw it unfinished before it ended.
ViewOK(p) ==
    /\ view[p].status # "none" => view[p].job # 0
    /\ view[p].asked <= wall
    /\ view[p].job # 0 => /\ jobs[view[p].job].key = shows[p]
                          /\ view[p].asked <= jobs[view[p].job].finished
    /\ view[p].status = "READY" => view[p].logs = shows[p]

\* A request has found a job of the source it names, and what it has read of
\* the job stays true of it.
PollOK(p) ==
    /\ poll[p].pc # "idle" =>
           /\ poll[p].job # 0 /\ poll[p].status # "none"
           /\ poll[p].source \in Sources
           /\ jobs[poll[p].job].key = poll[p].source
           /\ poll[p].status = "READY" => jobs[poll[p].job].status = "READY"
    /\ poll[p].pc = "answered" =>
           /\ poll[p].logs \in {NoLogs, poll[p].source}
           /\ poll[p].status = "READY" => poll[p].logs = poll[p].source

JobsOK == \A j \in JobIds : JobOK(jobs[j], wall)
ViewsOK == \A p \in Pages : ViewOK(p)
PollsOK == \A p \in Pages : PollOK(p)

LogInv == LogTypeOK /\ JobsOK /\ ViewsOK /\ PollsOK

-----------------------------------------------------------------------------

LEMMA LogFacts ==
    ASSUME LogInv
    PROVE  /\ wall \in 0..MaxWall /\ jobs \in [JobIds -> JobStates]
           /\ shows \in [Pages -> Sources]
           /\ view \in [Pages -> ViewStates] /\ poll \in [Pages -> PollStates]
           /\ may \in SUBSET Sources /\ losses \in 0..MaxLosses
           /\ MaxJobs \in Nat /\ MaxWall \in Nat /\ LogTtl \in Nat
           /\ NoLogs \notin Sources
           /\ Never \in 0..Never /\ Never \in Nat
           /\ \A n \in 0..MaxWall : n \in 0..Never /\ n <= Never /\ n \in Nat /\ n <= n
<1>1. Never \in Nat /\ \A n \in 0..MaxWall : n \in 0..Never /\ n <= Never
    BY LogAssumption DEF Never
<1> QED
    BY <1>1, LogAssumption DEF LogInv, LogTypeOK, JobStates, ViewStates, PollStates

LEMMA JobFacts ==
    ASSUME LogInv, NEW j \in JobIds
    PROVE  /\ jobs[j] \in JobStates /\ JobOK(jobs[j], wall)
           /\ jobs[j].key \in Sources \cup {NoLogs} /\ jobs[j].finished \in 0..Never
           /\ jobs[j].status \in {"PENDING"} \cup Endings
           /\ jobs[j].logs \in Sources \cup {NoLogs}
           /\ jobs[j].listed \in BOOLEAN /\ jobs[j].lost \in BOOLEAN
           /\ jobs[j].finished \in Nat /\ j \in 0..MaxJobs /\ j # 0
<1>1. j \in 0..MaxJobs /\ j # 0 /\ \A n \in 0..Never : n \in Nat
    BY LogFacts DEF JobIds
<1> QED
    BY <1>1, LogFacts DEF LogInv, JobsOK, JobStates

LEMMA PageFactsOfLogs ==
    ASSUME LogInv, NEW p \in Pages
    PROVE  /\ view[p] \in ViewStates /\ poll[p] \in PollStates /\ shows[p] \in Sources
           /\ view[p].job \in 0..MaxJobs /\ poll[p].job \in 0..MaxJobs
           /\ view[p].asked \in 0..MaxWall
           /\ view[p].job # 0 => view[p].job \in JobIds
           /\ poll[p].job # 0 => poll[p].job \in JobIds
           /\ ViewOK(p) /\ PollOK(p)
BY LogFacts DEF LogInv, ViewsOK, PollsOK, ViewStates, PollStates, JobIds

\* The jobs as the pages know them go on: none changes its source, none that
\* is ready ceases to be, and none ends before it was last seen unfinished.
GoesOn(job, next) ==
    /\ job.key # NoLogs => next.key = job.key
    /\ job.status = "READY" => next.status = "READY"
    /\ next.finished = job.finished \/ wall <= next.finished

\* A step of the Controller or of time: it leaves the pages as they are.
LEMMA JobsStep ==
    ASSUME LogInv, NEW jobsNext \in [JobIds -> JobStates], jobs' = jobsNext,
           wall' \in 0..MaxWall, wall <= wall',
           UNCHANGED <<shows, view, poll, losses>>, may' = may,
           \A j \in JobIds : JobOK(jobsNext[j], wall') /\ GoesOn(jobs[j], jobsNext[j])
    PROVE  LogInv'
<1>1. LogTypeOK'
    BY DEF LogInv, LogTypeOK, JobStates
<1>2. JobsOK'
    BY DEF JobsOK
<1>3. ASSUME NEW p \in Pages PROVE ViewOK(p)' /\ PollOK(p)'
    <2>1. /\ view'[p] = view[p] /\ poll'[p] = poll[p] /\ shows'[p] = shows[p]
          /\ shows[p] # NoLogs
        BY PageFactsOfLogs, LogFacts
    <2>2. view[p].asked <= wall' /\ view[p].asked <= wall
          /\ wall \in Nat /\ wall' \in Nat /\ view[p].asked \in Nat
        BY PageFactsOfLogs, LogFacts DEF ViewOK
    <2>3. ViewOK(p)'
        <3>1. ASSUME view[p].job # 0
              PROVE  /\ jobs'[view[p].job].key = shows[p]
                     /\ view[p].asked <= jobs'[view[p].job].finished
            <4>1. /\ view[p].job \in JobIds /\ jobs[view[p].job].key = shows[p]
                  /\ view[p].asked <= jobs[view[p].job].finished
                BY <3>1, PageFactsOfLogs DEF ViewOK
            <4>2. /\ GoesOn(jobs[view[p].job], jobs'[view[p].job])
                  /\ jobs'[view[p].job].finished \in 0..Never
                BY <4>1 DEF JobStates
            <4> QED
                BY <2>1, <2>2, <4>1, <4>2, LogFacts DEF GoesOn, Never
        <3> QED
            BY <2>1, <2>2, <3>1, PageFactsOfLogs DEF ViewOK
    <2>4. PollOK(p)'
        <3>1. ASSUME poll[p].pc # "idle"
              PROVE  /\ jobs'[poll[p].job].key = poll[p].source
                     /\ poll[p].status = "READY" => jobs'[poll[p].job].status = "READY"
            BY <3>1, PageFactsOfLogs, LogFacts DEF PollOK, GoesOn
        <3> QED
            BY <2>1, <3>1, PageFactsOfLogs DEF PollOK
    <2> QED
        BY <2>3, <2>4
<1> QED
    BY <1>1, <1>2, <1>3 DEF LogInv, ViewsOK, PollsOK

\* A step of one page that leaves the jobs.
LEMMA PageStep ==
    ASSUME LogInv, NEW p \in Pages, UNCHANGED <<wall, jobs, shows>>,
           may' = may, losses' \in 0..MaxLosses,
           NEW v \in ViewStates, view' = [view EXCEPT ![p] = v], ViewOK(p)',
           NEW q \in PollStates, poll' = [poll EXCEPT ![p] = q], PollOK(p)'
    PROVE  LogInv'
<1>1. view' \in [Pages -> ViewStates] /\ poll' \in [Pages -> PollStates]
    BY LogFacts
<1>2. LogTypeOK'
    BY <1>1 DEF LogInv, LogTypeOK, ViewStates, PollStates
<1>3. JobsOK'
    BY DEF LogInv, JobsOK
<1>4. ASSUME NEW u \in Pages, u # p PROVE ViewOK(u)' /\ PollOK(u)'
    <2>1. view'[u] = view[u] /\ poll'[u] = poll[u]
        BY <1>4, LogFacts
    <2> QED
        BY <2>1, PageFactsOfLogs DEF ViewOK, PollOK
<1> QED
    BY <1>2, <1>3, <1>4 DEF LogInv, ViewsOK, PollsOK

-----------------------------------------------------------------------------

LEMMA LogInitOK == LogInit => LogInv
<1> SUFFICES ASSUME LogInit PROVE LogInv
    OBVIOUS
<1>1. 0 \in 0..MaxWall /\ Never \in 0..Never /\ 0 \in 0..MaxJobs /\ 0 \in 0..MaxLosses
      /\ 0 <= Never
    BY LogAssumption DEF Never
<1>2. NoJob \in JobStates /\ JobOK(NoJob, 0)
    BY <1>1, LogAssumption DEF NoJob, JobStates, JobOK
<1>3. NoView \in ViewStates /\ NoPoll \in PollStates
    BY <1>1 DEF NoView, NoPoll, ViewStates, PollStates
<1>4. LogTypeOK
    BY <1>1, <1>2, <1>3 DEF LogInit, LogTypeOK, JobStates, ViewStates, PollStates
<1>5. JobsOK
    BY <1>2 DEF LogInit, JobsOK
<1>6. ViewsOK /\ PollsOK
    BY <1>1 DEF LogInit, ViewsOK, PollsOK, ViewOK, PollOK, NoView, NoPoll
<1> QED
    BY <1>4, <1>5, <1>6 DEF LogInv

LEMMA StartDownloadOK ==
    ASSUME LogInv, NEW p \in Pages, StartDownload(p)
    PROVE  LogInv'
<1> DEFINE fresh == [NoJob EXCEPT !.key = shows[p], !.listed = TRUE]
           dropped(i) == IF Stale(jobs[i]) THEN [jobs[i] EXCEPT !.listed = FALSE]
                         ELSE jobs[i]
<1>1. PICK j \in JobIds :
          /\ jobs[j].key = NoLogs
          /\ jobs' = [i \in JobIds |-> IF i = j THEN fresh ELSE dropped(i)]
          /\ \/ view' = [view EXCEPT ![p] =
                            [NoView EXCEPT !.job = j, !.status = "PENDING", !.asked = wall]]
             \/ view' = view
    BY DEF StartDownload
<1>2. /\ UNCHANGED <<wall, shows, poll, may, losses>>
      /\ shows[p] \in Sources /\ shows[p] # NoLogs
    BY PageFactsOfLogs, LogFacts DEF StartDownload
<1>3. /\ fresh \in JobStates /\ JobOK(fresh, wall)
      /\ fresh.key = shows[p] /\ fresh.finished = Never /\ fresh.status = "PENDING"
    <2>1. /\ NoJob \in JobStates /\ NoJob.status = "PENDING" /\ NoJob.lost = FALSE
          /\ NoJob.logs = NoLogs /\ NoJob.finished = Never
        BY LogFacts DEF NoJob, JobStates
    <2>2. /\ fresh \in JobStates /\ fresh.key = shows[p] /\ fresh.listed = TRUE
          /\ fresh.status = "PENDING" /\ fresh.lost = FALSE
          /\ fresh.logs = NoLogs /\ fresh.finished = Never
        BY <1>2, <2>1 DEF JobStates
    <2> HIDE DEF fresh
    <2> QED
        BY <1>2, <2>2 DEF JobOK
<1>4. ASSUME NEW i \in JobIds
      PROVE  /\ dropped(i) \in JobStates /\ JobOK(dropped(i), wall)
             /\ dropped(i).key = jobs[i].key /\ dropped(i).status = jobs[i].status
             /\ dropped(i).finished = jobs[i].finished
    <2>1. CASE Stale(jobs[i])
        <3> DEFINE next == [jobs[i] EXCEPT !.listed = FALSE]
        <3>1. /\ next \in JobStates /\ next.key = jobs[i].key
              /\ next.status = jobs[i].status /\ next.finished = jobs[i].finished
              /\ next.logs = jobs[i].logs /\ next.lost = jobs[i].lost
              /\ next.listed = FALSE
            BY JobFacts DEF JobStates
        <3>2. dropped(i) = next
            BY <2>1
        <3> HIDE DEF next
        <3>3. JobOK(next, wall)
            BY <2>1, <3>1, JobFacts DEF JobOK, Stale
        <3> QED
            BY <3>1, <3>2, <3>3
    <2>2. CASE ~Stale(jobs[i])
        BY <2>2, JobFacts
    <2> QED
        BY <2>1, <2>2
<1> HIDE DEF fresh, dropped
<1>5. /\ jobs' \in [JobIds -> JobStates] /\ jobs'[j] = fresh
      /\ \A i \in JobIds \ {j} : jobs'[i] = dropped(i)
    BY <1>1, <1>3, <1>4
<1>6. view' \in [Pages -> ViewStates]
    <2>1. [NoView EXCEPT !.job = j, !.status = "PENDING", !.asked = wall] \in ViewStates
        BY JobFacts, LogFacts DEF NoView, ViewStates
    <2> QED
        BY <1>1, <2>1, LogFacts
<1>7. LogTypeOK'
    BY <1>2, <1>5, <1>6 DEF LogInv, LogTypeOK, JobStates, ViewStates
<1>8. JobsOK'
    BY <1>2, <1>3, <1>4, <1>5 DEF JobsOK
<1>9. ASSUME NEW u \in Pages PROVE PollOK(u)'
    <2>1. poll[u].pc # "idle" =>
              /\ poll[u].job \in JobIds \ {j}
              /\ jobs'[poll[u].job].key = jobs[poll[u].job].key
              /\ jobs'[poll[u].job].status = jobs[poll[u].job].status
        BY <1>1, <1>4, <1>5, PageFactsOfLogs, LogFacts DEF PollOK
    <2> QED
        BY <1>2, <2>1, PageFactsOfLogs DEF PollOK
<1>10. ASSUME NEW u \in Pages, view'[u] = view[u] PROVE ViewOK(u)'
    <2>1. view[u].job # 0 =>
              /\ view[u].job \in JobIds \ {j}
              /\ jobs'[view[u].job].key = jobs[view[u].job].key
              /\ jobs'[view[u].job].finished = jobs[view[u].job].finished
        BY <1>1, <1>4, <1>5, PageFactsOfLogs, LogFacts DEF ViewOK
    <2> QED
        BY <1>2, <1>10, <2>1, PageFactsOfLogs DEF ViewOK
<1>11. ASSUME NEW u \in Pages, view'[u] # view[u] PROVE ViewOK(u)'
    <2>1. /\ u = p
          /\ view'[u] = [NoView EXCEPT !.job = j, !.status = "PENDING", !.asked = wall]
        BY <1>1, <1>11, LogFacts
    <2>2. /\ view'[u].job = j /\ view'[u].status = "PENDING" /\ view'[u].asked = wall
        BY <2>1 DEF NoView
    <2>3. wall <= Never /\ wall <= wall /\ wall' = wall /\ shows' = shows
        BY <1>2, LogFacts
    <2>4. jobs'[view'[u].job].key = shows[u] /\ jobs'[view'[u].job].finished = Never
        BY <1>3, <1>5, <2>1, <2>2
    <2>5. view'[u].asked <= wall' /\ view'[u].asked <= jobs'[view'[u].job].finished
        BY <2>2, <2>3, <2>4
    <2> QED
        BY <2>2, <2>3, <2>4, <2>5, JobFacts DEF ViewOK
<1> QED
    BY <1>7, <1>8, <1>9, <1>10, <1>11 DEF LogInv, ViewsOK, PollsOK

LEMMA RunLogDownloadOK ==
    ASSUME LogInv, NEW j \in JobIds, RunLogDownload(j)
    PROVE  LogInv'
<1>1. PICK ok \in BOOLEAN : jobs' = [jobs EXCEPT ![j] = Outcome(jobs[j], ok)]
    BY DEF RunLogDownload
<1>2. /\ jobs[j].listed /\ jobs[j].status = "PENDING"
      /\ UNCHANGED <<wall, shows, view, poll, may, losses>>
    BY DEF RunLogDownload
<1> DEFINE next == Outcome(jobs[j], ok)
<1>3. /\ next \in JobStates /\ next.key = jobs[j].key /\ next.listed = jobs[j].listed
      /\ next.status = (IF ok THEN "READY" ELSE "FAILED") /\ next.finished = wall
      /\ next.logs = (IF ok THEN jobs[j].key ELSE NoLogs)
    <2>1. (IF ok THEN "READY" ELSE "FAILED") \in {"PENDING"} \cup Endings
        BY DEF Endings
    <2>2. (IF ok THEN jobs[j].key ELSE NoLogs) \in Sources \cup {NoLogs}
          /\ wall \in 0..Never
        BY JobFacts, LogFacts
    <2> QED
        BY <2>1, <2>2, JobFacts DEF Outcome, JobStates
<1> HIDE DEF next
<1>4. JobOK(next, wall) /\ GoesOn(jobs[j], next)
    BY <1>2, <1>3, JobFacts, LogFacts DEF JobOK, GoesOn
<1>5. /\ jobs' \in [JobIds -> JobStates] /\ jobs'[j] = next
      /\ \A i \in JobIds \ {j} : jobs'[i] = jobs[i]
    BY <1>1, <1>3, LogFacts DEF next
<1>6. ASSUME NEW i \in JobIds PROVE JobOK(jobs'[i], wall') /\ GoesOn(jobs[i], jobs'[i])
    BY <1>2, <1>4, <1>5, JobFacts DEF GoesOn
<1>7. wall' \in 0..MaxWall /\ wall <= wall'
    BY <1>2, LogFacts
<1> QED
    BY <1>2, <1>5, <1>6, <1>7, JobsStep

LEMMA RestartControllerOK ==
    ASSUME LogInv, RestartController
    PROVE  LogInv'
<1>1. /\ jobs' = [j \in JobIds |-> [jobs[j] EXCEPT
                     !.listed = FALSE, !.lost = jobs[j].lost \/ jobs[j].listed]]
      /\ poll' = [p \in Pages |-> NoPoll]
      /\ UNCHANGED <<wall, shows, view, may, losses>>
    BY DEF RestartController
<1>2. ASSUME NEW j \in JobIds
      PROVE  /\ jobs'[j] \in JobStates /\ JobOK(jobs'[j], wall)
             /\ jobs'[j].key = jobs[j].key /\ jobs'[j].finished = jobs[j].finished
    <2>1. /\ jobs'[j] \in JobStates /\ jobs'[j].key = jobs[j].key
          /\ jobs'[j].finished = jobs[j].finished /\ jobs'[j].status = jobs[j].status
          /\ jobs'[j].logs = jobs[j].logs /\ jobs'[j].listed = FALSE
          /\ jobs'[j].lost = (jobs[j].lost \/ jobs[j].listed)
        BY <1>1, JobFacts DEF JobStates
    <2>2. JobOK(jobs'[j], wall)
        BY <2>1, JobFacts, LogFacts DEF JobOK
    <2> QED
        BY <2>1, <2>2
<1>3. NoPoll \in PollStates /\ NoPoll.pc = "idle"
    BY LogFacts DEF NoPoll, PollStates
<1>4. jobs' \in [JobIds -> JobStates] /\ poll' \in [Pages -> PollStates]
    BY <1>1, <1>2, <1>3
<1>5. LogTypeOK'
    BY <1>1, <1>4 DEF LogInv, LogTypeOK, JobStates, PollStates
<1>6. JobsOK'
    BY <1>1, <1>2 DEF JobsOK
<1>7. ASSUME NEW p \in Pages PROVE ViewOK(p)' /\ PollOK(p)'
    <2>1. PollOK(p)'
        BY <1>1, <1>3 DEF PollOK
    <2>2. view'[p] = view[p] /\ shows'[p] = shows[p] /\ wall' = wall
        BY <1>1
    <2>3. view[p].job # 0 => /\ jobs'[view[p].job].key = jobs[view[p].job].key
                             /\ jobs'[view[p].job].finished = jobs[view[p].job].finished
        BY <1>2, PageFactsOfLogs
    <2>4. ViewOK(p)'
        BY <2>2, <2>3, PageFactsOfLogs DEF ViewOK
    <2> QED
        BY <2>1, <2>4
<1> QED
    BY <1>5, <1>6, <1>7 DEF LogInv, ViewsOK, PollsOK

LEMMA TimePassesOK ==
    ASSUME LogInv, TimePasses
    PROVE  LogInv'
<1>1. /\ wall' = wall + 1 /\ wall < MaxWall
      /\ UNCHANGED <<jobs, shows, view, poll, may, losses>>
    BY DEF TimePasses
<1>2. wall' \in 0..MaxWall /\ wall <= wall'
    BY <1>1, LogFacts
<1>3. ASSUME NEW j \in JobIds PROVE JobOK(jobs[j], wall') /\ GoesOn(jobs[j], jobs[j])
    BY <1>1, JobFacts, LogFacts DEF JobOK, GoesOn, Never
<1> QED
    BY <1>1, <1>2, <1>3, LogFacts, JobsStep

-----------------------------------------------------------------------------

\* A request finds a job, for the page or for a client beside it.
LEMMA LookUpJobOK ==
    ASSUME LogInv, NEW p \in Pages, Poll(p) \/ ClientPoll(p)
    PROVE  LogInv'
<1>1. PICK s \in Sources, j \in JobIds, page \in BOOLEAN :
          /\ Known(j, s) /\ poll[p].pc = "idle"
          /\ poll' = [poll EXCEPT ![p] =
                 [pc |-> "found", source |-> s, job |-> j,
                  status |-> jobs[j].status, logs |-> NoLogs, page |-> page]]
          /\ UNCHANGED <<wall, jobs, shows, may, losses>>
    <2>1. CASE Poll(p)
        <3>1. Known(view[p].job, shows[p]) /\ LookUpJob(p, shows[p], view[p].job, TRUE)
            BY <2>1 DEF Poll, LookUpJob
        <3> QED
            BY <3>1, PageFactsOfLogs DEF LookUpJob, Known
    <2>2. CASE ClientPoll(p)
        BY <2>2 DEF ClientPoll, LookUpJob
    <2> QED
        BY <2>1, <2>2
<1> DEFINE q == [pc |-> "found", source |-> s, job |-> j,
                 status |-> jobs[j].status, logs |-> NoLogs, page |-> page]
<1>2. q \in PollStates
    BY JobFacts, LogFacts DEF PollStates, JobIds, Endings
<1>3. /\ poll' = [poll EXCEPT ![p] = q] /\ poll'[p] = q
      /\ jobs[j].key = s /\ j # 0 /\ jobs[j].status # "none"
    BY <1>1, JobFacts, LogFacts DEF Known, JobIds, Endings
<1>4. PollOK(p)'
    BY <1>1, <1>3 DEF PollOK
<1>5. PICK asked \in 0..MaxWall :
          /\ view' = [view EXCEPT ![p] = [view[p] EXCEPT !.asked = asked]]
          /\ asked <= wall
          /\ \/ asked = view[p].asked
             \/ view[p].job # 0 /\ jobs[view[p].job].status = "PENDING"
    <2>1. CASE ClientPoll(p)
        <3>1. view' = [view EXCEPT ![p] = [view[p] EXCEPT !.asked = view[p].asked]]
            BY <2>1, LogFacts, PageFactsOfLogs DEF ClientPoll, ViewStates
        <3> QED
            BY <3>1, PageFactsOfLogs DEF ViewOK
    <2>2. CASE Poll(p)
        <3>1. view' = [view EXCEPT ![p].asked =
                          IF jobs[view[p].job].status = "PENDING" THEN wall
                          ELSE view[p].asked]
            BY <2>2 DEF Poll
        <3>2. view[p].job # 0
            BY <2>2, PageFactsOfLogs DEF Poll, ViewOK
        <3>3. wall \in 0..MaxWall /\ view[p].asked \in 0..MaxWall
              /\ view[p].asked <= wall /\ wall <= wall
            BY PageFactsOfLogs, LogFacts DEF ViewOK
        <3> QED
            BY <3>1, <3>2, <3>3, LogFacts
    <2> QED
        BY <2>1, <2>2
<1> DEFINE v == [view[p] EXCEPT !.asked = asked]
<1>6. /\ v \in ViewStates /\ v.job = view[p].job /\ v.asked = asked
      /\ v.status = view[p].status /\ v.logs = view[p].logs
    BY PageFactsOfLogs DEF ViewStates
<1>7. view' = [view EXCEPT ![p] = v] /\ view'[p] = v
    BY <1>5, LogFacts
<1> HIDE DEF q, v
<1>8. ViewOK(p)'
    <2>1. v.job # 0 => v.asked <= jobs[v.job].finished
        <3>1. CASE asked = view[p].asked
            BY <1>6, <3>1, PageFactsOfLogs DEF ViewOK
        <3>2. CASE view[p].job # 0 /\ jobs[view[p].job].status = "PENDING"
            <4>1. jobs[view[p].job].finished = Never
                BY <3>2, PageFactsOfLogs, JobFacts DEF JobOK
            <4> QED
                BY <1>6, <4>1, LogFacts DEF Never
        <3> QED
            BY <1>5, <3>1, <3>2
    <2> QED
        BY <1>1, <1>5, <1>6, <1>7, <2>1, PageFactsOfLogs DEF ViewOK
<1> QED
    BY <1>1, <1>2, <1>3, <1>4, <1>6, <1>7, <1>8, LogFacts, PageStep

\* The logs are read later than the status, which stays what it was.
LEMMA ReadLogsOK ==
    ASSUME LogInv, NEW p \in Pages, ReadLogs(p)
    PROVE  LogInv'
<1> DEFINE q == [poll[p] EXCEPT !.pc = "answered", !.logs = jobs[poll[p].job].logs]
<1>1. /\ poll[p].pc = "found" /\ UNCHANGED <<wall, jobs, shows, view, may, losses>>
      /\ poll' = [poll EXCEPT ![p] = q]
    BY LogFacts DEF ReadLogs
<1>2. poll[p].job \in JobIds
    BY <1>1, PageFactsOfLogs DEF PollOK
<1>3. /\ q \in PollStates /\ q.pc = "answered" /\ q.source = poll[p].source
      /\ q.job = poll[p].job /\ q.status = poll[p].status
      /\ q.logs = jobs[poll[p].job].logs
    BY <1>2, PageFactsOfLogs, JobFacts DEF PollStates
<1> HIDE DEF q
<1>4. poll'[p] = q /\ view'[p] = view[p] /\ view' = [view EXCEPT ![p] = view[p]]
    BY <1>1, LogFacts
<1>5. PollOK(p)'
    BY <1>1, <1>2, <1>3, <1>4, PageFactsOfLogs, JobFacts DEF PollOK, JobOK
<1>6. ViewOK(p)'
    BY <1>1, <1>4, PageFactsOfLogs DEF ViewOK
<1> QED
    BY <1>1, <1>3, <1>4, <1>5, <1>6, PageFactsOfLogs, LogFacts, PageStep

LEMMA AnswerOK ==
    ASSUME LogInv, NEW p \in Pages, Answered(p) \/ AnswerLost(p)
    PROVE  LogInv'
<1>1. /\ UNCHANGED <<wall, jobs, shows, may>> /\ losses' \in 0..MaxLosses
      /\ poll' = [poll EXCEPT ![p] = NoPoll]
    BY LogFacts, LogAssumption DEF Answered, AnswerLost
<1>2. NoPoll \in PollStates /\ NoPoll.pc = "idle" /\ poll'[p] = NoPoll
    BY <1>1, LogFacts DEF NoPoll, PollStates
<1>3. PollOK(p)'
    BY <1>2 DEF PollOK
<1>4. CASE view' = view
    <2>1. view'[p] = view[p] /\ view' = [view EXCEPT ![p] = view[p]]
        BY <1>4, LogFacts
    <2>2. ViewOK(p)'
        BY <1>1, <2>1, PageFactsOfLogs DEF ViewOK
    <2> QED
        BY <1>1, <1>2, <1>3, <2>1, <2>2, PageFactsOfLogs, PageStep
<1>5. CASE view' # view
    <2> DEFINE v == [view[p] EXCEPT !.status = poll[p].status, !.logs = poll[p].logs]
    <2>1. /\ poll[p].pc = "answered" /\ view[p].job = poll[p].job
          /\ view' = [view EXCEPT ![p] = v]
        BY <1>5, LogFacts DEF Answered, AnswerLost
    <2>2. /\ v \in ViewStates /\ v.job = view[p].job /\ v.asked = view[p].asked
          /\ v.status = poll[p].status /\ v.logs = poll[p].logs
        BY PageFactsOfLogs DEF ViewStates, PollStates
    <2> HIDE DEF v
    <2>3. /\ view[p].job # 0 /\ jobs[view[p].job].key = shows[p]
          /\ jobs[view[p].job].key = poll[p].source
          /\ poll[p].status = "READY" => poll[p].logs = poll[p].source
        BY <2>1, PageFactsOfLogs DEF ViewOK, PollOK
    <2>4. view'[p] = v
        BY <2>1, LogFacts
    <2>5. ViewOK(p)'
        BY <1>1, <2>2, <2>3, <2>4, PageFactsOfLogs DEF ViewOK
    <2> QED
        BY <1>1, <1>2, <1>3, <2>1, <2>2, <2>5, PageStep
<1> QED
    BY <1>4, <1>5

LEMMA RegrantOK ==
    ASSUME LogInv, Regrant \/ UNCHANGED logVars
    PROVE  LogInv'
<1>1. may' \in SUBSET Sources /\ UNCHANGED <<wall, jobs, shows, view, poll, losses>>
    BY LogFacts DEF Regrant, logVars
<1>2. LogTypeOK'
    BY <1>1 DEF LogInv, LogTypeOK
<1>3. JobsOK' /\ ViewsOK' /\ PollsOK'
    BY <1>1 DEF LogInv, JobsOK, ViewsOK, ViewOK, PollsOK, PollOK
<1> QED
    BY <1>2, <1>3 DEF LogInv

LEMMA LogNextOK == LogInv /\ [LogNext]_logVars => LogInv'
BY StartDownloadOK, LookUpJobOK, ReadLogsOK, AnswerOK, RunLogDownloadOK, RegrantOK,
   TimePassesOK, RestartControllerOK
DEF LogNext

LEMMA LogInvariant == LogSpec => []LogInv
BY LogInitOK, LogNextOK, PTL DEF LogSpec

\* The jobs, the pages' states and the requests under way keep their type.
THEOREM LogTypeCorrect == LogSpec => []LogTypeOK
<1>1. LogInv => LogTypeOK
    BY DEF LogInv
<1> QED
    BY <1>1, LogInvariant, PTL

\* log_jobs.py, _run_log_download and _get_log_job: since a task ends its job in
\* one assignment and a job is found for its own source only, nobody is given
\* the logs of another source, or an ended download without them.
THEOREM LogsAlwaysMatchSource == LogSpec => []LogsMatchSource
<1>1. LogInv => LogsMatchSource
    BY PageFactsOfLogs, LogFacts DEF LogsMatchSource, ViewOK, PollOK
<1> QED
    BY <1>1, LogInvariant, PTL

\* log_jobs.py, _start_log_download: a page that asks for its job within the
\* lifetime of finished jobs finds it, unless the Controller has restarted.
THEOREM PollingAlwaysKeepsJob == LogSpec => []PollingKeepsJob
<1>1. ASSUME LogInv, NEW p \in Pages, view[p].status = "PENDING",
             ~jobs[view[p].job].listed, ~jobs[view[p].job].lost
      PROVE  wall - view[p].asked > LogTtl
    <2>1. /\ view[p].job \in JobIds /\ jobs[view[p].job].key # NoLogs
          /\ view[p].asked <= jobs[view[p].job].finished
        BY <1>1, PageFactsOfLogs, LogFacts DEF ViewOK
    <2>2. wall - jobs[view[p].job].finished > LogTtl
        BY <1>1, <2>1, JobFacts DEF JobOK
    <2>3. /\ jobs[view[p].job].finished \in Int /\ view[p].asked \in Int
          /\ wall \in Int /\ LogTtl \in Int
        BY <1>1, <2>1, JobFacts, PageFactsOfLogs, LogFacts
    <2> QED
        BY <2>1, <2>2, <2>3
<1>2. LogInv => PollingKeepsJob
    BY <1>1 DEF PollingKeepsJob
<1> QED
    BY <1>2, LogInvariant, PTL

-----------------------------------------------------------------------------
(* The constants of an app.                                                *)

Served == [registered : BOOLEAN, stored : SUBSET ConstNames,
           pad : Pads \cup {NoPad}, staged : Pads \cup {NoPad},
           task : {"none", "deploy", "restart", "constants", "apply"},
           adding : SUBSET ConstNames]

ServedOK ==
    /\ served \in Served
    /\ ~served.registered => /\ served.stored = {} /\ served.pad = NoPad
                             /\ served.task = "none" /\ served.adding = {}
    /\ secret \in [ConstNames -> {"none", "masked", "value"}]

PanelsOK ==
    panel \in [Panels -> [pc : {"idle", "save", "redeploy"}, seeded : BOOLEAN,
                          editor : [ConstNames -> Lines],
                          seen : SUBSET ConstNames, hint : SUBSET ConstNames,
                          answer : Answers]]

\* The names an update is about to store have their values already.
AddingHaveValues ==
    served.task = "constants" => \A n \in served.adding : secret[n] = "value"

\* A deploy has a PAD, and its constants are stored before it is stamped.
DeployHasPad ==
    /\ served.task \in {"deploy", "restart"} => served.staged \in Pads
    /\ served.task = "restart" => Declares[served.staged] \subseteq served.stored

EditorInv ==
    ServedOK /\ StoredHaveValues /\ PadHasConstants /\ AddingHaveValues /\ DeployHasPad

-----------------------------------------------------------------------------

LEMMA EditorFacts ==
    ASSUME ServedOK
    PROVE  /\ served.registered \in BOOLEAN /\ served.stored \in SUBSET ConstNames
           /\ served.pad \in Pads \cup {NoPad} /\ served.staged \in Pads \cup {NoPad}
           /\ served.task \in {"none", "deploy", "restart", "constants", "apply"}
           /\ served.adding \in SUBSET ConstNames
           /\ served.task # "none" => served.registered
           /\ ~served.registered => /\ served.stored = {} /\ served.pad = NoPad
                                    /\ served.task = "none"
BY DEF ServedOK, Served

LEMMA NotServedTyped ==
    ASSUME NEW staged \in Pads \cup {NoPad}
    PROVE  /\ NotServed(staged) \in Served /\ NotServed(staged).registered = FALSE
           /\ NotServed(staged).stored = {} /\ NotServed(staged).pad = NoPad
           /\ NotServed(staged).staged = staged /\ NotServed(staged).task = "none"
           /\ NotServed(staged).adding = {}
BY DEF NotServed, Served

LEMMA EditorInitOK == EditorInit => EditorInv
<1> SUFFICES ASSUME EditorInit PROVE EditorInv
    OBVIOUS
<1>1. served = NotServed(NoPad) /\ secret = [n \in ConstNames |-> "none"]
    BY DEF EditorInit
<1>2. served \in Served
    BY <1>1, NotServedTyped
<1> QED
    BY <1>1, <1>2, NotServedTyped
    DEF EditorInv, ServedOK, StoredHaveValues, PadHasConstants, AddingHaveValues,
        DeployHasPad

\* The panels' own steps change nothing of the app.
LEMMA AppStays ==
    ASSUME EditorInv, UNCHANGED <<served, secret>>
    PROVE  EditorInv'
BY DEF EditorInv, ServedOK, StoredHaveValues, PadHasConstants, AddingHaveValues,
       DeployHasPad

\* update_constants: a line that is kept masked names a stored constant, and
\* every other line of the request has just been given its value.
LEMMA SaveOK ==
    ASSUME EditorInv, PanelsOK, NEW s \in Panels, Save(s)
    PROVE  EditorInv'
<1> DEFINE editor == panel[s].editor
<1>1. CASE SaveAnswer(editor) # "started"
    <2>1. UNCHANGED <<served, secret>>
        BY <1>1 DEF Save
    <2> QED
        BY <2>1, AppStays
<1>2. CASE SaveAnswer(editor) = "started"
    <2>1. /\ served' = [served EXCEPT !.task = "constants", !.adding = Named(editor)]
          /\ secret' = [n \in ConstNames |->
                            IF n \in Changed(editor) THEN "value" ELSE secret[n]]
        BY <1>2 DEF Save
    <2>2. served.registered /\ served.task = "none" /\ UnknownMasked(editor) = {}
        BY <1>2 DEF SaveAnswer
    <2>3. editor \in [ConstNames -> Lines]
        BY DEF PanelsOK
    <2>4. Named(editor) \in SUBSET ConstNames /\ Changed(editor) \in SUBSET ConstNames
        BY DEF Named, Changed
    <2>5. \A n \in Named(editor) : n \in Changed(editor) \/ n \in served.stored
        BY <2>2, <2>3 DEF Named, Changed, UnknownMasked, Lines
    <2> HIDE DEF editor
    <2>6. /\ served' \in Served /\ served'.task = "constants"
          /\ served'.adding = Named(editor) /\ served'.stored = served.stored
          /\ served'.pad = served.pad /\ served'.registered
        BY <2>1, <2>2, <2>4 DEF EditorInv, ServedOK, Served
    <2>7. ServedOK'
        BY <2>1, <2>6 DEF EditorInv, ServedOK
    <2>8. StoredHaveValues' /\ AddingHaveValues'
        BY <2>1, <2>4, <2>5, <2>6, EditorFacts
        DEF EditorInv, StoredHaveValues, AddingHaveValues
    <2>9. PadHasConstants' /\ DeployHasPad'
        BY <2>6 DEF EditorInv, PadHasConstants, DeployHasPad
    <2> QED
        BY <2>7, <2>8, <2>9 DEF EditorInv
<1> QED
    BY <1>1, <1>2

LEMMA StoreConstantsOK ==
    ASSUME EditorInv, StoreConstants
    PROVE  EditorInv'
<1>1. /\ served.task = "constants" /\ secret' = secret
      /\ served' = [served EXCEPT !.task = "apply",
                        !.stored = served.stored \cup served.adding, !.adding = {}]
    BY DEF StoreConstants, StoredAfterSave
<1>2. /\ served' \in Served /\ served'.task = "apply" /\ served'.registered
      /\ served'.stored = served.stored \cup served.adding
      /\ served'.pad = served.pad
    BY <1>1, EditorFacts DEF EditorInv, ServedOK, Served
<1> QED
    BY <1>1, <1>2
    DEF EditorInv, ServedOK, StoredHaveValues, PadHasConstants, AddingHaveValues,
        DeployHasPad

LEMMA RedeployOK ==
    ASSUME EditorInv, NEW s \in Panels, Redeploy(s)
    PROVE  EditorInv'
<1>1. secret' = secret
    BY DEF Redeploy
<1>2. CASE RedeployAnswer # "started"
    BY <1>1, <1>2, AppStays DEF Redeploy
<1>3. CASE RedeployAnswer = "started"
    <2>1. served' = [served EXCEPT !.task = "deploy"]
        BY <1>3 DEF Redeploy
    <2>2. served.registered /\ served.staged \in Pads
        BY <1>3, EditorFacts DEF RedeployAnswer, EditorInv
    <2>3. /\ served' \in Served /\ served'.task = "deploy" /\ served'.registered
          /\ served'.stored = served.stored /\ served'.pad = served.pad
          /\ served'.staged = served.staged
        BY <2>1, <2>2 DEF EditorInv, ServedOK, Served
    <2> QED
        BY <1>1, <2>2, <2>3
        DEF EditorInv, ServedOK, StoredHaveValues, PadHasConstants, AddingHaveValues,
            DeployHasPad
<1> QED
    BY <1>2, <1>3

\* _run_deploy: the secrets of new constants come before their names.
LEMMA StoreDefaultsOK ==
    ASSUME EditorInv, StoreDefaults
    PROVE  EditorInv'
<1>1. /\ served.task = "deploy"
      /\ secret' = [n \in ConstNames |->
                       IF n \in Declares[served.staged] \ served.stored
                       THEN "value" ELSE secret[n]]
      /\ served' = [served EXCEPT !.task = "restart",
                       !.stored = @ \cup Declares[served.staged]]
    BY DEF StoreDefaults
<1>2. served.staged \in Pads /\ Declares[served.staged] \in SUBSET ConstNames
    BY <1>1, EditorAssumption DEF EditorInv, DeployHasPad
<1>3. /\ served' \in Served /\ served'.task = "restart" /\ served'.registered
      /\ served'.stored = served.stored \cup Declares[served.staged]
      /\ served'.pad = served.pad /\ served'.staged = served.staged
    BY <1>1, <1>2, EditorFacts DEF EditorInv, ServedOK, Served
<1>4. ServedOK'
    BY <1>1, <1>3 DEF EditorInv, ServedOK
<1>5. StoredHaveValues'
    BY <1>1, <1>2, <1>3, EditorFacts DEF EditorInv, StoredHaveValues
<1>6. PadHasConstants' /\ AddingHaveValues' /\ DeployHasPad'
    BY <1>2, <1>3 DEF EditorInv, PadHasConstants, AddingHaveValues, DeployHasPad
<1> QED
    BY <1>4, <1>5, <1>6 DEF EditorInv

LEMMA TaskOverOK ==
    ASSUME EditorInv, DeployOver \/ ConstantsOver
    PROVE  EditorInv'
<1>1. /\ served.task \in {"restart", "apply"} /\ secret' = secret
      /\ \E pad \in {served.pad, served.staged} :
            /\ served' = [served EXCEPT !.task = "none", !.pad = pad]
            /\ pad = served.pad \/ served.task = "restart"
    <2>1. served \in Served
        BY DEF EditorInv, ServedOK
    <2>2. [served EXCEPT !.task = "none"]
              = [served EXCEPT !.task = "none", !.pad = served.pad]
        BY <2>1 DEF Served
    <2>3. CASE DeployOver
        BY <2>3 DEF DeployOver
    <2>4. CASE ConstantsOver
        BY <2>2, <2>4 DEF ConstantsOver
    <2> QED
        BY <2>3, <2>4
<1>2. PICK pad \in {served.pad, served.staged} :
          /\ served' = [served EXCEPT !.task = "none", !.pad = pad]
          /\ pad = served.pad \/ served.task = "restart"
    BY <1>1
<1>3. pad \in Pads \cup {NoPad} /\ served.registered
    BY <1>1, EditorFacts DEF EditorInv
<1>4. /\ served' \in Served /\ served'.task = "none" /\ served'.registered
      /\ served'.stored = served.stored /\ served'.pad = pad
    BY <1>2, <1>3 DEF EditorInv, ServedOK, Served
<1> QED
    BY <1>1, <1>2, <1>4
    DEF EditorInv, ServedOK, StoredHaveValues, PadHasConstants, AddingHaveValues,
        DeployHasPad

LEMMA LivesOK ==
    ASSUME EditorInv, Register \/ Delete \/ StagePad
    PROVE  EditorInv'
<1>1. CASE Register
    <2>1. PICK names \in SUBSET ConstNames :
              /\ secret' = [n \in ConstNames |-> IF n \in names THEN "value" ELSE "none"]
              /\ served' = [NotServed(served.staged) EXCEPT
                    !.registered = TRUE, !.stored = names,
                    !.task = IF /\ served.staged # NoPad
                                /\ MissingConstants(served.staged, names) = {}
                             THEN "deploy" ELSE "none"]
        BY <1>1 DEF Register
    <2> DEFINE task == IF /\ served.staged # NoPad
                          /\ MissingConstants(served.staged, names) = {}
                       THEN "deploy" ELSE "none"
    <2>2. /\ task \in {"none", "deploy"} /\ served.staged \in Pads \cup {NoPad}
          /\ task = "deploy" => served.staged \in Pads
        BY EditorFacts DEF EditorInv
    <2>3. served' = [NotServed(served.staged) EXCEPT
                         !.registered = TRUE, !.stored = names, !.task = task]
        BY <2>1
    <2> HIDE DEF task
    <2> DEFINE fresh == NotServed(served.staged)
    <2>fresh. fresh \in Served /\ fresh.pad = NoPad /\ fresh.staged = served.staged
        BY <2>2, NotServedTyped
    <2>4. /\ served' \in Served /\ served'.task = task /\ served'.registered = TRUE
          /\ served'.stored = names /\ served'.pad = NoPad
          /\ served'.staged = served.staged
        <3>1. served' = [fresh EXCEPT !.registered = TRUE, !.stored = names, !.task = task]
            BY <2>3
        <3> HIDE DEF fresh
        <3> QED
            BY <2>2, <2>fresh, <3>1 DEF Served
    <2>5. ServedOK'
        BY <2>1, <2>4 DEF ServedOK
    <2> QED
        BY <2>1, <2>2, <2>4, <2>5
        DEF EditorInv, StoredHaveValues, PadHasConstants, AddingHaveValues, DeployHasPad
<1>2. CASE Delete
    <2>1. /\ served' = NotServed(served.staged)
          /\ secret' = [n \in ConstNames |-> "none"]
          /\ served.staged \in Pads \cup {NoPad}
        BY <1>2, EditorFacts DEF Delete, EditorInv
    <2> QED
        BY <2>1, NotServedTyped
        DEF EditorInv, ServedOK, StoredHaveValues, PadHasConstants, AddingHaveValues,
            DeployHasPad
<1>3. CASE StagePad
    <2>1. PICK p \in Pads : served' = [served EXCEPT !.staged = p]
        BY <1>3 DEF StagePad
    <2>2. served.task = "none" /\ secret' = secret
        BY <1>3 DEF StagePad
    <2>3. /\ served' \in Served /\ served'.task = "none" /\ served'.staged = p
          /\ served'.registered = served.registered /\ served'.adding = served.adding
          /\ served'.stored = served.stored /\ served'.pad = served.pad
        BY <2>1, <2>2 DEF EditorInv, ServedOK, Served
    <2> QED
        BY <2>2, <2>3
        DEF EditorInv, ServedOK, StoredHaveValues, PadHasConstants, AddingHaveValues,
            DeployHasPad
<1> QED
    BY <1>1, <1>2, <1>3

-----------------------------------------------------------------------------
(* The panels' types.                                                      *)

PanelStates == [pc : {"idle", "save", "redeploy"}, seeded : BOOLEAN,
                editor : [ConstNames -> Lines],
                seen : SUBSET ConstNames, hint : SUBSET ConstNames, answer : Answers]

LEMMA PanelMoves ==
    ASSUME PanelsOK, NEW s, NEW next \in PanelStates, PanelBecomes(s, next)
    PROVE  PanelsOK'
BY DEF PanelsOK, PanelBecomes, PanelStates

LEMMA LinesTyped ==
    /\ \A names : Masked(names) \in [ConstNames -> Lines]
    /\ ClosedPanel \in PanelStates
BY DEF Masked, ClosedPanel, NoLines, Lines, Answers, PanelStates

LEMMA ReplyTyped ==
    ASSUME PanelsOK, NEW s \in Panels, NEW answer \in Answers, Replied(s, answer)
    PROVE  PanelsOK'
<1>1. [panel[s] EXCEPT !.pc = "idle", !.answer = answer] \in PanelStates
    BY DEF PanelsOK, PanelStates
<1> QED
    BY <1>1, PanelMoves DEF Replied

LEMMA PanelsTyped ==
    ASSUME EditorInv, PanelsOK, NEW s \in Panels,
           OpenPanel(s) \/ LeavePanel(s) \/ Edit(s) \/ Click(s) \/ Save(s) \/ Redeploy(s)
    PROVE  PanelsOK'
<1>1. panel[s] \in PanelStates
    BY DEF PanelsOK, PanelStates
<1>2. served.stored \in SUBSET ConstNames /\ served.staged \in Pads \cup {NoPad}
    BY EditorFacts DEF EditorInv
<1>3. CASE OpenPanel(s)
    <2>1. [panel[s] EXCEPT !.seeded = TRUE, !.editor = Masked(served.stored)]
              \in PanelStates
        BY <1>1, LinesTyped DEF PanelStates
    <2> QED
        BY <1>3, <2>1, PanelMoves DEF OpenPanel
<1>4. CASE LeavePanel(s)
    <2>1. [ClosedPanel EXCEPT !.hint = panel[s].hint] \in PanelStates
        BY <1>1, LinesTyped DEF PanelStates
    <2> QED
        BY <1>4, <2>1, PanelMoves DEF LeavePanel
<1>5. CASE Edit(s)
    <2>1. PICK n \in ConstNames, line \in Lines :
              PanelBecomes(s, [panel[s] EXCEPT !.editor[n] = line])
        BY <1>5 DEF Edit
    <2>2. [panel[s] EXCEPT !.editor[n] = line] \in PanelStates
        BY <1>1 DEF PanelStates
    <2> QED
        BY <2>1, <2>2, PanelMoves
<1>6. CASE Click(s)
    <2>1. PICK button \in {"save", "redeploy"} :
              PanelBecomes(s, [panel[s] EXCEPT !.pc = button, !.seen = served.stored])
        BY <1>6 DEF Click
    <2>2. [panel[s] EXCEPT !.pc = button, !.seen = served.stored] \in PanelStates
        BY <1>1, <1>2 DEF PanelStates
    <2> QED
        BY <2>1, <2>2, PanelMoves
<1>7. CASE Save(s)
    <2> DEFINE answer == SaveAnswer(panel[s].editor)
    <2>1. answer \in Answers
        BY DEF SaveAnswer, Answers
    <2>2. CASE answer \in {"started", "unchanged"}
        <3>1. [panel[s] EXCEPT !.pc = "idle", !.hint = {}, !.answer = answer]
                  \in PanelStates
            BY <1>1, <2>1 DEF PanelStates
        <3>2. PanelBecomes(s, [panel[s] EXCEPT !.pc = "idle", !.hint = {},
                                               !.answer = answer])
            BY <1>7, <2>2 DEF Save
        <3> QED
            BY <3>1, <3>2, PanelMoves
    <2>3. CASE answer \notin {"started", "unchanged"}
        <3>1. Replied(s, answer)
            BY <1>7, <2>3 DEF Save
        <3> QED
            BY <2>1, <3>1, ReplyTyped
    <2> QED
        BY <2>2, <2>3
<1>8. CASE Redeploy(s)
    <2> DEFINE missing == MissingConstants(served.staged, served.stored)
               editor == [n \in ConstNames |->
                             IF n \in missing \ panel[s].seen THEN "empty"
                             ELSE Masked(panel[s].seen)[n]]
    <2>1. RedeployAnswer \in Answers
        BY DEF RedeployAnswer, Answers
    <2>2. CASE RedeployAnswer = "missing"
        <3>1. missing \in SUBSET ConstNames
            <4>1. served.staged # NoPad
                BY <2>2 DEF RedeployAnswer
            <4>2. Declares[served.staged] \in SUBSET ConstNames
                BY <1>2, <4>1, EditorAssumption
            <4> QED
                BY <4>2 DEF MissingConstants
        <3>2. editor \in [ConstNames -> Lines]
            BY LinesTyped DEF Lines
        <3> HIDE DEF missing, editor
        <3>3. [panel[s] EXCEPT !.pc = "idle", !.answer = "missing", !.hint = missing,
                               !.editor = editor] \in PanelStates
            BY <1>1, <3>1, <3>2 DEF PanelStates, Answers
        <3>4. PanelBecomes(s, [panel[s] EXCEPT !.pc = "idle", !.answer = "missing",
                                               !.hint = missing, !.editor = editor])
            BY <1>8, <2>2 DEF Redeploy, missing, editor
        <3> QED
            BY <3>3, <3>4, PanelMoves
    <2>3. CASE RedeployAnswer # "missing"
        BY <1>8, <2>1, <2>3, ReplyTyped DEF Redeploy
    <2> QED
        BY <2>2, <2>3
<1> QED
    BY <1>3, <1>4, <1>5, <1>6, <1>7, <1>8

-----------------------------------------------------------------------------

LEMMA PanelsInitOK == EditorInit => PanelsOK
BY LinesTyped DEF EditorInit, PanelsOK, PanelStates

LEMMA EditorNextOK ==
    EditorInv /\ PanelsOK /\ [EditorNext]_editorVars => EditorInv' /\ PanelsOK'
<1> SUFFICES ASSUME EditorInv, PanelsOK, [EditorNext]_editorVars
             PROVE  EditorInv' /\ PanelsOK'
    OBVIOUS
<1>1. ASSUME NEW s \in Panels,
             OpenPanel(s) \/ LeavePanel(s) \/ Edit(s) \/ Click(s)
      PROVE  EditorInv' /\ PanelsOK'
    <2>1. UNCHANGED <<served, secret>>
        BY <1>1 DEF OpenPanel, LeavePanel, Edit, Click
    <2> QED
        BY <1>1, <2>1, AppStays, PanelsTyped
<1>2. ASSUME NEW s \in Panels, Save(s) \/ Redeploy(s)
      PROVE  EditorInv' /\ PanelsOK'
    BY <1>2, SaveOK, RedeployOK, PanelsTyped
<1>3. CASE StoreConstants \/ StoreDefaults \/ DeployOver \/ ConstantsOver
           \/ Register \/ Delete \/ StagePad
    <2>1. panel' = panel
        BY <1>3 DEF StoreConstants, StoreDefaults, DeployOver, ConstantsOver,
                    Register, Delete, StagePad
    <2>2. PanelsOK'
        BY <2>1 DEF PanelsOK
    <2> QED
        BY <1>3, <2>2, StoreConstantsOK, StoreDefaultsOK, TaskOverOK, LivesOK
<1>4. CASE UNCHANGED editorVars
    BY <1>4, AppStays DEF editorVars, PanelsOK
<1> QED
    BY <1>1, <1>2, <1>3, <1>4 DEF EditorNext

LEMMA EditorInvariant == EditorSpec => [](EditorInv /\ PanelsOK)
BY EditorInitOK, PanelsInitOK, EditorNextOK, PTL DEF EditorSpec

\* An app that is not registered is nothing but its staged PAD.
LEMMA EditorTyped == EditorInv /\ PanelsOK => EditorTypeOK
<1>1. ASSUME ServedOK, ~served.registered PROVE served = NotServed(served.staged)
    <2>1. ASSUME NEW x \in Served, NEW y \in Served,
                 x.registered = y.registered, x.stored = y.stored, x.pad = y.pad,
                 x.staged = y.staged, x.task = y.task, x.adding = y.adding
          PROVE  x = y
        BY <2>1 DEF Served
    <2>2. served \in Served /\ served.registered = FALSE
          /\ served.staged \in Pads \cup {NoPad}
        BY <1>1, EditorFacts DEF ServedOK
    <2> DEFINE fresh == NotServed(served.staged)
    <2>3. /\ fresh \in Served /\ fresh.registered = FALSE /\ fresh.stored = {}
          /\ fresh.pad = NoPad /\ fresh.staged = served.staged
          /\ fresh.task = "none" /\ fresh.adding = {}
        BY <2>2, NotServedTyped
    <2>4. /\ served.stored = {} /\ served.pad = NoPad
          /\ served.task = "none" /\ served.adding = {}
        BY <1>1 DEF ServedOK
    <2> HIDE DEF fresh
    <2>5. served = fresh
        BY <2>1, <2>2, <2>3, <2>4
    <2> QED
        BY <2>5 DEF fresh
<1> QED
    BY <1>1 DEF EditorInv, ServedOK, Served, PanelsOK, EditorTypeOK

\* The app's row, its secrets and the panels keep their type.
THEOREM EditorTypeCorrect == EditorSpec => []EditorTypeOK
BY EditorTyped, EditorInvariant, PTL

\* update_constants rejects a masked value of a constant it has no value of,
\* and every secret is written before its name: no stored constant is without
\* a real value, whatever an old editor still shows.
THEOREM StoredConstantsHaveValues == EditorSpec => []StoredHaveValues
<1>1. EditorInv => StoredHaveValues
    BY DEF EditorInv
<1> QED
    BY <1>1, EditorInvariant, PTL

\* update_constants adds names and takes none away, and a deploy stores the
\* constants of its PAD before it stamps it: a deployed PAD lacks none.
THEOREM DeployedPadsHaveConstants == EditorSpec => []PadHasConstants
<1>1. EditorInv => PadHasConstants
    BY DEF EditorInv
<1> QED
    BY <1>1, EditorInvariant, PTL

-----------------------------------------------------------------------------
(* The three parts side by side.                                           *)

\* A step of one part is a stutter of the others: every state of the three
\* keeps its type, whichever of them moves.
THEOREM AdminTypeCorrect == AdminSpec => []AdminTypeOK
<1> DEFINE Inv == PageInv /\ EditorInv /\ PanelsOK /\ LogInv
<1>1. AdminInit => Inv
    BY PageInitOK, EditorInitOK, PanelsInitOK, LogInitOK DEF AdminInit
<1>2. Inv /\ [AdminNext]_adminVars => Inv'
    <2> SUFFICES ASSUME Inv, [AdminNext]_adminVars PROVE Inv'
        OBVIOUS
    <2>1. [PageNext]_pageVars /\ [EditorNext]_editorVars /\ [LogNext]_logVars
        BY DEF AdminNext, adminVars
    <2> QED
        BY <2>1, PageNextOK, EditorNextOK, LogNextOK
<1>3. Inv => AdminTypeOK
    BY EditorTyped DEF AdminTypeOK, PageInv, LogInv
<1> HIDE DEF Inv
<1> QED
    BY <1>1, <1>2, <1>3, PTL DEF AdminSpec
=============================================================================
