------------------------------ MODULE AppsPage ------------------------------
(***************************************************************************)
(* The Apps page of the Admin UI (pages/1_Apps.py, data.py): what a browser*)
(* session shows of an app while operators and machine clients act on it.  *)
(*                                                                         *)
(* A run of the page's script shows the table from list_apps, whose answer *)
(* is cached for all sessions of an operator.  While the table holds an app*)
(* with a deploy, suspend or resume in flight, the fragment that shows it  *)
(* runs again every ten seconds; the interval is fixed when the whole      *)
(* script runs, so the fragment asks for such a run when it has to change. *)
(*                                                                         *)
(* The Controller is seen through GET /apps and the route an action calls; *)
(* Streamlit (sessions, st.cache_data, fragments) is external.             *)
(***************************************************************************)
EXTENDS Naturals

CONSTANTS
    Sessions,     \* browser sessions with the page open
    Operators,    \* who they belong to
    OperatorOf,   \* the operator of each session
    MaxVersion,   \* bound: changes of the app's status
    Missing       \* no table, no cached answer

ASSUME PageAssumption ==
    /\ OperatorOf \in [Sessions -> Operators]
    /\ MaxVersion \in Nat
    /\ Missing \notin [version : Nat, transient : BOOLEAN, blank : BOOLEAN]

VARIABLES
    app,       \* the app's row at the Controller
    answers,   \* _list_apps_cached: an answer per operator
    tab        \* what each session runs and shows

pageVars == <<app, answers, tab>>

\* blank: the service statuses of the answer could not be fetched.
Tables == [version : 0..MaxVersion, transient : BOOLEAN, blank : BOOLEAN]

\* polling: the fragment runs every ten seconds; flagged: apps-has-transient;
\* warned: apps_status_unavailable; acted: the version made by the last action
\* of the session that it refreshes after.
NewTab == [pc |-> "closed", polling |-> FALSE, flagged |-> FALSE,
           warned |-> FALSE, shown |-> Missing, table |-> Missing, acted |-> 0]

Computing == {"fetch", "fetched"}

PageTypeOK ==
    /\ app \in [version : 0..MaxVersion, transient : BOOLEAN]
    /\ answers \in [Operators -> Tables \cup {Missing}]
    /\ tab \in [Sessions ->
                   [pc : {"closed", "idle", "acted", "rerun", "lookup"}
                         \cup Computing,
                    polling : BOOLEAN, flagged : BOOLEAN, warned : BOOLEAN,
                    shown : Tables \cup {Missing}, table : Tables \cup {Missing},
                    acted : 0..MaxVersion]]

PageInit ==
    /\ app = [version |-> 0, transient |-> FALSE]
    /\ answers = [o \in Operators |-> Missing]
    /\ tab = [s \in Sessions |-> NewTab]

TabBecomes(s, next) == tab' = [tab EXCEPT ![s] = next]

-----------------------------------------------------------------------------
(* A run of the script, and of the fragment.                               *)

\* _refresh_now empties the caches of everybody.
RefreshNow == answers' = [o \in Operators |-> Missing]

OpenPage(s) ==
    /\ tab[s].pc = "closed"
    /\ TabBecomes(s, [tab[s] EXCEPT !.pc = "rerun"])
    /\ UNCHANGED <<app, answers>>

\* The whole script: the interval of the fragment follows the flag, and a
\* fragment that polls wants a fresh answer.
Rerun(s) ==
    /\ tab[s].pc = "rerun"
    /\ TabBecomes(s, [tab[s] EXCEPT !.pc = "lookup", !.polling = tab[s].flagged])
    /\ IF tab[s].flagged THEN RefreshNow ELSE UNCHANGED answers
    /\ UNCHANGED app

\* Every ten seconds, the fragment alone.
Tick(s) ==
    /\ tab[s].pc = "idle"
    /\ tab[s].polling
    /\ TabBecomes(s, [tab[s] EXCEPT !.pc = "lookup"])
    /\ RefreshNow
    /\ UNCHANGED app

\* Mutant: the flag changes, and the interval is left as it is.
WithTableNoRerun(t, table) ==
    [t EXCEPT !.pc = "idle", !.flagged = table.transient, !.shown = table,
              !.table = Missing]

\* _apps_table with the apps at hand: whether any is in flight is remembered;
\* a change of that runs the whole script, and otherwise they are shown.
WithTable(t, table) ==
    [t EXCEPT !.pc = IF table.transient # t.flagged THEN "rerun" ELSE "idle",
              !.flagged = table.transient,
              !.shown = IF table.transient # t.flagged THEN @ ELSE table,
              !.table = Missing]

\* list_apps: one session of an operator fetches, the others wait for it.
LookupApps(s) ==
    /\ tab[s].pc = "lookup"
    /\ \A u \in Sessions \ {s} :
           OperatorOf[u] = OperatorOf[s] => tab[u].pc \notin Computing
    /\ LET answer == answers[OperatorOf[s]]
       IN  TabBecomes(s, IF answer = Missing THEN [tab[s] EXCEPT !.pc = "fetch"]
                                             ELSE WithTable(tab[s], answer))
    /\ UNCHANGED <<app, answers>>

\* GET /apps, with the statuses of the services or without.
Fetch(s) ==
    /\ tab[s].pc = "fetch"
    /\ \E blank \in BOOLEAN :
           TabBecomes(s, [tab[s] EXCEPT !.pc = "fetched",
               !.table = [version |-> app.version, transient |-> app.transient,
                          blank |-> blank]])
    /\ UNCHANGED <<app, answers>>

\* A ControllerError: an error instead of the table; nothing is cached.
FetchFails(s) ==
    /\ tab[s].pc = "fetch"
    /\ TabBecomes(s, [tab[s] EXCEPT !.pc = "idle", !.shown = Missing])
    /\ UNCHANGED <<app, answers>>

\* Mutant: a warning once given stays.
WarnedForGood(t) == t.warned \/ t.table.blank

\* apps_status_unavailable, of the session that fetches.
Warned(t) == t.table.blank

StoreAnswer(s) ==
    /\ tab[s].pc = "fetched"
    /\ answers' = [answers EXCEPT ![OperatorOf[s]] = tab[s].table]
    /\ TabBecomes(s, WithTable([tab[s] EXCEPT !.warned = Warned(tab[s])],
                               tab[s].table))
    /\ UNCHANGED app

-----------------------------------------------------------------------------
(* Actions of operators, and what else happens to the app.                 *)

NextVersion(transient) ==
    /\ app.version < MaxVersion
    /\ app' = [version |-> app.version + 1, transient |-> transient]

\* A button of the detail or the bulk panel: the Controller admits it when
\* nothing is in flight; refused, it is shown as an error.
Admitted(s) ==
    /\ tab[s].pc = "idle"
    /\ tab[s].shown # Missing
    /\ ~app.transient
    /\ NextVersion(TRUE)

\* The session gets its answer.  The bulk panel takes a lost one for a refusal
\* and goes on alike.
Act(s) ==
    /\ Admitted(s)
    /\ TabBecomes(s, [tab[s] EXCEPT !.pc = "acted", !.acted = app.version + 1])
    /\ UNCHANGED answers

\* The answer to the detail panel is lost, after thirty seconds or sooner: the
\* panel shows an error below a table that stays as it is.
ActUnanswered(s) == Admitted(s) /\ UNCHANGED <<answers, tab>>

\* Mutant: the page runs again without dropping the cached answer.
ActedNoRefresh(s) ==
    /\ tab[s].pc = "acted"
    /\ TabBecomes(s, [tab[s] EXCEPT !.pc = "rerun"])
    /\ UNCHANGED <<app, answers>>

\* After an answer, or after the last app of the bulk panel.
Acted(s) ==
    /\ tab[s].pc = "acted"
    /\ RefreshNow
    /\ TabBecomes(s, [tab[s] EXCEPT !.pc = "rerun"])
    /\ UNCHANGED app

\* The Refresh button, or another page of the session.
Reload(s) ==
    /\ tab[s].pc = "idle"
    /\ \E refresh \in BOOLEAN : IF refresh THEN RefreshNow ELSE UNCHANGED answers
    /\ TabBecomes(s, [tab[s] EXCEPT !.pc = "rerun"])
    /\ UNCHANGED app

\* The background task ends.
TaskEnds == app.transient /\ NextVersion(FALSE) /\ UNCHANGED <<answers, tab>>

\* A machine client deploys.
ClientActs == ~app.transient /\ NextVersion(TRUE) /\ UNCHANGED <<answers, tab>>

\* A cached answer is sixty seconds old.
AnswerExpires(o) ==
    /\ answers[o] # Missing
    /\ answers' = [answers EXCEPT ![o] = Missing]
    /\ UNCHANGED <<app, tab>>

ScriptStep(s) ==
    \/ Rerun(s) \/ LookupApps(s) \/ Fetch(s) \/ FetchFails(s)
    \/ StoreAnswer(s) \/ Acted(s)

PageNext ==
    \/ \E s \in Sessions : OpenPage(s) \/ ScriptStep(s) \/ Tick(s)
                         \/ Act(s) \/ ActUnanswered(s) \/ Reload(s)
    \/ TaskEnds \/ ClientActs \/ \E o \in Operators : AnswerExpires(o)

\* Scripts run to their end, open pages tick, and a fetch that is tried
\* again and again succeeds in the end.
PageFairness ==
    /\ \A s \in Sessions :
           /\ WF_pageVars(ScriptStep(s)) /\ WF_pageVars(Tick(s))
           /\ SF_pageVars(Fetch(s))
    /\ WF_pageVars(TaskEnds)

PageSpec == PageInit /\ [][PageNext]_pageVars /\ PageFairness

-----------------------------------------------------------------------------
(* Properties.                                                             *)

AtRest(s) == tab[s].pc = "idle" /\ tab[s].shown # Missing

\* The operator who has been told that his action was accepted, or has acted in
\* bulk, sees the effect of it: no table is shown after it that is older.  Of an
\* action of the detail panel whose answer was lost nothing is claimed: the error
\* stands below the table from before it, and cached answers are kept.
OwnActionShown ==
    \A s \in Sessions : AtRest(s) => tab[s].shown.version >= tab[s].acted

\* A table without service statuses carries the warning, and a table with
\* them does not.
BlankMeansWarned ==
    \A s \in Sessions : AtRest(s) => (tab[s].shown.blank <=> tab[s].warned)

\* The page never keeps showing an operation in flight: it goes on fetching
\* until it has seen the end of it, whatever else happens.
PageSettles ==
    \A s \in Sessions :
        AtRest(s) /\ tab[s].shown.transient ~>
            /\ tab[s].pc = "idle"
            /\ ~tab[s].flagged
            /\ tab[s].shown # Missing => ~tab[s].shown.transient
=============================================================================
