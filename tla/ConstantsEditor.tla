-------------------------- MODULE ConstantsEditor --------------------------
(***************************************************************************)
(* The Constants editor of the detail panel (pages/1_Apps.py) and the      *)
(* routes it and its Redeploy button call, over the lives of one app.      *)
(*                                                                         *)
(* A constant's value is a Snowflake secret; the registry keeps its name,  *)
(* and shows the value masked.  The editor is seeded with what the registry*)
(* shows when the panel is opened, and from then on holds what the operator*)
(* has typed, whatever happens to the app.  Streamlit, external, drops what*)
(* the editor holds when the page runs without it.                         *)
(*                                                                         *)
(* What goes wrong inside a request or a background task is the business   *)
(* of AppLifecycle; here a request is one step, and the app is not deleted *)
(* while a task of it runs.                                                *)
(***************************************************************************)
CONSTANTS
    Panels,       \* browser sessions
    ConstNames,   \* names of Mendix constants
    Pads,         \* PADs an operator may stage
    Declares,     \* Declares[p]: the constants p declares
    Defaulted,    \* the constants whose declaration has a default
    NoPad

ASSUME EditorAssumption ==
    /\ Declares \in [Pads -> SUBSET ConstNames]
    /\ Defaulted \subseteq ConstNames
    /\ NoPad \notin Pads

VARIABLES
    served,   \* the app's row, its background task, and the PAD on the stage
    secret,   \* the secrets in the app's schema
    panel     \* the detail panel of each session

editorVars == <<served, secret, panel>>

\* task: "deploy" until the constants of the PAD are stored, then "restart";
\* "constants" until the new names are stored, then "apply".
\* adding: these names; pad: the PAD whose path a deploy has left.
NotServed(staged) ==
    [registered |-> FALSE, stored |-> {}, pad |-> NoPad, staged |-> staged,
     task |-> "none", adding |-> {}]

\* The editor's line of a constant: none, <HIDDEN>, "", or a value.
Lines == {"absent", "masked", "empty", "typed"}
NoLines == [n \in ConstNames |-> "absent"]

\* seen: the names the current run of the fragment has read; hint: the names
\* the last Redeploy has found missing.
ClosedPanel == [pc |-> "idle", seeded |-> FALSE, editor |-> NoLines,
                seen |-> {}, hint |-> {}, answer |-> "none"]

Answers == {"none", "started", "unchanged", "unknown_masked", "no_pad", "busy",
            "missing", "no_staged_pad", "gone"}

EditorTypeOK ==
    /\ served \in [registered : BOOLEAN, stored : SUBSET ConstNames,
                   pad : Pads \cup {NoPad}, staged : Pads \cup {NoPad},
                   task : {"none", "deploy", "restart", "constants", "apply"},
                   adding : SUBSET ConstNames]
    /\ ~served.registered => served = NotServed(served.staged)
    /\ secret \in [ConstNames -> {"none", "masked", "value"}]
    /\ panel \in [Panels -> [pc : {"idle", "save", "redeploy"}, seeded : BOOLEAN,
                             editor : [ConstNames -> Lines],
                             seen : SUBSET ConstNames, hint : SUBSET ConstNames,
                             answer : Answers]]

EditorInit ==
    /\ served = NotServed(NoPad)
    /\ secret = [n \in ConstNames |-> "none"]
    /\ panel = [s \in Panels |-> ClosedPanel]

PanelBecomes(s, next) == panel' = [panel EXCEPT ![s] = next]

\* A request is over; the script runs again.
Replied(s, answer) ==
    PanelBecomes(s, [panel[s] EXCEPT !.pc = "idle", !.answer = answer])

Masked(names) == [n \in ConstNames |-> IF n \in names THEN "masked" ELSE "absent"]

-----------------------------------------------------------------------------
(* The panel.                                                              *)

\* The first run seeds the editor.
OpenPanel(s) ==
    /\ served.registered
    /\ ~panel[s].seeded
    /\ PanelBecomes(s, [panel[s] EXCEPT !.seeded = TRUE,
                                        !.editor = Masked(served.stored)])
    /\ UNCHANGED <<served, secret>>

\* Another app is selected, or another page; the hint stays.
LeavePanel(s) ==
    /\ panel[s].seeded
    /\ panel[s].pc = "idle"
    /\ PanelBecomes(s, [ClosedPanel EXCEPT !.hint = panel[s].hint])
    /\ UNCHANGED <<served, secret>>

Edit(s) ==
    /\ panel[s].seeded
    /\ panel[s].pc = "idle"
    /\ \E n \in ConstNames, line \in Lines :
           PanelBecomes(s, [panel[s] EXCEPT !.editor[n] = line])
    /\ UNCHANGED <<served, secret>>

\* A click runs the fragment, which first reads the app; Save is disabled
\* while something is in flight, or when the editor shows no difference.
Click(s) ==
    /\ panel[s].seeded
    /\ panel[s].pc = "idle"
    /\ served.registered
    /\ served.task = "none"
    /\ \E button \in {"save", "redeploy"} :
           /\ button = "save" => panel[s].editor # Masked(served.stored)
           /\ PanelBecomes(s, [panel[s] EXCEPT !.pc = button, !.seen = served.stored])
    /\ UNCHANGED <<served, secret>>

-----------------------------------------------------------------------------
(* update_constants.                                                       *)

\* Mutant: a masked value is accepted for any name.
UnknownMaskedNone(editor) == {}

UnknownMasked(editor) ==
    {n \in ConstNames : editor[n] = "masked" /\ n \notin served.stored}

Named(editor) == {n \in ConstNames : editor[n] # "absent"}
Changed(editor) == {n \in ConstNames : editor[n] \in {"empty", "typed"}}

\* The first of the route's checks that a request does not pass, or "started".
SaveAnswer(editor) ==
    IF ~served.registered              THEN "gone"
    ELSE IF served.task # "none"       THEN "busy"
    ELSE IF UnknownMasked(editor) # {} THEN "unknown_masked"
    ELSE IF Changed(editor) = {}       THEN "unchanged"
    ELSE IF served.pad = NoPad         THEN "no_pad"
    ELSE "started"

\* The changed values become secrets at once, and the names are stored by the
\* task.  The panel takes the hint away when the route has not refused.
Save(s) ==
    LET editor == panel[s].editor
        answer == SaveAnswer(editor)
    IN  /\ panel[s].pc = "save"
        /\ IF answer = "started"
           THEN /\ secret' = [n \in ConstNames |->
                                 IF n \in Changed(editor) THEN "value" ELSE secret[n]]
                /\ served' = [served EXCEPT !.task = "constants",
                                            !.adding = Named(editor)]
           ELSE UNCHANGED <<secret, served>>
        /\ IF answer \in {"started", "unchanged"}
           THEN PanelBecomes(s, [panel[s] EXCEPT !.pc = "idle", !.hint = {},
                                                 !.answer = answer])
           ELSE Replied(s, answer)

\* Mutant: the registry gets the names of the request, and no others.
StoredAfterSaveReplaced == served.adding

\* The names of the request are added to those of the row.
StoredAfterSave == served.stored \cup served.adding

\* _run_update_constants stores the names before it changes the service.
StoreConstants ==
    /\ served.task = "constants"
    /\ served' = [served EXCEPT !.task = "apply", !.stored = StoredAfterSave,
                                !.adding = {}]
    /\ UNCHANGED <<secret, panel>>

-----------------------------------------------------------------------------
(* trigger_deploy, and what create_app does of it.                         *)

MissingConstants(pad, stored) == (Declares[pad] \ stored) \ Defaulted

RedeployAnswer ==
    IF ~served.registered        THEN "gone"
    ELSE IF served.task # "none" THEN "busy"
    ELSE IF served.staged = NoPad THEN "no_staged_pad"
    ELSE IF MissingConstants(served.staged, served.stored) # {} THEN "missing"
    ELSE "started"

\* Redeploy; what is missing goes into the editor with "", below what the
\* panel has read of the app before the request.
Redeploy(s) ==
    LET answer == RedeployAnswer
        missing == MissingConstants(served.staged, served.stored)
    IN  /\ panel[s].pc = "redeploy"
        /\ served' = IF answer = "started"
                     THEN [served EXCEPT !.task = "deploy"] ELSE served
        /\ IF answer = "missing"
           THEN PanelBecomes(s, [panel[s] EXCEPT
                    !.pc = "idle", !.answer = answer, !.hint = missing,
                    !.editor = [n \in ConstNames |->
                        IF n \in missing \ panel[s].seen THEN "empty"
                        ELSE Masked(panel[s].seen)[n]]])
           ELSE Replied(s, answer)
        /\ UNCHANGED secret

\* _run_deploy: the defaults of new constants become secrets and are stored.
StoreDefaults ==
    /\ served.task = "deploy"
    /\ secret' = [n \in ConstNames |->
                     IF n \in Declares[served.staged] \ served.stored
                     THEN "value" ELSE secret[n]]
    /\ served' = [served EXCEPT !.task = "restart",
                     !.stored = @ \cup Declares[served.staged]]
    /\ UNCHANGED panel

\* A deploy that succeeds records its PAD; one that fails leaves the constants
\* stored, and nothing else.
DeployOver ==
    /\ served.task = "restart"
    /\ \E succeeds \in BOOLEAN :
           served' = [served EXCEPT !.task = "none",
                                    !.pad = IF succeeds THEN served.staged ELSE @]
    /\ UNCHANGED <<secret, panel>>

ConstantsOver ==
    /\ served.task = "apply"
    /\ served' = [served EXCEPT !.task = "none"]
    /\ UNCHANGED <<secret, panel>>

-----------------------------------------------------------------------------
(* Other operators, and machine clients.                                   *)

\* create_app, with real values only; a staged PAD that lacks nothing is
\* deployed at once.
Register ==
    /\ ~served.registered
    /\ \E names \in SUBSET ConstNames :
           /\ secret' = [n \in ConstNames |-> IF n \in names THEN "value" ELSE "none"]
           /\ served' = [NotServed(served.staged) EXCEPT
                 !.registered = TRUE, !.stored = names,
                 !.task = IF /\ served.staged # NoPad
                             /\ MissingConstants(served.staged, names) = {}
                          THEN "deploy" ELSE "none"]
    /\ UNCHANGED panel

\* Mutant: the names of the constants outlive the app.
DeleteKeepsNames ==
    /\ served.registered
    /\ served.task = "none"
    /\ served' = [NotServed(served.staged) EXCEPT !.stored = served.stored]
    /\ secret' = [n \in ConstNames |-> "none"]
    /\ UNCHANGED panel

Delete ==
    /\ served.registered
    /\ served.task = "none"
    /\ served' = NotServed(served.staged)
    /\ secret' = [n \in ConstNames |-> "none"]
    /\ UNCHANGED panel

\* Not while one is being deployed, which would make the path stale.
StagePad ==
    /\ served.task = "none"
    /\ \E p \in Pads : served' = [served EXCEPT !.staged = p]
    /\ UNCHANGED <<secret, panel>>

EditorNext ==
    \/ \E s \in Panels : OpenPanel(s) \/ LeavePanel(s) \/ Edit(s) \/ Click(s)
                         \/ Save(s) \/ Redeploy(s)
    \/ StoreConstants \/ StoreDefaults \/ DeployOver \/ ConstantsOver
    \/ Register \/ Delete \/ StagePad

EditorSpec == EditorInit /\ [][EditorNext]_editorVars

-----------------------------------------------------------------------------
(* Properties.                                                             *)

\* "Leave a value as <HIDDEN> to keep it": whatever an old editor holds of an
\* earlier life of the app, every stored constant has a secret, with a real
\* value.
StoredHaveValues ==
    \A n \in served.stored : secret[n] = "value"

\* The PAD that was deployed has a stored value for every constant it
\* declares, whatever lines an operator takes out of the editor afterwards.
PadHasConstants ==
    served.pad # NoPad => Declares[served.pad] \subseteq served.stored

\* "Set each value, click Save constants, then Redeploy": an operator who has
\* set each value does not learn that there must be a deploy first.
AdviceWorks ==
    \A s \in Panels :
        panel[s].hint # {} /\ (\A n \in panel[s].hint : panel[s].editor[n] = "typed")
            => panel[s].answer # "no_pad"
=============================================================================
