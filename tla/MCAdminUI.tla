----------------------------- MODULE MCAdminUI -----------------------------
(***************************************************************************)
(* An instance for TLC of three parts of the Admin UI, each with what it   *)
(* sees of the Controller: the table of the Apps page, the Constants editor*)
(* of its detail panel, and the downloads of the Logs page.  They share no *)
(* state, and every behaviour is one part's.                               *)
(***************************************************************************)
EXTENDS AppsPage, ConstantsEditor, LogDownloads

VARIABLE part

adminVars == <<part, pageVars, editorVars, logVars>>

\* Parts that do not move start in one state.
AdminInit ==
    /\ part \in {"page", "editor", "logs"}
    /\ PageInit /\ EditorInit /\ LogInit
    /\ part # "logs" => shows = [p \in Pages |-> "a"]

AdminNext ==
    /\ \/ part = "page" /\ PageNext /\ UNCHANGED <<editorVars, logVars>>
       \/ part = "editor" /\ EditorNext /\ UNCHANGED <<pageVars, logVars>>
       \/ part = "logs" /\ LogNext /\ UNCHANGED <<pageVars, editorVars>>
    /\ UNCHANGED part

AdminSpec == AdminInit /\ [][AdminNext]_adminVars /\ PageFairness /\ LogFairness

\* The types of the three parts; an app that is not registered has no
\* constants.
AdminTypeOK == PageTypeOK /\ EditorTypeOK /\ LogTypeOK

\* Each session has an operator of its own.
MCOperatorOf == [s \in Sessions |-> IF s = "s1" THEN "o1" ELSE "o2"]

\* p declares a, which has no default, and q declares b, which has one.
MCDeclares == [p \in Pads |-> IF p = "p" THEN {"a"} ELSE {"b"}]
=============================================================================
