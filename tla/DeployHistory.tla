--------------------------- MODULE DeployHistory ---------------------------
(***************************************************************************)
(* The MENDIX_DEPLOY_HISTORY rows of one app (Controller/app/              *)
(* deploy_history.py), newest first, as pure operators on a sequence: the  *)
(* table orders rows by (ts, id), both assigned at insertion, so the order *)
(* of insertion is the order every query uses.                             *)
(*                                                                         *)
(* A row keeps the outcome of the operation and the configuration it       *)
(* applied or tried to apply; the operation's label, the timestamp and the *)
(* detail text are read by nobody but the UI and are left out.             *)
(***************************************************************************)
EXTENDS Naturals, Sequences, FiniteSets

CONSTANT Keep    \* _KEEP_PER_APP: 20 in the code; 0 keeps no row once pruned

ASSUME KeepAssumption == Keep \in Nat

Outcomes == {"READY", "FAILED"}

HistoryRow(Config) == [status : Outcomes, cfg : Config]

\* record(): the INSERT, before its _prune.
Inserted(h, entry) == <<entry>> \o h

\* _prune(): keep the newest Keep rows.
Pruned(h) == [i \in 1 .. (IF Len(h) <= Keep THEN Len(h) ELSE Keep) |-> h[i]]

\* The rows a rollback may target: get_entry() by id, refused by rollback_app
\* unless READY, or last_success(), the newest of them.
ReadyRows(h) == {h[i] : i \in {j \in DOMAIN h : h[j].status = "READY"}}

\* Mutant: the purge of a deleted app is one more _prune.
PurgedByPrune(h) == Pruned(h)

\* delete_for_app()
Purged(h) == <<>>
=============================================================================
