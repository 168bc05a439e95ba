----------------------------- MODULE AppStatus -----------------------------
(***************************************************************************)
(* What the Controller promises of an app's last_deploy_status: a change   *)
(* begins only on a settled app, it ends in success or FAILED, and the app *)
(* can be removed at any time.  The registry, the service, the history and *)
(* the threads are out of sight; "ABSENT" stands for no row.               *)
(***************************************************************************)
VARIABLE status

Transient == {"DEPLOYING", "SUSPENDING", "RESUMING"}
Settled == {"NOT_DEPLOYED", "READY", "FAILED", "SUSPENDED"}

StatusTypeOK == status \in Transient \cup Settled \cup {"ABSENT"}

Init == status = "ABSENT"

Register == status = "ABSENT" /\ status' = "NOT_DEPLOYED"

Begin == status \in Settled /\ status' \in Transient

Succeed ==
    \/ status \in {"DEPLOYING", "RESUMING"} /\ status' = "READY"
    \/ status = "SUSPENDING" /\ status' = "SUSPENDED"

Fail == status \in Transient /\ status' = "FAILED"

\* The key of a deleted license could not be dropped after READY was written.
CleanupFails == status = "READY" /\ status' = "FAILED"

Remove == status # "ABSENT" /\ status' = "ABSENT"

Next == Register \/ Begin \/ Succeed \/ Fail \/ CleanupFails \/ Remove

Spec == Init /\ [][Next]_status

\* A change that began is brought to an end.
FairSpec == Spec /\ WF_status(Succeed \/ Fail)
=============================================================================
