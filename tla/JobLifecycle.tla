---------------------------- MODULE JobLifecycle ----------------------------
(***************************************************************************)
(* What the job service promises about the money of a job, with no queue,  *)
(* no threads and no crash in sight: a job is charged at most once, and a  *)
(* charged job ends either delivered, and stays paid, or refunded, and     *)
(* stays refunded.  Several jobs may be refunded in one step: the startup  *)
(* sweep of app/main.py commits all of its refunds together.               *)
(***************************************************************************)
CONSTANT Jobs

VARIABLE outcome   \* outcome[j]

Outcome == {"none", "charged", "delivered", "refunded"}

Init == outcome = [j \in Jobs |-> "none"]

Charge(j) ==
    /\ outcome[j] = "none"
    /\ outcome' = [outcome EXCEPT ![j] = "charged"]

Deliver(j) ==
    /\ outcome[j] = "charged"
    /\ outcome' = [outcome EXCEPT ![j] = "delivered"]

Refund(S) ==
    /\ \A j \in S : outcome[j] = "charged"
    /\ outcome' = [j \in Jobs |-> IF j \in S THEN "refunded" ELSE outcome[j]]

Next ==
    \/ \E j \in Jobs : Charge(j) \/ Deliver(j)
    \/ \E S \in SUBSET Jobs : Refund(S)

Spec == Init /\ [][Next]_outcome

=============================================================================
