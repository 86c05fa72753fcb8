------------------------- MODULE MCEnhancementJobs -------------------------
(***************************************************************************)
(* Instances of EnhancementJobs for TLC.  Alice sends three requests and   *)
(* can pay for two of them; Bob sends one.  With two slots in all and two  *)
(* per account, both refusals of the queue happen.                         *)
(***************************************************************************)
EXTENDS EnhancementJobs

CONSTANTS alice, bob, a1, a2, a3, b1

MCUsers == {alice, bob}
MCJobs  == {a1, a2, a3, b1}
MCOwner == [j \in MCJobs |-> IF j = b1 THEN bob ELSE alice]
MCCost  == [j \in MCJobs |-> IF j = a1 THEN 4 ELSE 2]

MCInitialCredits == [u \in MCUsers |-> IF u = alice THEN 6 ELSE 2]

(* The liveness runs drop Alice's third request. *)
MCFewJobs  == {a1, a2, b1}
MCFewOwner == [j \in MCFewJobs |-> MCOwner[j]]
MCFewCost  == [j \in MCFewJobs |-> MCCost[j]]

=============================================================================
