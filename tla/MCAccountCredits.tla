-------------------------- MODULE MCAccountCredits --------------------------
(***************************************************************************)
(* An account with two jobs, a first payment, a mid-cycle upgrade with a   *)
(* rate, one that cannot be measured, a transaction of another app, a      *)
(* confirmation link opened twice and a deletion request.  The amounts are *)
(* scaled down and keep what matters: the bonus pays one job but not both, *)
(* and the upgrade's prorated grant is a half that rounds.                 *)
(***************************************************************************)
EXTENDS AccountCredits, TLC

CONSTANTS small, big, basic, pro, first, upgrade, blind, other

MCJobs      == {small, big}
MCCost      == [j \in MCJobs |-> IF j = small THEN 1 ELSE 4]
MCPlans     == {basic, pro}
MCAllowance == [p \in MCPlans |-> IF p = basic THEN 3 ELSE 6]
MCCharges   == {first, upgrade, blind, other}

Foreign == [ours |-> FALSE, plan |-> NoPlan, credits |-> 9, rate |-> {100}]
Ours(p, r) == [ours |-> TRUE, plan |-> p, credits |-> MCAllowance[p], rate |-> r]
MCTransaction ==
    [t \in MCCharges |->
        IF t = first THEN [items |-> <<Ours(basic, {})>>, days |-> {31}, update |-> FALSE]
        ELSE IF t = upgrade
        THEN [items |-> <<Foreign, Ours(pro, {50})>>, days |-> {15}, update |-> TRUE]
        ELSE IF t = blind THEN [items |-> <<Ours(pro, {})>>, days |-> {}, update |-> TRUE]
        ELSE [items |-> <<Foreign>>, days |-> {31}, update |-> FALSE]]
MCPaidDays == [t \in MCCharges |-> IF t = upgrade THEN 15 ELSE IF t = blind THEN 1 ELSE 31]

(* The two confirmations are the same request twice. *)
MCSymmetry == Permutations(Confirmations)

=============================================================================
