---------------------------- MODULE PaddleCharges ----------------------------
(***************************************************************************)
(* What a transaction.completed of Paddle says a charge bought: the plan,  *)
(* and the share of a month (app/services/billing.py).  The Paddle account *)
(* is shared with other apps, and not every field is always there.         *)
(***************************************************************************)
EXTENDS Integers, Sequences

CONSTANTS
    Plans,   \* plans that prices are tagged with
    NoPlan   \* no plan: of an item of another app, or users.plan IS NULL

ASSUME PlansAssumption == NoPlan \notin Plans

(* A value that is there, {v}, or is absent or unreadable. *)
Maybe(S) == {T \in SUBSET S : \A v, w \in T : v = w}

(* A line item: its price's custom_data, credits that cannot be read being *)
(* none, and proration.rate in percent.                                    *)
Item == [ours : BOOLEAN, plan : Plans \cup {NoPlan}, credits : Nat, rate : Maybe(Int)]

(* Of a transaction: its items, the days of its billing_period, and        *)
(* whether its origin is subscription_update.                              *)
Transactions == [items : Seq(Item), days : Maybe(Nat \ {0}), update : BOOLEAN]

First(S) == CHOOSE i \in S : \A k \in S : i <= k

OurItems(tx) == {i \in DOMAIN tx.items : tx.items[i].ours}

Offers(tx) == {i \in OurItems(tx) : tx.items[i].plan # NoPlan /\ tx.items[i].credits > 0}
PlanInTransaction(tx) == tx.items[First(Offers(tx))]

FullPeriodDays == 27   \* 27.5 days, on periods of whole days
MonthDays == 30

(* A share of a month; a charge for a whole one has no rate in the code.   *)
Share(n, d) == [num |-> n, den |-> d]
Whole == Share(1, 1)

Rates(tx) == {i \in OurItems(tx) : tx.items[i].rate # {}}

ItemShare(tx) ==
    LET rate == CHOOSE r \in tx.items[First(Rates(tx))].rate : TRUE
    IN  IF rate \in 0..99 THEN Share(rate, 100) ELSE Whole

PeriodShare(tx) ==
    LET days == CHOOSE d \in tx.days : TRUE
    IN  IF days > FullPeriodDays THEN Whole ELSE Share(days, MonthDays)

UnmeasuredShare_Whole(tx) == Whole
UnmeasuredShare(tx) == IF tx.update THEN Share(0, 1) ELSE Whole

ProrationRate(tx) ==
    IF Rates(tx) # {} THEN ItemShare(tx)
    ELSE IF tx.days # {} THEN PeriodShare(tx)
    ELSE UnmeasuredShare(tx)

(* Python's round of n / d: to the nearest, a half to the even neighbour. *)
Round(n, d) ==
    LET q == n \div d
        r == n % d
    IN  IF 2 * r > d \/ (2 * r = d /\ q % 2 = 1) THEN q + 1 ELSE q

=============================================================================
