--------------------------- MODULE AccountCredits ---------------------------
(***************************************************************************)
(* One account's row in users and everything that writes its credits:      *)
(* debits and refunds of jobs (app/services/credits.py), settled charges   *)
(* and ended subscriptions reported by Paddle (app/services/billing.py),   *)
(* the signup bonus (app/auth/service.py) and the deletion of the account  *)
(* (app/services/account.py).                                              *)
(*                                                                         *)
(* Debits and refunds are relative updates (credits = credits - cost) and  *)
(* each is one action.  Every other writer loads the row into its ORM      *)
(* session, computes on the loaded copy, and writes absolute values at the *)
(* commit, and only the columns that differ from the copy it loaded.  The  *)
(* database runs at READ COMMITTED and nothing compares the copy with the  *)
(* row again, so other transactions may commit between the two actions.    *)
(***************************************************************************)
EXTENDS PaddleCharges, FiniteSetsExt

CONSTANTS
    Jobs,          \* jobs of the account
    Cost,          \* Cost[j]: credits the job costs
    Allowance,     \* Allowance[p]: monthly credits of a plan; 0 when it is not sold
    Charges,       \* transactions Paddle completes for this account
    Transaction,   \* Transaction[t]: what its webhook says
    PaidDays,      \* PaidDays[t]: the days of a plan that were paid with it
    Bonus,         \* settings.signup_bonus_credits
    Confirmations, \* POST /auth/verify requests with the account's token
    Deletions      \* POST /auth/delete requests

Webhook == "webhook"   \* the event loop handles one webhook at a time
Canceled == "subscription.canceled"

ASSUME CreditsAssumption ==
    /\ Cost \in [Jobs -> Nat \ {0}]
    /\ Allowance \in [Plans -> Nat]
    /\ Transaction \in [Charges -> Transactions]
    /\ PaidDays \in [Charges -> Nat]
    /\ Bonus \in Nat
    /\ Canceled \notin Charges
    /\ Webhook \notin Confirmations \cup Deletions

(* Paddle is believed: a rate or a period stands for no more of a month    *)
(* than was paid for, and a charge that has neither and is not a change of *)
(* plan is a first payment or a renewal, for a whole one (proration_rate). *)
ASSUME PaddleAssumption ==
    \A t \in Charges :
        LET tx == Transaction[t]
        IN  /\ \A i \in Rates(tx) : \A r \in tx.items[i].rate :
                  r >= 0 /\ r * FullPeriodDays <= 100 * PaidDays[t]
            /\ Rates(tx) = {} => \A d \in tx.days : d <= PaidDays[t]
            /\ Rates(tx) = {} /\ tx.days = {} /\ ~tx.update => PaidDays[t] >= FullPeriodDays

Sessions == {Webhook} \cup Confirmations \cup Deletions

VARIABLES
    row,        \* the committed row of users (and of the verification token)
    job,        \* job[j]: what became of the job's row
    settled,    \* settled[t]: payments rows with this provider_transaction_id
    ledger,     \* credit_ledger: the sum of the deltas, and the bonus rows
    open,       \* handlers that have loaded the row and not committed yet
    copy,       \* copy[s]: the row as the handler's session loaded it
    event,      \* what the webhook being handled reports
    overlapped  \* has a commit ever met a row that changed after the load?

vars == <<row, job, settled, ledger, open, copy, event, overlapped>>

Row == [credits  : Nat,
        plan     : Plans \cup {NoPlan},
        tracked  : BOOLEAN,    \* users.paddle_subscription_id IS NOT NULL
        verified : BOOLEAN,    \* users.email_verified_at IS NOT NULL
        used     : BOOLEAN,    \* email_verifications.used_at IS NOT NULL
        deleted  : BOOLEAN]    \* users.deleted_at IS NOT NULL

NewAccount == [credits |-> 0, plan |-> NoPlan, tracked |-> FALSE,
               verified |-> FALSE, used |-> FALSE, deleted |-> FALSE]

Init ==
    /\ row = NewAccount
    /\ job = [j \in Jobs |-> "none"]
    /\ settled = [t \in Charges |-> 0]
    /\ ledger = [sum |-> 0, bonuses |-> 0]
    /\ open = {}
    /\ copy = [s \in Sessions |-> NewAccount]
    /\ event = Canceled
    /\ overlapped = FALSE

-----------------------------------------------------------------------------
(* A commit of the ORM session: a column is written when the handler gave  *)
(* it another value than the one it loaded.                                *)
Written(loaded, wanted, now) == IF wanted # loaded THEN wanted ELSE now

Flush_WholeRow(s, w) == w
Flush(s, w) ==
    LET l == copy[s] IN
    [credits  |-> Written(l.credits, w.credits, row.credits),
     plan     |-> Written(l.plan, w.plan, row.plan),
     tracked  |-> Written(l.tracked, w.tracked, row.tracked),
     verified |-> Written(l.verified, w.verified, row.verified),
     used     |-> Written(l.used, w.used, row.used),
     deleted  |-> Written(l.deleted, w.deleted, row.deleted)]

(* Every absolute writer adds its own delta to the ledger as it sees it.   *)
Record(delta, bonuses) ==
    ledger' = [sum |-> ledger.sum + delta, bonuses |-> ledger.bonuses + bonuses]

Load(s) ==
    /\ s \notin open
    /\ open' = open \cup {s}
    /\ copy' = [copy EXCEPT ![s] = row]
    /\ UNCHANGED <<row, job, settled, ledger, overlapped>>

Commit(s, wanted) ==
    /\ row' = Flush(s, wanted)
    /\ overlapped' = (overlapped \/ copy[s] # row)
    /\ open' = open \ {s}
    /\ copy' = [copy EXCEPT ![s] = NewAccount]

(* A transaction that ends with nothing written: an error answer (Paddle   *)
(* unreachable, a row that is gone), or the death of the process.          *)
Abandon(s) ==
    /\ s \in open
    /\ open' = open \ {s}
    /\ copy' = [copy EXCEPT ![s] = NewAccount]
    /\ UNCHANGED <<row, job, settled, ledger, event, overlapped>>

-----------------------------------------------------------------------------
(* app/services/credits.py: relative updates *)

CanDebit_Unchecked(j) == TRUE
CanDebit(j) == row.credits >= Cost[j]

Debit(j) ==
    /\ job[j] = "none"
    /\ ~row.deleted              \* no image is left to enhance
    /\ row.verified              \* no image without a confirmed address
    /\ CanDebit(j)
    /\ row' = [row EXCEPT !.credits = @ - Cost[j]]
    /\ job' = [job EXCEPT ![j] = "charged"]
    /\ Record(-Cost[j], 0)
    /\ UNCHANGED <<settled, open, copy, event, overlapped>>

Complete(j) ==
    /\ job[j] = "charged"
    /\ job' = [job EXCEPT ![j] = "completed"]
    /\ UNCHANGED <<row, settled, ledger, open, copy, event, overlapped>>

(* By the worker, or by the startup sweep for a job a restart cut short.   *)
Refund(j) ==
    /\ job[j] = "charged"
    /\ job' = [job EXCEPT ![j] = "refunded"]
    /\ row' = [row EXCEPT !.credits = @ + Cost[j]]
    /\ Record(Cost[j], 0)
    /\ UNCHANGED <<settled, open, copy, event, overlapped>>

-----------------------------------------------------------------------------
(* app/api/billing.py, app/services/billing.py: webhooks.  A charge finds  *)
(* its account by the tracked subscription or, failing that, by the user   *)
(* id in custom_data; neither looks at deleted_at.  One without an item of *)
(* ours is ignored.                                                        *)

AlreadySettled_Never(t) == FALSE
AlreadySettled(t) == settled[t] > 0

ReceiveCharge(t) ==
    /\ Offers(Transaction[t]) # {}
    /\ ~AlreadySettled(t)
    /\ event' = t
    /\ Load(Webhook)

ReceiveCanceled ==
    /\ row.tracked
    /\ event' = Canceled
    /\ Load(Webhook)

PlanAllowance(p) == IF p = NoPlan THEN 0 ELSE Allowance[p]

(* A whole period resets the balance; part of one adds the difference      *)
(* between the allowances, prorated.                                       *)
BalanceAfter(t, l) ==
    LET credits == PlanInTransaction(Transaction[t]).credits
        share   == ProrationRate(Transaction[t])
        bought  == Round((credits - PlanAllowance(l.plan)) * share.num, share.den)
    IN  IF share = Whole THEN credits
        ELSE l.credits + (IF bought > 0 THEN bought ELSE 0)

(* A transaction may belong to no subscription (a change of plan does) and *)
(* then leaves the link as it is.                                          *)
Rides(t) == {TRUE, Transaction[t].update}

Paid(t, l, rides) ==
    [credits |-> BalanceAfter(t, l), plan |-> PlanInTransaction(Transaction[t]).plan,
     tracked |-> rides \/ l.tracked, verified |-> l.verified, used |-> l.used, deleted |-> l.deleted]

SettleCharge(t) ==
    LET l == copy[Webhook]
    IN  /\ Webhook \in open
        /\ event = t
        /\ settled' = [settled EXCEPT ![t] = @ + 1]
        /\ \E rides \in Rides(t) : Commit(Webhook, Paid(t, l, rides))
        /\ Record(BalanceAfter(t, l) - l.credits, 0)
        /\ UNCHANGED <<job, event>>

Expired(l) ==
    [credits |-> 0, plan |-> NoPlan, tracked |-> FALSE,
     verified |-> l.verified, used |-> l.used, deleted |-> l.deleted]

ExpireSubscription_NoLedgerRow ==
    LET l == copy[Webhook]
    IN  /\ Webhook \in open
        /\ event = Canceled
        /\ Commit(Webhook, Expired(l))
        /\ UNCHANGED <<job, settled, ledger, event>>
ExpireSubscription ==
    LET l == copy[Webhook]
    IN  /\ Webhook \in open
        /\ event = Canceled
        /\ Commit(Webhook, Expired(l))
        /\ Record(-l.credits, 0)
        /\ UNCHANGED <<job, settled, event>>

-----------------------------------------------------------------------------
(* app/auth/service.py: verify_email and grant_signup_bonus *)

OpenLink(v) ==
    /\ ~row.used /\ ~row.deleted
    /\ Load(v)
    /\ UNCHANGED event

Confirmed(l, bonus) ==
    [credits |-> l.credits + bonus, plan |-> l.plan, tracked |-> l.tracked,
     verified |-> TRUE, used |-> TRUE, deleted |-> l.deleted]

(* The used_at of a token that a deletion removed meanwhile cannot be      *)
(* written: that confirmation is abandoned.                                *)
Confirm(v) ==
    LET l == copy[v]
        bonus == IF l.verified THEN 0 ELSE Bonus
    IN  /\ v \in open
        /\ ~row.deleted
        /\ Commit(v, Confirmed(l, bonus))
        /\ Record(bonus, IF bonus > 0 THEN 1 ELSE 0)
        /\ UNCHANGED <<job, settled, event>>

-----------------------------------------------------------------------------
(* app/services/account.py, app/auth/router.py: between the load and the   *)
(* commit stand a password check and a call to Paddle of up to 15 seconds. *)

AskDeletion(d) ==
    /\ ~row.deleted
    /\ Load(d)
    /\ UNCHANGED event

Erased(l) == [Expired(l) EXCEPT !.deleted = TRUE]

DeleteAccount_KeepJobs(d) ==
    LET l == copy[d]
    IN  /\ d \in open
        /\ Commit(d, Erased(l))
        /\ Record(-l.credits, 0)
        /\ UNCHANGED <<job, settled, event>>
DeleteAccount(d) ==
    LET l == copy[d]
    IN  /\ d \in open
        /\ job' = [j \in Jobs |-> IF job[j] = "none" THEN "none" ELSE "erased"]
        /\ Commit(d, Erased(l))
        /\ Record(-l.credits, 0)
        /\ UNCHANGED <<settled, event>>

-----------------------------------------------------------------------------
Next ==
    \/ \E j \in Jobs : Debit(j) \/ Complete(j) \/ Refund(j)
    \/ \E t \in Charges : ReceiveCharge(t) \/ SettleCharge(t)
    \/ ReceiveCanceled \/ ExpireSubscription
    \/ \E v \in Confirmations : OpenLink(v) \/ Confirm(v)
    \/ \E d \in Deletions : AskDeletion(d) \/ DeleteAccount(d)
    \/ \E s \in Sessions : Abandon(s)

Spec == Init /\ [][Next]_vars

-----------------------------------------------------------------------------
(* The balance is never negative: an absolute write computed from a copy   *)
(* cannot undercut the guard of the conditional debit.                     *)
TypeOK ==
    /\ row \in Row
    /\ job \in [Jobs -> {"none", "charged", "completed", "refunded", "erased"}]
    /\ settled \in [Charges -> Nat]
    /\ ledger \in [sum : Int, bonuses : Nat]
    /\ open \in SUBSET Sessions
    /\ copy \in [Sessions -> Row]
    /\ event \in Charges \cup {Canceled}
    /\ overlapped \in BOOLEAN

(* "users.credits is the denormalized balance; both are always written in  *)
(* the same transaction" (app/database/models.py, CreditLedger), so the    *)
(* balance is the sum of the ledger.                                       *)
BalanceIsLedger == row.credits = ledger.sum

(* "pay out the signup bonus, exactly once": "a double-clicked link can't  *)
(* pay twice" (app/auth/service.py, grant_signup_bonus).                   *)
BonusOnce == ledger.bonuses <= 1

(* The two statements above hold of every history in which no commit meets *)
(* a row that changed after its handler loaded it: all the drift there is  *)
(* comes from overlapping absolute writes.                                 *)
AgreeUnlessOverlapped == ~overlapped => BalanceIsLedger /\ BonusOnce

(* One payment row per Paddle transaction, however often its webhook is    *)
(* delivered and whatever interrupts its handling.                         *)
ChargeSettledOnce == \A t \in Charges : settled[t] <= 1

(* No late commit of a handler that loaded the row earlier revives a       *)
(* deleted account, a used link or an unproven address.                    *)
NothingUndone ==
    [][ /\ row.deleted => row'.deleted
        /\ row.used => row'.used
        /\ row.verified => row'.verified ]_vars

(* Once an account is deleted no refund and no bonus reaches it, whichever *)
(* job was running and whichever link was being opened; only a charge that *)
(* Paddle settles for it still does.                                       *)
DeletedEarnsNothing ==
    [][ row.deleted /\ row'.credits > row.credits
            => Webhook \in open /\ event \in Charges ]_vars

(* "Granting a full monthly allowance for a few days' money is an          *)
(* arbitrage" (app/services/billing.py, proration_rate): all the credits   *)
(* ever recorded, those that jobs in progress may get back included, are   *)
(* the bonus and what Paddle was paid for, to the day and the credit.      *)
Worth ==
    [t \in Charges |->
        LET tx == Transaction[t]
            credits == PlanInTransaction(tx).credits
        IN  IF Offers(tx) = {} THEN 0
            ELSE IF PaidDays[t] > FullPeriodDays THEN credits
            ELSE (credits * PaidDays[t] + FullPeriodDays - 1) \div FullPeriodDays]
InProgress == {j \in Jobs : job[j] = "charged"}
Collected  == {t \in Charges : settled[t] > 0}
CreditsArePaidFor ==
    ledger.sum + SumFunctionOnSet(Cost, InProgress)
        <= Bonus * ledger.bonuses + SumFunctionOnSet(Worth, Collected)

-----------------------------------------------------------------------------
(* The inductive strengthening the proofs of AccountCreditsProofs use.     *)

(* Only the webhook settles charges, one webhook at a time: the charge it  *)
(* found unsettled is still unsettled when it commits.                     *)
WebhookAlone ==
    Webhook \in open /\ event \in Charges =>
        settled[event] = 0 /\ Offers(Transaction[event]) # {}

(* Deleting an account erases the jobs a refund could still come from.     *)
DeletedHasNoCharge == row.deleted => \A j \in Jobs : job[j] # "charged"

(* A bonus was paid for a proof of the address, and is on the ledger once. *)
BonusForProof == ledger.bonuses <= IF row.verified THEN 1 ELSE 0

(* Everything above at once, about any state the program reaches. *)
IInv ==
    /\ TypeOK
    /\ ChargeSettledOnce
    /\ WebhookAlone
    /\ DeletedHasNoCharge
    /\ ~overlapped => BalanceIsLedger /\ BonusForProof

=============================================================================
