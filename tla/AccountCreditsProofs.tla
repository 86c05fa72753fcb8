------------------------ MODULE AccountCreditsProofs ------------------------
(***************************************************************************)
(* Proofs about AccountCredits, for any number of jobs, charges, link      *)
(* confirmations and deletion requests, and for any prices.                *)
(***************************************************************************)
EXTENDS AccountCredits, SumLemmas

-----------------------------------------------------------------------------
(* What a transaction offers, and arithmetic of the grants: whole credits, *)
(* never fewer than none.                                                  *)

(* A set of positions has a first one. *)
LEMMA FirstIsThere == ASSUME NEW S \in SUBSET Nat, S # {} PROVE First(S) \in S
<1> DEFINE R == OpToRel(<, Nat)
<1>1. IsWellFoundedOn(R, Nat)
  BY NatLessThanWellFounded
<1> HIDE DEF R
<1>2. PICK i \in S : \A k \in S : ~(<<k, i>> \in R)
  BY <1>1, WFMin, Zenon
<1>3. R = {ss \in Nat \X Nat : ss[1] < ss[2]}
  BY DEF OpToRel, R
<1>4. ASSUME NEW k \in S PROVE i <= k
  <2>1. i \in Nat /\ k \in Nat /\ ~(<<k, i>> \in R)
    BY <1>2
  <2> QED BY <1>3, <2>1
<1> QED BY <1>4 DEF First

(* plan_in_transaction finds a plan and its credits on one of our items.   *)
LEMMA OfferIsPlan ==
    ASSUME NEW t \in Charges, Offers(Transaction[t]) # {}
    PROVE  /\ PlanInTransaction(Transaction[t]).plan \in Plans
           /\ PlanInTransaction(Transaction[t]).credits \in Nat
<1> DEFINE tx == Transaction[t]
<1>1. tx.items \in Seq(Item)
  BY CreditsAssumption DEF Transactions
<1>2. Offers(tx) \subseteq DOMAIN tx.items /\ DOMAIN tx.items \subseteq Nat
  BY <1>1 DEF Offers, OurItems
<1>3. First(Offers(tx)) \in Offers(tx)
  BY <1>2, FirstIsThere
<1> DEFINE i == First(Offers(tx))
<1> HIDE DEF i
<1>4. i \in DOMAIN tx.items /\ tx.items[i].plan # NoPlan
  BY <1>3 DEF Offers, OurItems, i
<1>5. PlanInTransaction(tx) = tx.items[i] /\ tx.items[i] \in Item
  BY <1>1, <1>4 DEF PlanInTransaction, i
<1> QED BY <1>4, <1>5 DEF Item

(* proration_rate is a fraction. *)
LEMMA RateIsShare ==
    ASSUME NEW t \in Charges
    PROVE  \E n \in Nat, d \in Nat \ {0} : ProrationRate(Transaction[t]) = Share(n, d)
<1> DEFINE tx == Transaction[t]
<1>1. ItemShare(tx) = Whole \/ \E n \in 0..99 : ItemShare(tx) = Share(n, 100)
  BY DEF ItemShare
<1>2. tx.days # {} => (CHOOSE d \in tx.days : TRUE) \in Nat
  BY CreditsAssumption DEF Transactions, Maybe
<1>3. tx.days # {} =>
         PeriodShare(tx) = Whole \/ \E n \in Nat : PeriodShare(tx) = Share(n, MonthDays)
  BY <1>2 DEF PeriodShare
<1>4. UnmeasuredShare(tx) \in {Share(0, 1), Whole}
  BY DEF UnmeasuredShare
<1>5. /\ 100 \in Nat \ {0} /\ MonthDays \in Nat \ {0} /\ 0 \in Nat /\ 1 \in Nat \ {0}
      /\ 0..99 \subseteq Nat
  BY DEF MonthDays
<1> QED BY <1>1, <1>3, <1>4, <1>5 DEF ProrationRate, Whole

(* Rounding a fraction gives an integer. *)
LEMMA RoundIsInt == ASSUME NEW n \in Int, NEW d \in Nat \ {0} PROVE Round(n, d) \in Int
<1> DEFINE q == n \div d
<1>1. q \in Int /\ q + 1 \in Int
  OBVIOUS
<1> QED BY <1>1 DEF Round

(* A settled charge leaves a balance that is a number of credits. *)
LEMMA BalanceIsNat ==
    ASSUME NEW t \in Charges, Offers(Transaction[t]) # {}, NEW l \in Row
    PROVE  BalanceAfter(t, l) \in Nat
<1> DEFINE credits == PlanInTransaction(Transaction[t]).credits
           share   == ProrationRate(Transaction[t])
           bought  == Round((credits - PlanAllowance(l.plan)) * share.num, share.den)
<1>1. credits \in Nat
  BY OfferIsPlan
<1>2. PICK n \in Nat, d \in Nat \ {0} : share = [num |-> n, den |-> d]
  BY RateIsShare, Zenon DEF Share
<1>3. l.credits \in Nat /\ PlanAllowance(l.plan) \in Nat
  BY CreditsAssumption DEF Row, PlanAllowance
<1> HIDE DEF credits, share
<1>4. bought = Round((credits - PlanAllowance(l.plan)) * n, d)
  BY <1>2
<1>5. bought \in Int
  BY <1>1, <1>3, <1>4, RoundIsInt
<1> HIDE DEF bought
<1>6. (IF bought > 0 THEN bought ELSE 0) \in Nat
  BY <1>5
<1>7. BalanceAfter(t, l) = IF share = Whole THEN credits
                           ELSE l.credits + (IF bought > 0 THEN bought ELSE 0)
  BY DEF BalanceAfter, credits, share, bought
<1> QED BY <1>1, <1>3, <1>6, <1>7

-----------------------------------------------------------------------------
(* What a commit of the ORM session does. *)

(* The row a commit leaves is a row. *)
LEMMA FlushIsRow ==
    ASSUME TypeOK, NEW s \in Sessions, NEW w \in Row
    PROVE  Flush(s, w) \in Row
BY DEF TypeOK, Flush, Written, Row

(* A commit that meets the row it loaded writes exactly what was wanted. *)
LEMMA FlushUndisturbed ==
    ASSUME TypeOK, NEW s \in Sessions, NEW w \in Row, copy[s] = row
    PROVE  Flush(s, w) = w
BY DEF TypeOK, Flush, Written, Row

(* The copies stay rows and the open sessions stay sessions. *)
LEMMA CommitTypes ==
    ASSUME TypeOK, NEW s \in Sessions, NEW w \in Row, Commit(s, w)
    PROVE  /\ row' \in Row
           /\ overlapped' \in BOOLEAN
           /\ open' \in SUBSET Sessions
           /\ copy' \in [Sessions -> Row]
<1>1. NewAccount \in Row
  BY DEF NewAccount, Row
<1> QED BY <1>1, FlushIsRow DEF Commit, TypeOK

(* The three values the handlers want to write are rows. *)
LEMMA WantedIsRow ==
    ASSUME NEW l \in Row
    PROVE  /\ \A t \in Charges, b \in BOOLEAN : Offers(Transaction[t]) # {} =>
                Paid(t, l, b) \in Row /\ Paid(t, l, b).credits = BalanceAfter(t, l)
           /\ Expired(l) \in Row
           /\ Erased(l) \in Row
           /\ \A b \in {0, Bonus} : Confirmed(l, b) \in Row
<1>1. /\ Bonus \in Nat
      /\ \A t \in Charges : Offers(Transaction[t]) # {} =>
            PlanInTransaction(Transaction[t]).plan \in Plans
  BY CreditsAssumption, OfferIsPlan
<1>2. l.credits \in Nat
  BY DEF Row
<1>3. \A b \in {0, Bonus} : l.credits + b \in Nat
  BY <1>1, <1>2
<1> QED BY <1>1, <1>3, BalanceIsNat DEF Row, Paid, Expired, Erased, Confirmed

-----------------------------------------------------------------------------
(* Every handler that commits, as one statement: the row it wants, what it *)
(* adds to the ledger, and who may do it.                                  *)

(* The webhook settling a charge. *)
LEMMA SettleEffect ==
    ASSUME TypeOK, WebhookAlone, NEW t \in Charges, SettleCharge(t)
    PROVE  \E w \in Row :
              /\ Commit(Webhook, w)
              /\ w.credits \in Nat
              /\ w.verified = copy[Webhook].verified
              /\ w.used = copy[Webhook].used
              /\ w.deleted = copy[Webhook].deleted
              /\ Record(w.credits - copy[Webhook].credits, 0)
<1> DEFINE l == copy[Webhook]
<1>0. PICK rides \in BOOLEAN : Commit(Webhook, Paid(t, l, rides))
  <2>1. Transaction[t].update \in BOOLEAN
    BY CreditsAssumption DEF Transactions
  <2> QED BY <2>1 DEF SettleCharge, Rides
<1> DEFINE w == Paid(t, l, rides)
<1>1. l \in Row
  BY DEF TypeOK, Sessions
<1>2. Offers(Transaction[t]) # {}
  BY DEF SettleCharge, WebhookAlone
<1>2a. w \in Row /\ BalanceAfter(t, l) \in Nat
  BY <1>1, <1>2, WantedIsRow, BalanceIsNat
<1>3. /\ w.credits = BalanceAfter(t, l)
      /\ w.verified = l.verified /\ w.used = l.used /\ w.deleted = l.deleted
  BY <1>1 DEF Row, Paid
<1>4. Commit(Webhook, w) /\ Record(BalanceAfter(t, l) - l.credits, 0)
  BY <1>0 DEF SettleCharge
<1> QED BY <1>2a, <1>3, <1>4

(* The webhook ending a subscription. *)
LEMMA ExpireEffect ==
    ASSUME TypeOK, ExpireSubscription
    PROVE  \E w \in Row :
              /\ Commit(Webhook, w)
              /\ w.credits = 0
              /\ w.verified = copy[Webhook].verified
              /\ w.used = copy[Webhook].used
              /\ w.deleted = copy[Webhook].deleted
              /\ Record(-copy[Webhook].credits, 0)
<1> DEFINE l == copy[Webhook]
           w == Expired(l)
<1>1. l \in Row
  BY DEF TypeOK, Sessions
<1>2. w \in Row
  BY <1>1, WantedIsRow
<1>3. /\ w.credits = 0
      /\ w.verified = l.verified /\ w.used = l.used /\ w.deleted = l.deleted
  BY <1>1 DEF Row, Expired
<1>4. Commit(Webhook, w) /\ Record(-l.credits, 0)
  BY DEF ExpireSubscription
<1> QED BY <1>2, <1>3, <1>4

(* A confirmation: the bonus goes with the proof. *)
LEMMA ConfirmEffect ==
    ASSUME TypeOK, NEW v \in Confirmations, Confirm(v)
    PROVE  \E w \in Row :
              /\ Commit(v, w)
              /\ w.credits >= copy[v].credits
              /\ w.verified /\ w.used
              /\ w.deleted = copy[v].deleted
              /\ \E n \in 0..1 :
                    /\ n = 1 => ~copy[v].verified
                    /\ Record(w.credits - copy[v].credits, n)
<1> DEFINE l == copy[v]
           b == IF l.verified THEN 0 ELSE Bonus
           n == IF b > 0 THEN 1 ELSE 0
           w == Confirmed(l, b)
<1>1. l \in Row
  BY DEF TypeOK, Sessions
<1>2. b \in {0, Bonus} /\ b \in Nat /\ n \in 0..1 /\ (n = 1 => ~l.verified)
  BY CreditsAssumption
<1>3. w \in Row
  BY <1>1, <1>2, WantedIsRow
<1> HIDE DEF b
<1>4. /\ w.credits = l.credits + b
      /\ w.verified /\ w.used /\ w.deleted = l.deleted
      /\ l.credits \in Nat
  BY <1>1 DEF Row, Confirmed
<1>5. Commit(v, w) /\ Record(b, n)
  BY DEF Confirm, b
<1>6. w.credits - l.credits = b /\ w.credits >= l.credits
  BY <1>2, <1>4
<1> QED BY <1>2, <1>3, <1>4, <1>5, <1>6

(* A deletion. *)
LEMMA DeleteEffect ==
    ASSUME TypeOK, NEW d \in Deletions, DeleteAccount(d)
    PROVE  \E w \in Row :
              /\ Commit(d, w)
              /\ w.credits = 0
              /\ w.verified = copy[d].verified
              /\ w.used = copy[d].used
              /\ w.deleted
              /\ Record(-copy[d].credits, 0)
<1> DEFINE l == copy[d]
           w == Erased(l)
<1>1. l \in Row
  BY DEF TypeOK, Sessions
<1>2. w \in Row
  BY <1>1, WantedIsRow
<1>3. /\ w.credits = 0
      /\ w.verified = l.verified /\ w.used = l.used /\ w.deleted
  BY <1>1 DEF Row, Erased, Expired
<1>4. Commit(d, w) /\ Record(-l.credits, 0)
  BY DEF DeleteAccount
<1> QED BY <1>2, <1>3, <1>4

-----------------------------------------------------------------------------
(* The invariant, first what the commits have in common. *)

(* A transaction that opens, commits or is abandoned leaves its types.     *)
LEMMA LoadTypes ==
    ASSUME TypeOK, NEW s \in Sessions, Load(s)
    PROVE  open' \in SUBSET Sessions /\ copy' \in [Sessions -> Row]
BY DEF Load, TypeOK

(* A commit that meets the row it loaded keeps balance and ledger in step  *)
(* when it records the difference it made.                                 *)
LEMMA CommitAgrees ==
    ASSUME TypeOK, ~overlapped => BalanceIsLedger,
           NEW s \in Sessions, NEW w \in Row, NEW n \in Nat,
           Commit(s, w), Record(w.credits - copy[s].credits, n)
    PROVE  ~overlapped' => BalanceIsLedger' /\ row' = w /\ copy[s] = row /\ ~overlapped
<1> SUFFICES ASSUME ~overlapped'
             PROVE  BalanceIsLedger' /\ row' = w /\ copy[s] = row /\ ~overlapped
  OBVIOUS
<1>1. ~overlapped /\ copy[s] = row
  BY DEF Commit, TypeOK
<1>2. row' = w
  BY <1>1, FlushUndisturbed DEF Commit
<1>3. row.credits \in Nat /\ w.credits \in Nat /\ ledger.sum \in Int
  BY DEF TypeOK, Row
<1>4. ledger'.sum = ledger.sum + (w.credits - row.credits)
  BY <1>1 DEF Record
<1> QED BY <1>1, <1>2, <1>3, <1>4 DEF BalanceIsLedger

(* What a commit does to the three flags that must never be undone.        *)
LEMMA FlushKeepsFlags ==
    ASSUME NEW s, NEW w, Commit(s, w)
    PROVE  /\ w.deleted \/ w.deleted = copy[s].deleted => (row.deleted => row'.deleted)
           /\ w.used \/ w.used = copy[s].used => (row.used => row'.used)
           /\ w.verified \/ w.verified = copy[s].verified => (row.verified => row'.verified)
           /\ w.deleted = copy[s].deleted => row'.deleted = row.deleted
BY DEF Commit, Flush, Written

-----------------------------------------------------------------------------
LEMMA InitIInv == Init => IInv
<1> SUFFICES ASSUME Init PROVE IInv
  OBVIOUS
<1>1. NewAccount \in Row
  BY DEF NewAccount, Row
<1>2. ledger \in [sum : Int, bonuses : Nat] /\ settled \in [Charges -> Nat]
  BY DEF Init
<1>3. TypeOK
  BY <1>1, <1>2 DEF Init, TypeOK
<1> QED BY <1>3, CreditsAssumption DEF Init, IInv, ChargeSettledOnce, WebhookAlone,
        DeletedHasNoCharge, BalanceIsLedger, BonusForProof, NewAccount

LEMMA StepIInv == IInv /\ [Next]_vars => IInv'
<1> SUFFICES ASSUME IInv, [Next]_vars PROVE IInv'
  OBVIOUS
<1>0. /\ TypeOK /\ ChargeSettledOnce /\ WebhookAlone /\ DeletedHasNoCharge
      /\ ~overlapped => BalanceIsLedger
      /\ ~overlapped => BonusForProof
  BY DEF IInv
<1>t. /\ row.credits \in Nat /\ ledger.sum \in Int /\ ledger.bonuses \in Nat
      /\ \A j \in Jobs : Cost[j] \in Nat
  BY <1>0, CreditsAssumption DEF TypeOK, Row
<1>1. ASSUME NEW j \in Jobs, Debit(j) PROVE IInv'
  <2>1. row.credits - Cost[j] \in Nat /\ ~row.deleted
    BY <1>t, <1>1 DEF Debit, CanDebit
  <2>2. /\ row' \in Row /\ row'.credits = row.credits - Cost[j]
        /\ row'.verified = row.verified /\ row'.deleted = row.deleted
    BY <1>0, <1>1, <2>1 DEF Debit, TypeOK, Row
  <2>3. /\ ledger' \in [sum : Int, bonuses : Nat]
        /\ ledger'.sum = ledger.sum - Cost[j] /\ ledger'.bonuses = ledger.bonuses
    BY <1>t, <1>1 DEF Debit, Record
  <2>4. job' \in [Jobs -> {"none", "charged", "completed", "refunded", "erased"}]
    BY <1>0, <1>1 DEF Debit, TypeOK
  <2>5. TypeOK'
    BY <1>0, <1>1, <2>2, <2>3, <2>4 DEF Debit, TypeOK
  <2>6. ~overlapped' => BalanceIsLedger' /\ BonusForProof'
    BY <1>0, <1>t, <1>1, <2>2, <2>3 DEF Debit, BalanceIsLedger, BonusForProof
  <2> QED BY <1>0, <1>1, <2>1, <2>2, <2>5, <2>6
          DEF IInv, Debit, ChargeSettledOnce, WebhookAlone, DeletedHasNoCharge
<1>2. ASSUME NEW j \in Jobs, Complete(j) PROVE IInv'
  <2>1. TypeOK'
    BY <1>0, <1>2 DEF Complete, TypeOK
  <2>2. DeletedHasNoCharge'
    BY <1>0, <1>2 DEF Complete, DeletedHasNoCharge, TypeOK
  <2> QED BY <1>0, <1>2, <2>1, <2>2 DEF IInv, Complete, ChargeSettledOnce, WebhookAlone,
          BalanceIsLedger, BonusForProof
<1>3. ASSUME NEW j \in Jobs, Refund(j) PROVE IInv'
  <2>1. row.credits + Cost[j] \in Nat
    BY <1>t
  <2>2. /\ row' \in Row /\ row'.credits = row.credits + Cost[j]
        /\ row'.verified = row.verified /\ row'.deleted = row.deleted
    BY <1>0, <1>3, <2>1 DEF Refund, TypeOK, Row
  <2>3. /\ ledger' \in [sum : Int, bonuses : Nat]
        /\ ledger'.sum = ledger.sum + Cost[j] /\ ledger'.bonuses = ledger.bonuses
    BY <1>t, <1>3 DEF Refund, Record
  <2>4. job' \in [Jobs -> {"none", "charged", "completed", "refunded", "erased"}]
    BY <1>0, <1>3 DEF Refund, TypeOK
  <2>5. TypeOK'
    BY <1>0, <1>3, <2>2, <2>3, <2>4 DEF Refund, TypeOK
  <2>6. ~overlapped' => BalanceIsLedger' /\ BonusForProof'
    BY <1>0, <1>t, <1>3, <2>2, <2>3 DEF Refund, BalanceIsLedger, BonusForProof
  <2>7. DeletedHasNoCharge'
    BY <1>0, <1>3, <2>2 DEF Refund, DeletedHasNoCharge, TypeOK
  <2> QED BY <1>0, <1>3, <2>5, <2>6, <2>7
          DEF IInv, Refund, ChargeSettledOnce, WebhookAlone
<1>4. ASSUME NEW t \in Charges, ReceiveCharge(t) PROVE IInv'
  <2>1. TypeOK'
    BY <1>0, <1>4, LoadTypes DEF ReceiveCharge, Load, TypeOK, Sessions
  <2>2. WebhookAlone'
    BY <1>0, <1>4 DEF ReceiveCharge, Load, WebhookAlone, AlreadySettled, TypeOK
  <2> QED BY <1>0, <1>4, <2>1, <2>2 DEF IInv, ReceiveCharge, Load, ChargeSettledOnce,
          DeletedHasNoCharge, BalanceIsLedger, BonusForProof
<1>5. CASE ReceiveCanceled
  <2>1. TypeOK'
    BY <1>0, <1>5, LoadTypes DEF ReceiveCanceled, Load, TypeOK, Sessions
  <2> QED BY <1>0, <1>5, <2>1, CreditsAssumption DEF IInv, ReceiveCanceled, Load,
          ChargeSettledOnce, WebhookAlone, DeletedHasNoCharge, BalanceIsLedger, BonusForProof
<1>6. ASSUME NEW t \in Charges, SettleCharge(t) PROVE IInv'
  <2>1. PICK w \in Row :
              /\ Commit(Webhook, w)
              /\ w.credits \in Nat
              /\ w.verified = copy[Webhook].verified
              /\ w.used = copy[Webhook].used
              /\ w.deleted = copy[Webhook].deleted
              /\ Record(w.credits - copy[Webhook].credits, 0)
    BY <1>0, <1>6, SettleEffect
  <2>2. /\ Webhook \in Sessions /\ copy[Webhook].credits \in Nat
    BY <1>0 DEF TypeOK, Sessions, Row
  <2>3. ledger' \in [sum : Int, bonuses : Nat] /\ ledger'.bonuses = ledger.bonuses
    BY <1>t, <2>1, <2>2 DEF Record
  <2>4. settled' \in [Charges -> Nat] /\ settled[t] = 0 /\ settled' = [settled EXCEPT ![t] = 1]
    BY <1>0, <1>6 DEF SettleCharge, WebhookAlone, TypeOK
  <2>5. TypeOK'
    BY <1>0, <1>6, <2>1, <2>2, <2>3, <2>4, CommitTypes DEF SettleCharge, TypeOK
  <2>6. ChargeSettledOnce'
    BY <1>0, <2>4 DEF ChargeSettledOnce, TypeOK
  <2>7. Webhook \notin open'
    BY <2>1 DEF Commit
  <2>8. DeletedHasNoCharge'
    BY <1>0, <1>6, <2>1, FlushKeepsFlags DEF SettleCharge, DeletedHasNoCharge
  <2>9. ~overlapped' => BalanceIsLedger' /\ row' = w /\ copy[Webhook] = row /\ ~overlapped
    <3>1. /\ TypeOK /\ (~overlapped => BalanceIsLedger)
          /\ Webhook \in Sessions /\ Commit(Webhook, w)
          /\ Record(w.credits - copy[Webhook].credits, 0)
      BY <1>0, <2>1, <2>2
    <3> QED BY <3>1, CommitAgrees, Zenon
  <2>10. ~overlapped' => BonusForProof'
    BY <1>0, <2>1, <2>3, <2>9 DEF BonusForProof
  <2> QED BY <2>5, <2>6, <2>7, <2>8, <2>9, <2>10 DEF IInv, WebhookAlone
<1>7. CASE ExpireSubscription
  <2>1. PICK w \in Row :
              /\ Commit(Webhook, w)
              /\ w.credits = 0
              /\ w.verified = copy[Webhook].verified
              /\ w.used = copy[Webhook].used
              /\ w.deleted = copy[Webhook].deleted
              /\ Record(-copy[Webhook].credits, 0)
    BY <1>0, <1>7, ExpireEffect
  <2>2. Webhook \in Sessions /\ copy[Webhook].credits \in Nat
    BY <1>0 DEF TypeOK, Sessions, Row
  <2>3. ledger' \in [sum : Int, bonuses : Nat] /\ ledger'.bonuses = ledger.bonuses
    BY <1>t, <2>1, <2>2 DEF Record
  <2>4. TypeOK'
    BY <1>0, <1>7, <2>1, <2>2, <2>3, CommitTypes DEF ExpireSubscription, TypeOK
  <2>5. Webhook \notin open'
    BY <2>1 DEF Commit
  <2>6. DeletedHasNoCharge'
    BY <1>0, <1>7, <2>1, FlushKeepsFlags DEF ExpireSubscription, DeletedHasNoCharge
  <2>7. Record(w.credits - copy[Webhook].credits, 0)
    BY <2>1, <2>2
  <2>8. ~overlapped' => BalanceIsLedger' /\ row' = w /\ copy[Webhook] = row /\ ~overlapped
    <3>1. /\ TypeOK /\ (~overlapped => BalanceIsLedger)
          /\ Webhook \in Sessions /\ Commit(Webhook, w)
      BY <1>0, <2>1, <2>2
    <3>2. 0 \in Nat
      OBVIOUS
    <3> QED BY <2>7, <3>1, <3>2, CommitAgrees, Zenon
  <2>9. ~overlapped' => BonusForProof'
    BY <1>0, <2>1, <2>3, <2>8 DEF BonusForProof
  <2> QED BY <1>0, <1>7, <2>4, <2>5, <2>6, <2>8, <2>9
          DEF IInv, WebhookAlone, ChargeSettledOnce, ExpireSubscription
<1>8. ASSUME NEW v \in Confirmations, OpenLink(v) PROVE IInv'
  <2>1. TypeOK'
    BY <1>0, <1>8, LoadTypes DEF OpenLink, Load, TypeOK, Sessions
  <2>2. WebhookAlone'
    BY <1>0, <1>8, CreditsAssumption DEF OpenLink, Load, WebhookAlone
  <2> QED BY <1>0, <1>8, <2>1, <2>2 DEF IInv, OpenLink, Load, ChargeSettledOnce,
          DeletedHasNoCharge, BalanceIsLedger, BonusForProof
<1>9. ASSUME NEW v \in Confirmations, Confirm(v) PROVE IInv'
  <2>1. PICK w \in Row :
              /\ Commit(v, w)
              /\ w.credits >= copy[v].credits
              /\ w.verified /\ w.used
              /\ w.deleted = copy[v].deleted
              /\ \E n \in 0..1 :
                    /\ n = 1 => ~copy[v].verified
                    /\ Record(w.credits - copy[v].credits, n)
    BY <1>0, <1>9, ConfirmEffect
  <2>2. PICK n \in 0..1 :
              /\ n = 1 => ~copy[v].verified
              /\ Record(w.credits - copy[v].credits, n)
    BY <2>1
  <2>3. v \in Sessions /\ copy[v].credits \in Nat /\ w.credits \in Nat
    BY <1>0 DEF TypeOK, Sessions, Row
  <2>4. ledger' \in [sum : Int, bonuses : Nat] /\ ledger'.bonuses = ledger.bonuses + n
    BY <1>t, <2>2, <2>3 DEF Record
  <2>5. TypeOK'
    BY <1>0, <1>9, <2>1, <2>3, <2>4, CommitTypes DEF Confirm, TypeOK
  <2>6. WebhookAlone'
    BY <1>0, <1>9, <2>1 DEF Confirm, Commit, WebhookAlone
  <2>7. DeletedHasNoCharge'
    BY <1>0, <1>9, <2>1, FlushKeepsFlags DEF Confirm, DeletedHasNoCharge
  <2>8. ~overlapped' => BalanceIsLedger' /\ row' = w /\ copy[v] = row /\ ~overlapped
    BY <1>0, <2>1, <2>2, <2>3, CommitAgrees
  <2>9. ~overlapped' => BonusForProof'
    BY <1>0, <1>t, <2>1, <2>2, <2>4, <2>8 DEF BonusForProof
  <2> QED BY <1>0, <1>9, <2>5, <2>6, <2>7, <2>8, <2>9
          DEF IInv, ChargeSettledOnce, Confirm
<1>10. ASSUME NEW d \in Deletions, AskDeletion(d) PROVE IInv'
  <2>1. TypeOK'
    BY <1>0, <1>10, LoadTypes DEF AskDeletion, Load, TypeOK, Sessions
  <2>2. WebhookAlone'
    BY <1>0, <1>10, CreditsAssumption DEF AskDeletion, Load, WebhookAlone
  <2> QED BY <1>0, <1>10, <2>1, <2>2 DEF IInv, AskDeletion, Load, ChargeSettledOnce,
          DeletedHasNoCharge, BalanceIsLedger, BonusForProof
<1>11. ASSUME NEW d \in Deletions, DeleteAccount(d) PROVE IInv'
  <2>1. PICK w \in Row :
              /\ Commit(d, w)
              /\ w.credits = 0
              /\ w.verified = copy[d].verified
              /\ w.used = copy[d].used
              /\ w.deleted
              /\ Record(-copy[d].credits, 0)
    BY <1>0, <1>11, DeleteEffect
  <2>2. d \in Sessions /\ copy[d].credits \in Nat
    BY <1>0 DEF TypeOK, Sessions, Row
  <2>3. ledger' \in [sum : Int, bonuses : Nat] /\ ledger'.bonuses = ledger.bonuses
    BY <1>t, <2>1, <2>2 DEF Record
  <2>4. job' \in [Jobs -> {"none", "charged", "completed", "refunded", "erased"}]
    BY <1>11 DEF DeleteAccount
  <2>5. TypeOK'
    BY <1>0, <1>11, <2>1, <2>2, <2>3, <2>4, CommitTypes DEF DeleteAccount, TypeOK
  <2>6. DeletedHasNoCharge'
    BY <1>11 DEF DeleteAccount, DeletedHasNoCharge
  <2>7. WebhookAlone'
    BY <1>0, <1>11, <2>1 DEF DeleteAccount, Commit, WebhookAlone
  <2>8. w \in Row /\ 0 \in Nat /\ Commit(d, w) /\ Record(w.credits - copy[d].credits, 0)
    BY <2>1, <2>2
  <2>9. ~overlapped' => BalanceIsLedger' /\ row' = w /\ copy[d] = row /\ ~overlapped
    BY <1>0, <2>1, <2>2, <2>8, CommitAgrees
  <2>10. ~overlapped' => BonusForProof'
    BY <1>0, <2>1, <2>3, <2>9 DEF BonusForProof
  <2> QED BY <1>0, <1>11, <2>5, <2>6, <2>7, <2>9, <2>10
          DEF IInv, ChargeSettledOnce, DeleteAccount
<1>12. ASSUME NEW s \in Sessions, Abandon(s) PROVE IInv'
  <2>1. NewAccount \in Row
    BY DEF NewAccount, Row
  <2>2. TypeOK'
    BY <1>0, <1>12, <2>1 DEF Abandon, TypeOK
  <2> QED BY <1>0, <1>12, <2>2 DEF IInv, Abandon, ChargeSettledOnce, WebhookAlone,
          DeletedHasNoCharge, BalanceIsLedger, BonusForProof
<1>13. CASE UNCHANGED vars
  BY <1>0, <1>13 DEF IInv, vars, TypeOK, ChargeSettledOnce, WebhookAlone,
     DeletedHasNoCharge, BalanceIsLedger, BonusForProof
<1> QED BY <1>1, <1>2, <1>3, <1>4, <1>5, <1>6, <1>7, <1>8, <1>9, <1>10, <1>11, <1>12, <1>13
        DEF Next

(* The strengthened invariant holds in every state the writers of an       *)
(* account's row can reach.                                                *)
THEOREM Inductive == Spec => []IInv
<1> QED BY InitIInv, StepIInv, PTL DEF Spec

(* Type correctness; in particular users.credits never goes below zero,    *)
(* although it is also written from stale copies.                          *)
THEOREM TypeCorrect == Spec => []TypeOK
<1>1. IInv => TypeOK
  BY DEF IInv
<1> QED BY <1>1, Inductive, PTL

(* apply_renewal: one settled payment per Paddle transaction, however      *)
(* often its webhook comes.                                                *)
THEOREM SettledAtMostOnce == Spec => []ChargeSettledOnce
<1>1. IInv => ChargeSettledOnce
  BY DEF IInv
<1> QED BY <1>1, Inductive, PTL

(* Where no commit meets a row that changed under it, users.credits is the *)
(* sum of credit_ledger and the signup bonus is paid once.                 *)
THEOREM DriftNeedsOverlap == Spec => []AgreeUnlessOverlapped
<1>1. ASSUME IInv PROVE AgreeUnlessOverlapped
  <2>1. ledger.bonuses \in Nat
    BY <1>1 DEF IInv, TypeOK
  <2> QED BY <1>1, <2>1 DEF IInv, AgreeUnlessOverlapped, BonusForProof, BonusOnce
<1> QED BY <1>1, Inductive, PTL

-----------------------------------------------------------------------------
(* The action properties. *)

(* verify_email, delete_account: no commit, however stale its copy, takes  *)
(* back a deletion, a used link or a proven address.                       *)
THEOREM FlagsNeverUndone == Spec => NothingUndone
<1>1. ASSUME IInv, [Next]_vars
      PROVE  [ /\ row.deleted => row'.deleted
               /\ row.used => row'.used
               /\ row.verified => row'.verified ]_vars
  <2>0. TypeOK /\ WebhookAlone
    BY <1>1 DEF IInv
  <2>1. ASSUME NEW t \in Charges, SettleCharge(t)
        PROVE  /\ row.deleted => row'.deleted
               /\ row.used => row'.used
               /\ row.verified => row'.verified
    BY <2>0, <2>1, SettleEffect, FlushKeepsFlags
  <2>2. ASSUME ExpireSubscription
        PROVE  /\ row.deleted => row'.deleted
               /\ row.used => row'.used
               /\ row.verified => row'.verified
    BY <2>0, <2>2, ExpireEffect, FlushKeepsFlags
  <2>3. ASSUME NEW v \in Confirmations, Confirm(v)
        PROVE  /\ row.deleted => row'.deleted
               /\ row.used => row'.used
               /\ row.verified => row'.verified
    BY <2>0, <2>3, ConfirmEffect, FlushKeepsFlags
  <2>4. ASSUME NEW d \in Deletions, DeleteAccount(d)
        PROVE  /\ row.deleted => row'.deleted
               /\ row.used => row'.used
               /\ row.verified => row'.verified
    BY <2>0, <2>4, DeleteEffect, FlushKeepsFlags
  <2>5. ASSUME NEW j \in Jobs, Debit(j) \/ Refund(j)
        PROVE  /\ row.deleted => row'.deleted
               /\ row.used => row'.used
               /\ row.verified => row'.verified
    BY <2>0, <2>5 DEF Debit, Refund, TypeOK, Row
  <2>6. CASE \/ \E j \in Jobs : Complete(j)
             \/ \E t \in Charges : ReceiveCharge(t)
             \/ ReceiveCanceled
             \/ \E v \in Confirmations : OpenLink(v)
             \/ \E d \in Deletions : AskDeletion(d)
             \/ \E s \in Sessions : Abandon(s)
             \/ UNCHANGED vars
    BY <2>6 DEF Complete, ReceiveCharge, ReceiveCanceled, OpenLink, AskDeletion, Abandon,
       Load, vars
  <2> QED BY <1>1, <2>1, <2>2, <2>3, <2>4, <2>5, <2>6 DEF Next
<1> QED BY <1>1, Inductive, PTL DEF Spec, NothingUndone

(* delete_account erases the jobs and refuses the links: nothing but a     *)
(* charge Paddle settles raises the balance of a deleted account.          *)
THEOREM DeletedStaysPoor == Spec => DeletedEarnsNothing
<1>1. ASSUME IInv, [Next]_vars
      PROVE  [ row.deleted /\ row'.credits > row.credits
                 => Webhook \in open /\ event \in Charges ]_vars
  <2> SUFFICES ASSUME Next, row.deleted, row'.credits > row.credits
               PROVE  Webhook \in open /\ event \in Charges
    BY <1>1
  <2>0. TypeOK /\ DeletedHasNoCharge /\ row.credits \in Nat
    BY <1>1 DEF IInv, TypeOK, Row
  <2>1. ASSUME NEW t \in Charges, SettleCharge(t)
        PROVE  Webhook \in open /\ event \in Charges
    BY <2>1 DEF SettleCharge
  <2>2. ASSUME NEW s, NEW w, Commit(s, w), w.credits = 0 PROVE FALSE
    <3>1. row'.credits \in {0, row.credits}
      BY <2>2 DEF Commit, Flush, Written
    <3> QED BY <2>0, <3>1
  <2>3. ~ExpireSubscription
    BY <2>0, <2>2, ExpireEffect
  <2>4. ~\E d \in Deletions : DeleteAccount(d)
    BY <2>0, <2>2, DeleteEffect
  <2>5. ~\E v \in Confirmations : Confirm(v)
    BY DEF Confirm
  <2>6. ~\E j \in Jobs : Debit(j) \/ Refund(j)
    BY <2>0 DEF Debit, Refund, DeletedHasNoCharge
  <2>7. row' # row
    BY <2>0
  <2> QED BY <2>1, <2>3, <2>4, <2>5, <2>6, <2>7
          DEF Next, Complete, ReceiveCharge, ReceiveCanceled, OpenLink, AskDeletion,
              Abandon, Load
<1> QED BY <1>1, Inductive, PTL DEF Spec, DeletedEarnsNothing

-----------------------------------------------------------------------------
(* CreditsArePaidFor.  First the arithmetic of one grant: the credits that *)
(* a charge adds are never more than the days it paid for are worth.       *)

LEMMA ScaleUp ==
    ASSUME NEW a \in Int, NEW b \in Int, a <= b, NEW x \in Nat
    PROVE  a * x <= b * x
OBVIOUS

(* Rounding goes up by less than one. *)
LEMMA RoundIsNear ==
    ASSUME NEW n \in Int, NEW d \in Nat \ {0}
    PROVE  Round(n, d) \in Int /\ d * (Round(n, d) - 1) < n
<1> DEFINE q == n \div d
           r == n % d
<1>1. q \in Int /\ r \in 0..(d - 1) /\ n = d * q + r
  OBVIOUS
<1>2. Round(n, d) = IF 2 * r > d \/ (2 * r = d /\ q % 2 = 1) THEN q + 1 ELSE q
  BY DEF Round
<1> HIDE DEF q, r
<1>3. CASE Round(n, d) = q
  <2>1. d * (q - 1) = d * q - d
    BY <1>1
  <2> QED BY <1>1, <1>3, <2>1
<1>4. CASE Round(n, d) = q + 1 /\ 2 * r >= d
  <2>1. r > 0 /\ (q + 1) - 1 = q
    BY <1>1, <1>4
  <2>2. d * q < n
    <3> DEFINE m == d * q
    <3>1. m \in Int /\ n = m + r
      BY <1>1
    <3> HIDE DEF m
    <3>2. m < n
      BY <1>1, <2>1, <3>1
    <3> QED BY <3>2 DEF m
  <2> QED BY <1>1, <1>4, <2>1, <2>2
<1> QED BY <1>1, <1>2, <1>3, <1>4

(* Worth rounds up. *)
LEMMA CeilingIsUp ==
    ASSUME NEW p \in Nat
    PROVE  (p + 26) \div 27 \in Nat /\ 27 * ((p + 26) \div 27) >= p
OBVIOUS

(* n / d, when it is no more than p / 27, rounds to no more than the whole *)
(* number w that p / 27 rounds up to...                                    *)
LEMMA ShareIsPaidFor ==
    ASSUME NEW n \in Int, NEW d \in {1, 30, 100}, NEW p \in Nat, NEW w \in Nat,
           27 * n <= d * p, p <= 27 * w
    PROVE  Round(n, d) <= w
<1> DEFINE q == Round(n, d)
<1>1. q \in Int /\ d * (q - 1) < n
  BY RoundIsNear
<1> HIDE DEF q
<1>2. SUFFICES ASSUME q >= w + 1 PROVE FALSE
  BY <1>1 DEF q
<1>3. d * w <= d * (q - 1)
  BY <1>1, <1>2
<1>4. 27 * (d * w) >= d * p
  OBVIOUS
<1>5. d * w < n
  BY <1>1, <1>3
<1> QED BY <1>4, <1>5

(* ...and to no more than the whole. *)
LEMMA ShareIsPart ==
    ASSUME NEW n \in Int, NEW c \in Nat, NEW x \in Nat, NEW d \in {1, 30, 100},
           n <= c * x, x <= d
    PROVE  Round(n, d) <= c
<1> DEFINE q == Round(n, d)
<1>1. n <= c * d
  <2>1. x * c <= d * c
    BY ScaleUp
  <2>2. x * c = c * x /\ d * c = c * d
    OBVIOUS
  <2> QED BY <2>1, <2>2
<1>2. q \in Int /\ d * (q - 1) < n
  BY RoundIsNear
<1> HIDE DEF q
<1>3. SUFFICES ASSUME q >= c + 1 PROVE FALSE
  BY <1>2 DEF q
<1>4. d * c <= d * (q - 1)
  BY <1>2, <1>3
<1> QED BY <1>1, <1>2, <1>4

(* proration_rate, on what Paddle says truly. *)
LEMMA RateIsTrue ==
    ASSUME NEW t \in Charges
    PROVE  \/ ProrationRate(Transaction[t]) = Whole /\ PaidDays[t] >= 27
           \/ \E x \in Nat, d \in {1, 30, 100} :
                 /\ ProrationRate(Transaction[t]) = Share(x, d)
                 /\ Share(x, d) # Whole
                 /\ x <= d
                 /\ 27 * x <= d * PaidDays[t]
<1> DEFINE tx == Transaction[t]
<1>0. /\ tx \in Transactions /\ PaidDays[t] \in Nat
      /\ \A i \in Rates(tx) : \A r \in tx.items[i].rate : r >= 0 /\ r * 27 <= 100 * PaidDays[t]
      /\ Rates(tx) = {} => \A d \in tx.days : d <= PaidDays[t]
      /\ Rates(tx) = {} /\ tx.days = {} /\ ~tx.update => PaidDays[t] >= 27
  BY CreditsAssumption, PaddleAssumption DEF FullPeriodDays
<1> HIDE DEF tx
<1>1. CASE Rates(tx) # {}
  <2> DEFINE i == First(Rates(tx))
             r == CHOOSE v \in tx.items[i].rate : TRUE
  <2>1. Rates(tx) \subseteq DOMAIN tx.items /\ DOMAIN tx.items \subseteq Nat
    BY <1>0 DEF Transactions, Rates, OurItems
  <2>2. i \in Rates(tx)
    BY <1>1, <2>1, FirstIsThere
  <2> HIDE DEF i
  <2>3. tx.items[i] \in Item /\ tx.items[i].rate # {}
    BY <1>0, <2>1, <2>2 DEF Transactions, Rates
  <2>4. r \in tx.items[i].rate /\ r \in Int
    BY <2>3 DEF Item, Maybe
  <2>5. ItemShare(tx) = IF r \in 0..99 THEN Share(r, 100) ELSE Whole
    BY DEF ItemShare, i
  <2> HIDE DEF r
  <2>6. r >= 0 /\ r * 27 <= 100 * PaidDays[t]
    BY <1>0, <2>2, <2>4
  <2>7. ProrationRate(tx) = ItemShare(tx)
    BY <1>1 DEF ProrationRate
  <2>8. CASE r \in 0..99
    <3>1. r \in Nat /\ r <= 100 /\ 27 * r <= 100 * PaidDays[t] /\ Share(r, 100) # Whole
      BY <2>6, <2>8 DEF Share, Whole
    <3> QED BY <2>5, <2>7, <2>8, <3>1 DEF tx
  <2>9. CASE r \notin 0..99
    BY <1>0, <2>4, <2>5, <2>6, <2>7, <2>9 DEF tx
  <2> QED BY <2>8, <2>9
<1>2. CASE Rates(tx) = {} /\ tx.days # {}
  <2> DEFINE n == CHOOSE d \in tx.days : TRUE
  <2>1. n \in tx.days /\ n \in Nat \ {0}
    BY <1>0, <1>2 DEF Transactions, Maybe
  <2>2. PeriodShare(tx) = IF n > 27 THEN Whole ELSE Share(n, 30)
    BY DEF PeriodShare, FullPeriodDays, MonthDays
  <2> HIDE DEF n
  <2>3. n <= PaidDays[t] /\ ProrationRate(tx) = PeriodShare(tx)
    BY <1>0, <1>2, <2>1 DEF ProrationRate
  <2>4. CASE n > 27
    BY <1>0, <2>1, <2>2, <2>3, <2>4 DEF tx
  <2>5. CASE ~(n > 27)
    <3>1. n \in Nat /\ n <= 30 /\ 27 * n <= 30 * PaidDays[t] /\ Share(n, 30) # Whole
      BY <1>0, <2>1, <2>3, <2>5 DEF Share, Whole
    <3> QED BY <2>2, <2>3, <2>5, <3>1 DEF tx
  <2> QED BY <2>4, <2>5
<1>3. CASE Rates(tx) = {} /\ tx.days = {}
  <2>1. ProrationRate(tx) = IF tx.update THEN Share(0, 1) ELSE Whole
    BY <1>3 DEF ProrationRate, UnmeasuredShare
  <2>2. 0 \in Nat /\ 0 <= 1 /\ 27 * 0 <= 1 * PaidDays[t] /\ Share(0, 1) # Whole
    BY <1>0 DEF Share, Whole
  <2> QED BY <1>0, <1>3, <2>1, <2>2 DEF tx
<1> QED BY <1>1, <1>2, <1>3

(* What apply_renewal adds to the balance and to the ledger was paid for.  *)
LEMMA GrantIsPaidFor ==
    ASSUME NEW t \in Charges, Offers(Transaction[t]) # {}, NEW l \in Row
    PROVE  Worth[t] \in Nat /\ BalanceAfter(t, l) - l.credits <= Worth[t]
<1> DEFINE credits == PlanInTransaction(Transaction[t]).credits
           share   == ProrationRate(Transaction[t])
           a       == PlanAllowance(l.plan)
           days    == PaidDays[t]
<1>1. credits \in Nat /\ a \in Nat /\ l.credits \in Nat /\ days \in Nat
  BY OfferIsPlan, CreditsAssumption DEF Row, PlanAllowance
<1>2. Worth[t] = IF days > 27 THEN credits ELSE (credits * days + 26) \div 27
  BY DEF Worth, FullPeriodDays
<1>3. BalanceAfter(t, l) =
        IF share = Whole THEN credits
        ELSE LET bought == Round((credits - a) * share.num, share.den)
             IN  l.credits + (IF bought > 0 THEN bought ELSE 0)
  BY DEF BalanceAfter
<1>4. \/ share = Whole /\ days >= 27
      \/ \E x \in Nat, d \in {1, 30, 100} :
            share = Share(x, d) /\ Share(x, d) # Whole /\ x <= d /\ 27 * x <= d * days
  BY RateIsTrue
<1> HIDE DEF credits, share, a, days
<1> DEFINE w == (credits * days + 26) \div 27
<1>5. w \in Nat /\ 27 * w >= credits * days
  <2>1. credits * days \in Nat
    BY <1>1
  <2> QED BY <2>1, CeilingIsUp
<1>6. CASE share = Whole /\ days >= 27
  <2>1. days = 27 => w >= credits
    <3> HIDE DEF w
    <3> QED BY <1>1, <1>5
  <2>2. Worth[t] >= credits /\ Worth[t] \in Nat
    BY <1>1, <1>2, <1>5, <1>6, <2>1
  <2> QED BY <1>1, <1>3, <1>6, <2>2
<1>7. ASSUME NEW x \in Nat, NEW d \in {1, 30, 100},
             share = Share(x, d), share # Whole, x <= d, 27 * x <= d * days
      PROVE  Worth[t] \in Nat /\ BalanceAfter(t, l) - l.credits <= Worth[t]
  <2> DEFINE n == (credits - a) * x
             bought == Round(n, d)
  <2>1. share.num = x /\ share.den = d
    BY <1>7 DEF Share
  <2>2. BalanceAfter(t, l) = l.credits + (IF bought > 0 THEN bought ELSE 0)
    BY <1>3, <1>7, <2>1
  <2>3. n \in Int /\ n <= credits * x
    BY <1>1, ScaleUp
  <2> HIDE DEF n
  <2>4. bought \in Int
    BY <2>3, RoundIsNear
  <2>5. bought <= credits
    BY <1>1, <1>7, <2>3, ShareIsPart
  <2>6. bought <= w
    <3> DEFINE p == credits * days
    <3>1. p \in Nat /\ p <= 27 * w
      BY <1>1, <1>5
    <3>2. 27 * n <= d * p
      <4>1. (27 * x) * credits <= (d * days) * credits
        BY <1>1, <1>7, ScaleUp
      <4>2. (27 * x) * credits = 27 * (credits * x) /\ (d * days) * credits = d * p
        BY <1>1
      <4> QED BY <1>1, <2>3, <4>1, <4>2
    <3> HIDE DEF w, bought, p
    <3>3. Round(n, d) <= w
      BY <1>5, <2>3, <3>1, <3>2, ShareIsPaidFor
    <3> QED BY <3>3 DEF bought
  <2> HIDE DEF bought, w
  <2>7. Worth[t] \in Nat /\ bought <= Worth[t]
    BY <1>1, <1>2, <1>5, <2>5, <2>6 DEF w
  <2> QED BY <1>1, <2>2, <2>4, <2>7
<1> QED BY <1>4, <1>6, <1>7

-----------------------------------------------------------------------------
(* The invariant of the sums.  Jobs and charges may be without number, but *)
(* only finitely many are in progress, or settled, at any time.            *)

PaidFor ==
    /\ IsFiniteSet(InProgress)
    /\ IsFiniteSet(Collected)
    /\ CreditsArePaidFor

LEMMA WorthIsNat == ASSUME NEW t \in Charges PROVE Worth[t] \in Nat
<1>1. CASE Offers(Transaction[t]) = {}
  BY <1>1 DEF Worth
<1>2. CASE Offers(Transaction[t]) # {}
  <2>1. NewAccount \in Row
    BY DEF NewAccount, Row
  <2> QED BY <1>2, <2>1, GrantIsPaidFor
<1> QED BY <1>1, <1>2

(* All the numbers in the inequality. *)
LEMMA SumTypes ==
    ASSUME TypeOK, PaidFor
    PROVE  /\ SumFunctionOnSet(Cost, InProgress) \in Nat
           /\ SumFunctionOnSet(Worth, Collected) \in Nat
           /\ ledger.sum \in Int /\ ledger.bonuses \in Nat /\ Bonus \in Nat
           /\ Bonus * ledger.bonuses \in Nat
           /\ \A j \in Jobs : Cost[j] \in Nat
<1>1. \A j \in Jobs : Cost[j] \in Nat
  BY CreditsAssumption
<1>2. SumFunctionOnSet(Cost, InProgress) \in Nat
  BY <1>1, SumType DEF PaidFor, InProgress
<1>3. SumFunctionOnSet(Worth, Collected) \in Nat
  BY WorthIsNat, SumType DEF PaidFor, Collected
<1>4. ledger.sum \in Int /\ ledger.bonuses \in Nat /\ Bonus \in Nat
  BY CreditsAssumption DEF TypeOK
<1> QED BY <1>1, <1>2, <1>3, <1>4

LEMMA InitPaidFor == Init => PaidFor
<1> SUFFICES ASSUME Init PROVE PaidFor
  OBVIOUS
<1>1. InProgress = {} /\ Collected = {}
  BY DEF Init, InProgress, Collected
<1>2. ledger.sum = 0 /\ ledger.bonuses = 0 /\ Bonus \in Nat
  BY CreditsAssumption DEF Init
<1> QED BY <1>1, <1>2, SumEmpty, FS_EmptySet DEF PaidFor, CreditsArePaidFor

(* A step that leaves the jobs and the settled charges, and records no     *)
(* more than the bonuses it pays.                                          *)
LEMMA RecordKeepsPaidFor ==
    ASSUME TypeOK, PaidFor, UNCHANGED <<job, settled>>,
           NEW delta \in Int, NEW n \in Nat, Record(delta, n), delta <= Bonus * n
    PROVE  PaidFor'
<1>1. InProgress' = InProgress /\ Collected' = Collected
  BY DEF InProgress, Collected
<1>2. ledger'.sum = ledger.sum + delta /\ ledger'.bonuses = ledger.bonuses + n
  BY DEF Record
<1>3. Bonus * (ledger.bonuses + n) = Bonus * ledger.bonuses + Bonus * n /\ Bonus * n \in Int
  BY SumTypes
<1> QED BY <1>1, <1>2, <1>3, SumTypes DEF PaidFor, CreditsArePaidFor

LEMMA StepPaidFor == IInv /\ PaidFor /\ [Next]_vars => PaidFor'
<1> SUFFICES ASSUME IInv, PaidFor, [Next]_vars PROVE PaidFor'
  OBVIOUS
<1>0. /\ TypeOK /\ WebhookAlone
      /\ IsFiniteSet(InProgress) /\ IsFiniteSet(Collected) /\ CreditsArePaidFor
      /\ \A s \in Sessions : copy[s] \in Row
      /\ Webhook \in Sessions
  BY DEF IInv, PaidFor, TypeOK, Sessions
<1>1. ASSUME NEW j \in Jobs, Debit(j) PROVE PaidFor'
  <2>1. InProgress' = InProgress \cup {j} /\ j \notin InProgress /\ Collected' = Collected
    BY <1>0, <1>1 DEF Debit, InProgress, Collected, TypeOK
  <2>2. IsFiniteSet(InProgress')
    BY <1>0, <2>1, FS_AddElement
  <2>3. SumFunctionOnSet(Cost, InProgress') = SumFunctionOnSet(Cost, InProgress) + Cost[j]
    <3>1. \A k \in InProgress \cup {j} : Cost[k] \in Int
      BY CreditsAssumption DEF InProgress
    <3> QED BY <1>0, <2>1, <3>1, SumAdd
  <2>4. ledger'.sum = ledger.sum - Cost[j] /\ ledger'.bonuses = ledger.bonuses
    BY <1>0, <1>1, SumTypes DEF Debit, Record
  <2> QED BY <1>0, <2>1, <2>2, <2>3, <2>4, SumTypes DEF PaidFor, CreditsArePaidFor
<1>2. ASSUME NEW j \in Jobs, Complete(j) \/ Refund(j) PROVE PaidFor'
  <2>1. InProgress' = InProgress \ {j} /\ j \in InProgress /\ Collected' = Collected
    BY <1>0, <1>2 DEF Complete, Refund, InProgress, Collected, TypeOK
  <2>2. IsFiniteSet(InProgress')
    BY <1>0, <2>1, FS_RemoveElement
  <2>3. SumFunctionOnSet(Cost, InProgress) = Cost[j] + SumFunctionOnSet(Cost, InProgress')
    <3>1. \A k \in InProgress : Cost[k] \in Int
      BY CreditsAssumption DEF InProgress
    <3> QED BY <1>0, <2>1, <3>1, SumTake
  <2>4. SumFunctionOnSet(Cost, InProgress') \in Nat
    <3>1. \A k \in InProgress' : Cost[k] \in Nat
      BY CreditsAssumption DEF InProgress
    <3> QED BY <2>2, <3>1, SumType
  <2>5. /\ ledger'.sum = ledger.sum \/ ledger'.sum = ledger.sum + Cost[j]
        /\ ledger'.bonuses = ledger.bonuses
    BY <1>0, <1>2, SumTypes DEF Complete, Refund, Record
  <2> QED BY <1>0, <2>1, <2>2, <2>3, <2>4, <2>5, SumTypes DEF PaidFor, CreditsArePaidFor
<1>3. ASSUME NEW t \in Charges, SettleCharge(t) PROVE PaidFor'
  <2> DEFINE l == copy[Webhook]
  <2>1. Offers(Transaction[t]) # {} /\ settled[t] = 0
    BY <1>0, <1>3 DEF SettleCharge, WebhookAlone
  <2>2. Collected' = Collected \cup {t} /\ t \notin Collected /\ InProgress' = InProgress
    BY <1>0, <1>3, <2>1 DEF SettleCharge, Collected, InProgress, TypeOK
  <2>3. IsFiniteSet(Collected')
    BY <1>0, <2>2, FS_AddElement
  <2>4. SumFunctionOnSet(Worth, Collected') = SumFunctionOnSet(Worth, Collected) + Worth[t]
    <3>1. \A k \in Collected \cup {t} : Worth[k] \in Int
      BY WorthIsNat DEF Collected
    <3> QED BY <1>0, <2>2, <3>1, SumAdd
  <2>5. Worth[t] \in Nat /\ BalanceAfter(t, l) - l.credits <= Worth[t]
    BY <1>0, <2>1, GrantIsPaidFor
  <2>6. BalanceAfter(t, l) \in Nat /\ l.credits \in Nat
    BY <1>0, <2>1, BalanceIsNat DEF Row
  <2>7. /\ ledger'.sum = ledger.sum + (BalanceAfter(t, l) - l.credits)
        /\ ledger'.bonuses = ledger.bonuses
    BY <1>0, <1>3, SumTypes DEF SettleCharge, Record
  <2> HIDE DEF l
  <2> QED BY <1>0, <2>2, <2>3, <2>4, <2>5, <2>6, <2>7, SumTypes DEF PaidFor, CreditsArePaidFor
<1>4. ASSUME ExpireSubscription PROVE PaidFor'
  <2>1. Record(-copy[Webhook].credits, 0) /\ UNCHANGED <<job, settled>>
    BY <1>4 DEF ExpireSubscription
  <2>2. copy[Webhook].credits \in Nat /\ Bonus * 0 = 0
    BY <1>0, CreditsAssumption DEF Row
  <2> QED BY <1>0, <2>1, <2>2, RecordKeepsPaidFor
<1>5. ASSUME NEW v \in Confirmations, Confirm(v) PROVE PaidFor'
  <2> DEFINE bonus == IF copy[v].verified THEN 0 ELSE Bonus
             n == IF bonus > 0 THEN 1 ELSE 0
  <2>1. Record(bonus, n) /\ UNCHANGED <<job, settled>>
    BY <1>5 DEF Confirm
  <2>2. bonus \in Nat /\ n \in Nat /\ bonus <= Bonus * n
    BY CreditsAssumption
  <2> HIDE DEF bonus, n
  <2> QED BY <1>0, <2>1, <2>2, RecordKeepsPaidFor
<1>6. ASSUME NEW d \in Deletions, DeleteAccount(d) PROVE PaidFor'
  <2>1. InProgress' = {} /\ Collected' = Collected
    BY <1>6 DEF DeleteAccount, InProgress, Collected
  <2>2. copy[d].credits \in Nat
    BY <1>0 DEF Row, Sessions
  <2>3. ledger'.sum = ledger.sum - copy[d].credits /\ ledger'.bonuses = ledger.bonuses
    BY <1>0, <1>6, <2>2, SumTypes DEF DeleteAccount, Record
  <2>4. SumFunctionOnSet(Cost, InProgress') = 0 /\ IsFiniteSet(InProgress')
    BY <2>1, SumEmpty, FS_EmptySet
  <2> QED BY <1>0, <2>1, <2>2, <2>3, <2>4, SumTypes DEF PaidFor, CreditsArePaidFor
<1>7. CASE \/ \E t \in Charges : ReceiveCharge(t)
           \/ ReceiveCanceled
           \/ \E v \in Confirmations : OpenLink(v)
           \/ \E d \in Deletions : AskDeletion(d)
           \/ \E s \in Sessions : Abandon(s)
           \/ UNCHANGED vars
  <2>1. UNCHANGED <<job, settled, ledger>>
    BY <1>7 DEF ReceiveCharge, ReceiveCanceled, OpenLink, AskDeletion, Abandon, Load, vars
  <2> QED BY <2>1 DEF PaidFor, CreditsArePaidFor, InProgress, Collected
<1> QED BY <1>1, <1>2, <1>3, <1>4, <1>5, <1>6, <1>7 DEF Next

(* services/credits.py, services/billing.py, auth/service.py: no history   *)
(* of webhooks, refunds, links and deletions grants more than the bonuses  *)
(* that were paid out and what Paddle was paid for, to the day.            *)
THEOREM NothingUnpaid == Spec => []CreditsArePaidFor
<1>1. PaidFor => CreditsArePaidFor
  BY DEF PaidFor
<1> QED BY <1>1, Inductive, InitPaidFor, StepPaidFor, PTL DEF Spec

=============================================================================
