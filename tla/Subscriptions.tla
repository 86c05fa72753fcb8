---------------------------- MODULE Subscriptions ----------------------------
(***************************************************************************)
(* The subscription of one account, kept in two places: at Paddle, and in  *)
(* the plan columns of the account's row.  Customers pay in a checkout     *)
(* that Paddle runs; they change, cancel and resume through app/api/       *)
(* billing.py, and close the account through app/services/account.py: each *)
(* of these loads the row, calls Paddle, and then writes what it believes  *)
(* Paddle now does.  Paddle's own news (a settled charge, an ended         *)
(* subscription) come as webhooks, some time later.                        *)
(*                                                                         *)
(* Paddle is external: its subscriptions, periods and deliveries are what  *)
(* the code assumes of them.  Credits are AccountCredits' business.        *)
(***************************************************************************)
EXTENDS Integers, Sequences, SequencesExt

CONSTANTS
    Subs,       \* subscriptions the account's checkouts may create
    Plans,      \* plans sold
    Amount,     \* Amount[p]: the price of a plan
    Requests,   \* requests the account's owner may have in flight at once
    NoSub,      \* users.paddle_subscription_id IS NULL
    NoPlan,     \* users.plan (or plan_pending) IS NULL
    MaxCharges, \* bound: charges Paddle ever makes
    Unordered   \* may webhooks come out of order, and again?

Webhook == "webhook"   \* the event loop handles one webhook at a time

ASSUME SubscriptionsAssumption ==
    /\ Amount \in [Plans -> Nat]
    /\ NoSub \notin Subs
    /\ NoPlan \notin Plans
    /\ Webhook \notin Requests
    /\ MaxCharges \in Nat
    /\ Unordered \in BOOLEAN

VARIABLES
    row,      \* the committed plan columns of the row of users
    paddle,   \* paddle[s]: what Paddle knows of a subscription
    events,   \* webhooks not acknowledged yet, oldest first
    charges,  \* how many charges Paddle has made
    settled,  \* charges with a row in payments
    hook,     \* position in events of the webhook being handled, 0: none
    request,  \* request[r]: how far a request of the owner is
    copy,     \* copy[x]: the row as the handler's session loaded it
    trouble   \* the first thing that went other than one step after another

vars == <<row, paddle, events, charges, settled, hook, request, copy, trouble>>

Row == [plan    : Plans \cup {NoPlan},
        sub     : Subs \cup {NoSub},
        cancels : BOOLEAN,           \* plan_cancels_at IS NOT NULL
        pending : Plans \cup {NoPlan},
        deleted : BOOLEAN]

Subscription == [status : {"none", "checkout", "live", "canceled"},
                 item   : Plans \cup {NoPlan},   \* what the next renewal bills
                 ending : BOOLEAN]               \* a cancellation is scheduled

(* "named": the checkout's custom_data, with the user id, rides along.     *)
(* NoSub: a one-off transaction, which belongs to no subscription.         *)
Event == [kind : {"charge", "canceled"}, sub : Subs \cup {NoSub},
          plan : Plans \cup {NoPlan}, named : BOOLEAN, n : Nat]

Call == {"keep", "upgrade", "downgrade", "cancel", "resume", "delete"}
Request == [stage : {"idle", "calling", "answered"},
            call  : Call, plan : Plans \cup {NoPlan}]

Trouble == {"none",     \* each step began after the one before had its effect
            "crossed",  \* asked Paddle before its last act had reached the row
            "stale",    \* acted on a row that had changed after the load
            "lost",     \* Paddle acted, and what it did was never written
            "late",     \* a webhook came out of order, or again
            "second",   \* paid for beside another, or for a closing account
            "oneoff"}   \* a plan was sold without a subscription

NewRow == [plan |-> NoPlan, sub |-> NoSub, cancels |-> FALSE,
           pending |-> NoPlan, deleted |-> FALSE]
Idle == [stage |-> "idle", call |-> "keep", plan |-> NoPlan]

Init ==
    /\ row = NewRow
    /\ paddle = [s \in Subs |-> [status |-> "none", item |-> NoPlan, ending |-> FALSE]]
    /\ events = <<>>
    /\ charges = 0
    /\ settled = {}
    /\ hook = 0
    /\ request = [r \in Requests |-> Idle]
    /\ copy = [x \in Requests \cup {Webhook} |-> NewRow]
    /\ trouble = "none"

Noted(kind, happened, before) == IF before = "none" /\ happened THEN kind ELSE before
Note(kind, happened) == trouble' = Noted(kind, happened, trouble)

-----------------------------------------------------------------------------
(* Commits: only the columns that differ from the loaded copy are written. *)

Written(loaded, wanted, now) == IF wanted # loaded THEN wanted ELSE now

Flush(x, w) ==
    LET l == copy[x] IN
    [plan    |-> Written(l.plan, w.plan, row.plan),
     sub     |-> Written(l.sub, w.sub, row.sub),
     cancels |-> Written(l.cancels, w.cancels, row.cancels),
     pending |-> Written(l.pending, w.pending, row.pending),
     deleted |-> Written(l.deleted, w.deleted, row.deleted)]

Overlaps(x, w) == w # copy[x] /\ copy[x] # row

-----------------------------------------------------------------------------
(* Paddle, and the customer in its checkout *)

Live(s) == paddle[s].status = "live"
InFlight == {r \in Requests : request[r].stage # "idle"}
Unsaved == {r \in Requests : request[r].stage = "answered"}

ChargeEvent(s, p, named) ==
    [kind |-> "charge", sub |-> s, plan |-> p, named |-> named, n |-> charges + 1]
CanceledEvent(s) ==
    [kind |-> "canceled", sub |-> s, plan |-> NoPlan, named |-> FALSE, n |-> 0]

(* The page offers a checkout to an account without a plan. *)
OpenCheckout(s) ==
    /\ paddle[s].status = "none"
    /\ row.plan = NoPlan /\ ~row.deleted
    /\ paddle' = [paddle EXCEPT ![s].status = "checkout"]
    /\ UNCHANGED <<row, events, charges, settled, hook, request, copy, trouble>>

Charged(s, p, named) ==
    /\ charges < MaxCharges
    /\ charges' = charges + 1
    /\ events' = Append(events, ChargeEvent(s, p, named))

Pay(s, p) ==
    /\ paddle[s].status = "checkout"
    /\ Charged(s, p, TRUE)
    /\ paddle' = [paddle EXCEPT ![s] = [status |-> "live", item |-> p, ending |-> FALSE]]
    /\ Note("second", row.deleted \/ InFlight # {} \/ \E o \in Subs : Live(o))
    /\ UNCHANGED <<row, settled, hook, request, copy>>

(* A plan may also be sold in a transaction of its own: tagged as ours, and *)
(* with the user id of the checkout, but without a subscription.           *)
OneOff(p) ==
    /\ Charged(NoSub, p, TRUE)
    /\ Note("oneoff", TRUE)
    /\ UNCHANGED <<row, paddle, settled, hook, request, copy>>

Renew(s) ==
    /\ Live(s) /\ ~paddle[s].ending
    /\ \E named \in BOOLEAN : Charged(s, paddle[s].item, named)
    /\ UNCHANGED <<row, paddle, settled, hook, request, copy, trouble>>

End(s) ==
    /\ paddle' = [paddle EXCEPT ![s] = [status |-> "canceled", item |-> @.item, ending |-> FALSE]]
    /\ events' = Append(events, CanceledEvent(s))

(* The paid period is over and a cancellation was scheduled. *)
PeriodOver(s) ==
    /\ Live(s) /\ paddle[s].ending
    /\ End(s)
    /\ UNCHANGED <<row, charges, settled, hook, request, copy, trouble>>

-----------------------------------------------------------------------------
(* Requests: change_plan, cancel_plan, resume_plan and delete_account load *)
(* the row, check it, and call Paddle.                                     *)

Ask(r, call, p, stage) ==
    /\ request[r].stage = "idle"
    /\ ~row.deleted
    /\ request' = [request EXCEPT ![r] = [stage |-> stage, call |-> call, plan |-> p]]
    /\ copy' = [copy EXCEPT ![r] = row]
    /\ UNCHANGED <<row, paddle, events, charges, settled, hook, trouble>>

IsUpgrade(p) == row.plan = NoPlan \/ Amount[p] > Amount[row.plan]

AskChange(r, p) ==
    /\ row.sub # NoSub
    /\ ~row.cancels
    /\ \/ /\ p = row.plan /\ row.pending # NoPlan
          /\ Ask(r, "keep", p, "calling")
       \/ /\ p # row.plan /\ p # row.pending
          /\ Ask(r, IF IsUpgrade(p) THEN "upgrade" ELSE "downgrade", p, "calling")

AskCancel(r) ==
    /\ row.sub # NoSub /\ ~row.cancels
    /\ Ask(r, "cancel", NoPlan, "calling")

AskResume(r) ==
    /\ row.sub # NoSub /\ row.cancels
    /\ Ask(r, "resume", NoPlan, "calling")

(* Without a tracked subscription there is nothing to cancel at Paddle. *)
AskDelete_SkipsPaddle(r) == Ask(r, "delete", NoPlan, "answered")
AskDelete(r) == Ask(r, "delete", NoPlan, IF row.sub = NoSub THEN "answered" ELSE "calling")

(* Paddle does as it is asked; a subscription that has ended is refused.   *)
(* The charge of an upgrade is made at once, and reported by a webhook.    *)
Apply(r) ==
    LET s == copy[r].sub
        call == request[r].call
        p == request[r].plan
    IN  /\ request[r].stage = "calling"
        /\ Live(s)
        /\ request' = [request EXCEPT ![r].stage = "answered"]
        /\ trouble' = Noted("crossed", events # <<>> \/ Unsaved # {},
                             Noted("stale", copy[r] # row, trouble))
        /\ \/ /\ call \in {"keep", "downgrade"}
              /\ paddle' = [paddle EXCEPT ![s].item = p]
              /\ UNCHANGED <<events, charges>>
           \/ /\ call = "upgrade"
              /\ paddle' = [paddle EXCEPT ![s].item = p]
              /\ IF paddle[s].item = p THEN UNCHANGED <<events, charges>>
                 ELSE \E named \in BOOLEAN : Charged(s, p, named)
           \/ /\ call \in {"cancel", "resume"}
              /\ paddle' = [paddle EXCEPT ![s].ending = (call = "cancel")]
              /\ UNCHANGED <<events, charges>>
           \/ call = "delete" /\ End(s) /\ UNCHANGED charges
        /\ UNCHANGED <<row, settled, hook, copy>>

(* What the handler writes once Paddle has answered: nothing for an        *)
(* upgrade, which the webhook of its charge will write.                    *)
Cleared_KeepsLink(l) == [NewRow EXCEPT !.sub = l.sub, !.deleted = l.deleted]
Cleared(l) == [plan |-> NoPlan, sub |-> NoSub, cancels |-> FALSE,
               pending |-> NoPlan, deleted |-> l.deleted]

Wanted(r) ==
    LET l == copy[r] IN
    CASE request[r].call = "keep"      -> [l EXCEPT !.pending = NoPlan]
      [] request[r].call = "downgrade" -> [l EXCEPT !.pending = request[r].plan]
      [] request[r].call = "upgrade"   -> l
      [] request[r].call = "cancel"    -> [l EXCEPT !.cancels = TRUE]
      [] request[r].call = "resume"    -> [l EXCEPT !.cancels = FALSE]
      [] request[r].call = "delete"    -> [Cleared(l) EXCEPT !.deleted = TRUE]

Over(r) ==
    /\ request' = [request EXCEPT ![r] = Idle]
    /\ copy' = [copy EXCEPT ![r] = NewRow]

Save(r) ==
    /\ request[r].stage = "answered"
    /\ row' = Flush(r, Wanted(r))
    /\ LET early == request[r].call = "delete" /\ copy[r].sub = NoSub /\ events # <<>>
       IN  trouble' = Noted("crossed", early, Noted("stale", Overlaps(r, Wanted(r)), trouble))
    /\ Over(r)
    /\ UNCHANGED <<paddle, events, charges, settled, hook>>

(* Nothing is written: Paddle refused or could not be reached, its answer  *)
(* timed out after it acted, the commit failed, or the process died.       *)
GiveUp(r) ==
    /\ request[r].stage # "idle"
    /\ Note("lost", request[r].stage = "answered" /\ copy[r].sub # NoSub)
    /\ Over(r)
    /\ UNCHANGED <<row, paddle, events, charges, settled, hook>>

-----------------------------------------------------------------------------
(* Webhooks *)

(* The account an event is about: the one that tracks the subscription or, *)
(* for a charge nobody tracks, the one the checkout named, unless it rides *)
(* another subscription and the charge would repoint it.  Nothing looks at *)
(* deleted_at.                                                             *)
Tracked(e) == e.sub # NoSub /\ row.sub = e.sub

IsOurs_AnyClaim(e) ==
    IF e.kind = "canceled" THEN Tracked(e) ELSE Tracked(e) \/ e.named
IsOurs_LooseEnd(e) ==
    \/ e.kind = "canceled" /\ row.sub # NoSub
    \/ Tracked(e)
    \/ e.kind = "charge" /\ e.named /\ NoSub \in {row.sub, e.sub}
IsOurs(e) ==
    \/ Tracked(e)
    \/ e.kind = "charge" /\ e.named /\ NoSub \in {row.sub, e.sub}

AlreadySettled(e) == e.kind = "charge" /\ e.n \in settled

(* Paddle delivers the oldest webhook it has, or, Unordered, any. *)
Deliverable == IF Unordered THEN DOMAIN events ELSE {i \in DOMAIN events : i = 1}

Receive(i) ==
    /\ hook = 0
    /\ IsOurs(events[i])
    /\ ~AlreadySettled(events[i])
    /\ hook' = i
    /\ copy' = [copy EXCEPT ![Webhook] = row]
    /\ Note("late", i # 1)
    /\ UNCHANGED <<row, paddle, events, charges, settled, request>>

(* "ignored" or "duplicate": acknowledged, with nothing written. *)
Ignore(i) ==
    /\ hook = 0
    /\ ~IsOurs(events[i]) \/ AlreadySettled(events[i])
    /\ events' = RemoveAt(events, i)
    /\ Note("late", i # 1)
    /\ UNCHANGED <<row, paddle, charges, settled, hook, request, copy>>

(* The acknowledgement may be lost: Paddle then delivers the event again.  *)
Acknowledged(again) ==
    /\ events' = IF again THEN events ELSE RemoveAt(events, hook)
    /\ hook' = 0
    /\ copy' = [copy EXCEPT ![Webhook] = NewRow]

Again == IF Unordered THEN BOOLEAN ELSE {FALSE}

Handled(w, again) ==
    /\ row' = Flush(Webhook, w)
    /\ trouble' = Noted("late", again, Noted("stale", Overlaps(Webhook, w), trouble))
    /\ Acknowledged(again)
    /\ UNCHANGED <<paddle, charges, request>>

(* A charge without a subscription sets the plan, and keeps the link. *)
Renewed_LosesLink(e, l) == [plan |-> e.plan, sub |-> NoSub, cancels |-> FALSE,
                            pending |-> NoPlan, deleted |-> l.deleted]
Renewed(e, l) == [plan |-> e.plan, sub |-> IF e.sub = NoSub THEN l.sub ELSE e.sub,
                  cancels |-> FALSE, pending |-> NoPlan, deleted |-> l.deleted]

ApplyRenewal(again) ==
    /\ hook # 0
    /\ events[hook].kind = "charge"
    /\ settled' = settled \cup {events[hook].n}
    /\ Handled(Renewed(events[hook], copy[Webhook]), again)

ExpireSubscription(again) ==
    /\ hook # 0
    /\ events[hook].kind = "canceled"
    /\ Handled(Cleared(copy[Webhook]), again)
    /\ UNCHANGED settled

(* The commit failed or the process died: Paddle will deliver it again. *)
AbandonHook_Dropped ==
    /\ hook # 0
    /\ Acknowledged(FALSE)
    /\ UNCHANGED <<row, paddle, charges, settled, request, trouble>>
AbandonHook ==
    /\ hook # 0
    /\ hook' = 0
    /\ copy' = [copy EXCEPT ![Webhook] = NewRow]
    /\ UNCHANGED <<row, paddle, events, charges, settled, request, trouble>>

-----------------------------------------------------------------------------
Owner(r) ==
    \/ \E p \in Plans : AskChange(r, p)
    \/ AskCancel(r) \/ AskResume(r) \/ AskDelete(r)

Commit == \E again \in Again : ApplyRenewal(again) \/ ExpireSubscription(again)

Next ==
    \/ \E s \in Subs : OpenCheckout(s) \/ Renew(s) \/ PeriodOver(s)
                       \/ \E p \in Plans : Pay(s, p)
    \/ \E p \in Plans : OneOff(p)
    \/ \E r \in Requests : Owner(r) \/ Apply(r) \/ Save(r) \/ GiveUp(r)
    \/ \E i \in Deliverable : Receive(i) \/ Ignore(i)
    \/ Commit \/ AbandonHook

Spec == Init /\ [][Next]_vars

(* Paddle repeats a webhook until it is acknowledged, and a handler that   *)
(* fails now and then does not fail every time.                            *)
Delivery ==
    /\ WF_vars(\E i \in Deliverable : Receive(i) \/ Ignore(i))
    /\ SF_vars(Commit)

FairSpec == Spec /\ Delivery

-----------------------------------------------------------------------------
(* Events name charges that were made, and the one being handled is there. *)
TypeOK ==
    /\ row \in Row
    /\ paddle \in [Subs -> Subscription]
    /\ events \in Seq(Event)
    /\ charges \in 0..MaxCharges
    /\ settled \subseteq 1..charges
    /\ hook \in 0..Len(events)
    /\ request \in [Requests -> Request]
    /\ copy \in [Requests \cup {Webhook} -> Row]
    /\ trouble \in Trouble

(* Whatever a checkout names, a row that rides a subscription is never     *)
(* repointed at another one: it first loses the one it has.  This is the   *)
(* harm the comment of _handle_transaction_completed describes.            *)
NoRepoint == [][row.sub # NoSub => row'.sub \in {row.sub, NoSub}]_vars

(* An account that is not deleted loses its plan only when the very        *)
(* subscription it rides has ended at Paddle, in whatever order webhooks   *)
(* and requests come, and however many subscriptions there are.            *)
PlanLostOnlyWhenEnded ==
    [][ row.plan # NoPlan /\ row'.plan = NoPlan /\ ~row'.deleted
            => row.sub # NoSub /\ paddle[row.sub].status = "canceled" ]_vars

(* Nothing in flight: every webhook handled, every request answered. *)
AtRest == events = <<>> /\ hook = 0 /\ InFlight = {}

(* What a row says of the subscription it tracks is what Paddle does: it   *)
(* is live, ends when the row says so, and renews on the plan the row has, *)
(* or has pending.                                                         *)
Matches(w) ==
    /\ w.sub # NoSub =>
        /\ Live(w.sub)
        /\ paddle[w.sub].ending = w.cancels
        /\ paddle[w.sub].item = IF w.pending # NoPlan THEN w.pending ELSE w.plan
    /\ w.sub = NoSub => \A s \in Subs : ~Live(s)

(* As long as each step begins after the one before had its effect, the    *)
(* row and Paddle agree whenever nothing is in flight, and a deleted       *)
(* account pays for nothing.                                               *)
AgreesAtRest ==
    AtRest /\ trouble = "none" => Matches(row) /\ (row.deleted => row.sub = NoSub)

(* A deleted account is not billed: "You can delete your account at any    *)
(* time ...; that also cancels any subscription right away"                *)
(* (app/web/templates/terms.html).                                         *)
DeletedNotBilled == AtRest /\ row.deleted => \A s \in Subs : ~Live(s)

(* Delivered in order, an ended subscription is eventually forgotten,      *)
(* whatever requests are in flight and however often a handler fails.      *)
EndedIsForgotten ==
    \A s \in Subs : (row.sub = s /\ paddle[s].status = "canceled") ~> row.sub # s

(* A charge for the subscription the row rides, or for none, is eventually *)
(* settled, or the row has stopped riding it: a handler that fails loses   *)
(* no payment.                                                             *)
Owed(n, s) == \E i \in DOMAIN events :
                 events[i].kind = "charge" /\ events[i].n = n /\ events[i].sub = s
PaidIsSettled ==
    \A n \in 1..MaxCharges, s \in Subs \cup {NoSub} :
        Owed(n, s) /\ (s = NoSub \/ row.sub = s)
            ~> n \in settled \/ (s # NoSub /\ row.sub # s)

-----------------------------------------------------------------------------
(* The inductive strengthening the proofs of SubscriptionsProofs use.      *)

(* The webhook being handled loaded a row that rides its subscription, or  *)
(* none; since then only a deletion can have touched the plan.             *)
HookSeesRow ==
    hook # 0 =>
        LET e == events[hook]
            l == copy[Webhook]
        IN  /\ \/ e.sub # NoSub /\ l.sub = e.sub
               \/ e.kind = "charge" /\ NoSub \in {l.sub, e.sub}
            /\ l.deleted => row.deleted
            /\ row.sub \in {l.sub, NoSub}
            /\ ~row.deleted => row.plan = l.plan /\ row.sub = l.sub

(* Paddle says that a subscription ended only when it has, and reports a   *)
(* charge it has made, for a plan.                                         *)
EventsTrue ==
    \A i \in DOMAIN events :
        IF events[i].kind = "canceled"
        THEN events[i].sub # NoSub /\ paddle[events[i].sub].status = "canceled"
        ELSE events[i].plan # NoPlan /\ events[i].n \in 1..charges

LiveHasItem == \A s \in Subs : Live(s) => paddle[s].item # NoPlan

(* An account that rides a subscription has a plan. *)
PlanWithSub == ~row.deleted /\ row.sub # NoSub => row.plan # NoPlan

(* Only accounts that are not deleted may ask, Paddle is called about a    *)
(* subscription, and a change names a plan.                                *)
AskedInTime ==
    \A r \in InFlight :
        /\ ~copy[r].deleted
        /\ request[r].stage = "calling" => copy[r].sub # NoSub
        /\ request[r].call \in {"keep", "upgrade", "downgrade"} => request[r].plan # NoPlan

BaseInv ==
    /\ TypeOK
    /\ HookSeesRow
    /\ EventsTrue
    /\ LiveHasItem
    /\ PlanWithSub
    /\ AskedInTime

(* What a request was for, by the row it loaded. *)
AskedForCause ==
    \A r \in InFlight :
        LET call == request[r].call
            p    == request[r].plan
            l    == copy[r]
        IN  /\ l.sub = NoSub => call = "delete"
            /\ call = "keep" => p = l.plan /\ l.pending # NoPlan
            /\ call \in {"upgrade", "downgrade"} => p \notin {l.plan, l.pending} /\ ~l.cancels
            /\ call = "cancel" => ~l.cancels
            /\ call = "resume" => l.cancels

(* From here on: while there was no trouble. *)

PlanOnlyWithSub == ~row.deleted /\ row.plan # NoPlan => row.sub # NoSub

OneLive == \A s, o \in Subs : Live(s) /\ Live(o) => s = o

(* The queue holds at most one end, first, and then charges, none of them  *)
(* settled, of the subscription that is live, which Paddle will renew as   *)
(* the last of them says.                                                  *)
IsCharge(i) == events[i].kind = "charge"
QueueFits ==
    /\ \A i \in DOMAIN events :
        IF ~IsCharge(i) THEN i = 1
        ELSE /\ events[i].sub # NoSub /\ Live(events[i].sub) /\ ~paddle[events[i].sub].ending
             /\ events[i].n \notin settled
             /\ \A k \in DOMAIN events : IsCharge(k) /\ events[k].n = events[i].n => i = k
    /\ \A s \in Subs :
        Live(s) /\ events # <<>> =>
            IsCharge(Len(events)) /\ events[Len(events)].plan = paddle[s].item

(* A webhook with nothing to change has seen the row as it is. *)
HookFits ==
    /\ hook \in {0, 1}
    /\ hook # 0 /\ IsCharge(hook) =>
        LET l == copy[Webhook]
        IN  l = Renewed(events[hook], l) => row = l

(* Paddle has acted for at most one request that did not answer yet. *)
Applied == {r \in Unsaved : copy[r].sub # NoSub}
Writers == {r \in Applied : request[r].call # "upgrade"}

AppliedAlone == \A r, q \in Applied : r = q

WriterFits ==
    \A r \in Writers :
        /\ \A s \in Subs : Live(s) =>
            /\ s = copy[r].sub
            /\ request[r].call # "delete"
            /\ request[r].call = "cancel" => paddle[s].ending
            /\ request[r].call \in {"keep", "downgrade"} => paddle[s].item = request[r].plan
        /\ \A i \in DOMAIN events :
            IsCharge(i) => events[i].plan = paddle[events[i].sub].item

(* Once the webhooks under way are handled, a row that is w now will match *)
(* what Paddle does: each will find it, or it is beside the point.         *)
Settles(w) ==
    /\ events = <<>> => Matches(w)
    /\ events # <<>> =>
        /\ w.sub = events[1].sub \/ (w.sub = NoSub /\ (IsCharge(1) => events[1].named))
        /\ ~IsCharge(1) /\ Len(events) > 1 => events[2].named

(* What is live while a request is to write is what the row rides.         *)
RidesLive ==
    Writers # {} =>
        \A s \in Subs : Live(s) => s = row.sub /\ (events # <<>> => IsCharge(1))

DeletedIsFree == row.deleted => row.sub = NoSub /\ \A s \in Subs : ~Live(s)

RowSettles == Writers = {} => Settles(row)
WritersSettle == \A r \in Writers : row = copy[r] => Settles(Wanted(r))

Agreement ==
    /\ PlanOnlyWithSub
    /\ OneLive
    /\ QueueFits
    /\ HookFits
    /\ AppliedAlone
    /\ WriterFits
    /\ RidesLive
    /\ DeletedIsFree
    /\ RowSettles
    /\ WritersSettle

IInv ==
    /\ BaseInv
    /\ AskedForCause
    /\ trouble = "none" => Agreement

=============================================================================
