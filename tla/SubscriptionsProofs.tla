------------------------- MODULE SubscriptionsProofs -------------------------
(***************************************************************************)
(* Proofs about Subscriptions, for any number of subscriptions, plans,     *)
(* requests and charges, and for webhooks in order as well as in any.      *)
(***************************************************************************)
EXTENDS Subscriptions, TLAPS

-----------------------------------------------------------------------------
(* The queue of webhooks. *)

(* Acknowledging one webhook leaves only webhooks that were there. *)
LEMMA RemoveAtKeeps ==
    ASSUME NEW S, NEW q \in Seq(S), NEW i \in DOMAIN q
    PROVE  /\ RemoveAt(q, i) \in Seq(S)
           /\ \A j \in DOMAIN RemoveAt(q, i) : \E k \in DOMAIN q : RemoveAt(q, i)[j] = q[k]
<1> DEFINE before == SubSeq(q, 1, i - 1)
           after == SubSeq(q, i + 1, Len(q))
<1>1. /\ before \in Seq(S) /\ Len(before) = i - 1
      /\ \A j \in 1..(i - 1) : before[j] = q[j]
  OBVIOUS
<1>2. /\ after \in Seq(S) /\ Len(after) = Len(q) - i
      /\ \A j \in 1..(Len(q) - i) : after[j] = q[j + i]
  OBVIOUS
<1>3. RemoveAt(q, i) = before \o after
  BY DEF RemoveAt
<1> HIDE DEF before, after
<1>4. RemoveAt(q, i) \in Seq(S) /\ Len(RemoveAt(q, i)) = Len(q) - 1
  BY <1>1, <1>2, <1>3
<1>5. ASSUME NEW j \in DOMAIN RemoveAt(q, i)
      PROVE  \E k \in DOMAIN q : RemoveAt(q, i)[j] = q[k]
  <2>1. j \in 1..(Len(q) - 1)
    BY <1>4
  <2>2. CASE j < i
    <3>1. j \in DOMAIN q /\ RemoveAt(q, i)[j] = q[j]
      BY <1>1, <1>2, <1>3, <2>1, <2>2
    <3> QED BY <3>1
  <2>3. CASE j >= i
    <3>1. j + 1 \in DOMAIN q /\ RemoveAt(q, i)[j] = q[j + 1]
      BY <1>1, <1>2, <1>3, <2>1, <2>3
    <3> QED BY <3>1
  <2> QED BY <2>1, <2>2, <2>3
<1> QED BY <1>4, <1>5

(* A new webhook comes last, and moves none of the others. *)
LEMMA AppendKeeps ==
    ASSUME NEW S, NEW q \in Seq(S), NEW e \in S
    PROVE  /\ Append(q, e) \in Seq(S)
           /\ Len(Append(q, e)) = Len(q) + 1
           /\ \A i \in DOMAIN q : Append(q, e)[i] = q[i]
           /\ \A i \in DOMAIN Append(q, e) : i \in DOMAIN q \/ Append(q, e)[i] = e
OBVIOUS

(* What is in the queue is a webhook. *)
LEMMA EventAt ==
    ASSUME TypeOK, NEW i \in DOMAIN events
    PROVE  events[i] \in Event
<1>1. events \in Seq(Event)
  BY DEF TypeOK
<1> QED BY <1>1

(* The three webhooks Paddle may send are webhooks. *)
LEMMA EventTypes ==
    ASSUME TypeOK, NEW s \in Subs \cup {NoSub}
    PROVE  /\ CanceledEvent(s) \in Event
           /\ \A p \in Plans \cup {NoPlan}, b \in BOOLEAN : ChargeEvent(s, p, b) \in Event
BY DEF TypeOK, CanceledEvent, ChargeEvent, Event

-----------------------------------------------------------------------------
(* Rows and copies. *)

(* The row a commit leaves is a row. *)
LEMMA FlushIsRow ==
    ASSUME TypeOK, NEW x \in Requests \cup {Webhook}, NEW w \in Row
    PROVE  Flush(x, w) \in Row
BY DEF TypeOK, Flush, Written, Row

(* What a handler wants to write is a row. *)
LEMMA WantedIsRow ==
    ASSUME TypeOK
    PROVE  /\ NewRow \in Row
           /\ \A l \in Row : Cleared(l) \in Row
           /\ \A r \in Requests : Wanted(r) \in Row
           /\ \A e \in Event, l \in Row : Renewed(e, l) \in Row
<1>1. NewRow \in Row /\ \A l \in Row : Cleared(l) \in Row
  BY DEF NewRow, Cleared, Row
<1>2. \A e \in Event, l \in Row : Renewed(e, l) \in Row
  BY DEF Renewed, Row, Event
<1>3. ASSUME NEW r \in Requests
      PROVE  Wanted(r) \in Row
  <2>1. copy[r] \in Row /\ request[r].call \in Call /\ request[r].plan \in Plans \cup {NoPlan}
    BY DEF TypeOK, Request
  <2>2. Cleared(copy[r]) \in Row
    BY <1>1, <2>1
  <2> QED BY <2>1, <2>2 DEF Wanted, Row, Call
<1> QED BY <1>1, <1>2, <1>3

-----------------------------------------------------------------------------
(* Inductive invariant: initially, and across each kind of step. *)

LEMMA InitBase == Init => BaseInv
<1> SUFFICES ASSUME Init PROVE BaseInv
  OBVIOUS
<1>1. NewRow \in Row
  BY DEF NewRow, Row
<1>2. Idle \in Request
  BY DEF Idle, Request, Call
<1>3. \A s \in Subs : paddle[s] \in Subscription
  BY DEF Init, Subscription
<1>4. TypeOK
  <2>1. row \in Row /\ copy \in [Requests \cup {Webhook} -> Row]
    BY <1>1 DEF Init
  <2>2. request \in [Requests -> Request] /\ paddle \in [Subs -> Subscription]
    BY <1>2, <1>3 DEF Init
  <2>3. events \in Seq(Event) /\ hook \in 0..Len(events)
    BY DEF Init
  <2>4. charges \in 0..MaxCharges /\ settled \subseteq 1..charges /\ trouble \in Trouble
    BY SubscriptionsAssumption DEF Init, Trouble
  <2> QED BY <2>1, <2>2, <2>3, <2>4 DEF TypeOK
<1>5. HookSeesRow /\ EventsTrue
  BY DEF Init, HookSeesRow, EventsTrue
<1>6. LiveHasItem /\ PlanWithSub /\ AskedInTime
  BY DEF Init, LiveHasItem, Live, PlanWithSub, NewRow, AskedInTime, InFlight, Idle
<1> QED BY <1>4, <1>5, <1>6 DEF BaseInv

(* Noting trouble is all a step does to it. *)
LEMMA NoteType ==
    ASSUME TypeOK, NEW kind \in Trouble, NEW b \in BOOLEAN, Note(kind, b)
    PROVE  trouble' \in Trouble
BY DEF TypeOK, Note, Noted

(* Steps of Paddle leave the row, the requests and the copies alone. *)
LEMMA PaddleOnly ==
    ASSUME BaseInv, UNCHANGED <<row, request, copy>>
    PROVE  PlanWithSub' /\ AskedInTime'
BY DEF BaseInv, PlanWithSub, AskedInTime, InFlight

(* A webhook that is appended says what is true. *)
LEMMA EventAdded ==
    ASSUME BaseInv, NEW e \in Event, events' = Append(events, e),
           charges' \in Nat, charges' >= charges,
           UNCHANGED <<row, copy, hook>>,
           \A s \in Subs : paddle[s].status = "canceled" => paddle'[s].status = "canceled",
           IF e.kind = "canceled" THEN e.sub # NoSub /\ paddle'[e.sub].status = "canceled"
           ELSE e.plan # NoPlan /\ e.n \in 1..charges'
    PROVE  events' \in Seq(Event) /\ HookSeesRow' /\ EventsTrue' /\ hook' \in 0..Len(events')
<1>1. events \in Seq(Event) /\ charges \in Nat /\ hook \in 0..Len(events)
  BY DEF BaseInv, TypeOK
<1>2. /\ events' \in Seq(Event) /\ Len(events') = Len(events) + 1
      /\ \A i \in DOMAIN events : events'[i] = events[i]
      /\ \A i \in DOMAIN events' : i \in DOMAIN events \/ events'[i] = e
  BY <1>1, AppendKeeps
<1>3. hook' \in 0..Len(events')
  BY <1>1, <1>2
<1>4. HookSeesRow'
  <2> SUFFICES ASSUME hook # 0 PROVE HookSeesRow'
    BY DEF HookSeesRow
  <2>1. hook \in DOMAIN events
    BY <1>1
  <2>2. events'[hook] = events[hook]
    BY <1>2, <2>1
  <2> QED BY <2>2 DEF BaseInv, HookSeesRow
<1>5. EventsTrue'
  <2> SUFFICES ASSUME NEW i \in DOMAIN events'
      PROVE IF events'[i].kind = "canceled"
            THEN events'[i].sub # NoSub /\ paddle'[events'[i].sub].status = "canceled"
            ELSE events'[i].plan # NoPlan /\ events'[i].n \in 1..charges'
    BY DEF EventsTrue
  <2>1. CASE events'[i] = e
    BY <2>1
  <2>2. CASE i \in DOMAIN events
    <3>1. events'[i] = events[i] /\ events[i] \in Event
      BY <1>1, <1>2, <2>2
    <3>2. events[i].sub \in Subs \cup {NoSub}
      BY <3>1 DEF Event
    <3>3. IF events[i].kind = "canceled"
          THEN events[i].sub # NoSub /\ paddle[events[i].sub].status = "canceled"
          ELSE events[i].plan # NoPlan /\ events[i].n \in 1..charges
      BY <2>2 DEF BaseInv, EventsTrue
    <3>4. events[i].n \in 1..charges => events[i].n \in 1..charges'
      BY <1>1
    <3> QED BY <3>1, <3>2, <3>3, <3>4
  <2> QED BY <1>2, <2>1, <2>2
<1> QED BY <1>2, <1>3, <1>4, <1>5

(* Without a new webhook, what the others say stays true. *)
LEMMA EventsKept ==
    ASSUME BaseInv, UNCHANGED <<events, charges>>,
           \A s \in Subs : paddle[s].status = "canceled" => paddle'[s].status = "canceled"
    PROVE  EventsTrue'
<1>1. ASSUME NEW i \in DOMAIN events PROVE events[i].sub \in Subs \cup {NoSub}
  BY EventAt DEF BaseInv, Event
<1> QED BY <1>1 DEF BaseInv, EventsTrue

-----------------------------------------------------------------------------
(* Paddle and the customer. *)

LEMMA OpenCheckoutStep ==
    ASSUME BaseInv, NEW s \in Subs, OpenCheckout(s)
    PROVE  BaseInv'
<1>1. paddle[s] \in Subscription /\ paddle \in [Subs -> Subscription]
  BY DEF BaseInv, TypeOK
<1>2. paddle' \in [Subs -> Subscription]
  BY <1>1 DEF OpenCheckout, Subscription
<1>3. TypeOK'
  BY <1>2 DEF BaseInv, TypeOK, OpenCheckout
<1>4. EventsTrue'
  <2>1. \A o \in Subs : paddle[o].status = "canceled" => paddle'[o].status = "canceled"
    BY <1>1 DEF OpenCheckout
  <2> QED BY <2>1, EventsKept DEF OpenCheckout
<1>5. HookSeesRow'
  BY DEF BaseInv, HookSeesRow, OpenCheckout
<1>6. LiveHasItem'
  BY <1>1 DEF BaseInv, LiveHasItem, Live, OpenCheckout
<1> QED BY <1>3, <1>4, <1>5, <1>6, PaddleOnly DEF OpenCheckout, BaseInv

LEMMA PayStep ==
    ASSUME BaseInv, NEW s \in Subs, NEW p \in Plans, Pay(s, p)
    PROVE  BaseInv'
<1> DEFINE e == ChargeEvent(s, p, TRUE)
<1>1. /\ paddle[s].status = "checkout" /\ paddle \in [Subs -> Subscription]
      /\ charges < MaxCharges /\ charges' = charges + 1 /\ events' = Append(events, e)
      /\ charges \in 0..MaxCharges /\ MaxCharges \in Nat /\ p # NoPlan
  BY SubscriptionsAssumption DEF BaseInv, TypeOK, Pay, Charged
<1>2. paddle' \in [Subs -> Subscription]
  BY <1>1 DEF Pay, Subscription
<1>3. e \in Event
  BY EventTypes DEF BaseInv
<1>4. e.kind = "charge" /\ e.plan = p /\ e.n = charges'
  BY <1>1 DEF ChargeEvent
<1>5. \A o \in Subs : paddle[o].status = "canceled" => paddle'[o].status = "canceled"
  BY <1>1 DEF Pay
<1>6. events' \in Seq(Event) /\ HookSeesRow' /\ EventsTrue' /\ hook' \in 0..Len(events')
  <2>1. charges' \in Nat /\ charges' >= charges /\ e.n \in 1..charges'
    <3>1. charges' \in Nat /\ charges' >= charges /\ charges' >= 1
      <4>1. charges \in 0..MaxCharges /\ MaxCharges \in Nat /\ charges' = charges + 1
        BY <1>1
      <4> QED BY <4>1
    <3>2. e.n = charges'
      BY <1>4
    <3> HIDE DEF e
    <3> QED BY <3>1, <3>2
  <2> HIDE DEF e
  <2> QED BY <1>1, <1>3, <1>4, <1>5, <2>1, EventAdded DEF Pay
<1>7. trouble' \in Trouble
  BY NoteType DEF BaseInv, Pay, Trouble
<1>8. TypeOK'
  <2>1. charges' \in 0..MaxCharges /\ settled' \subseteq 1..charges'
    BY <1>1 DEF BaseInv, TypeOK, Pay
  <2> QED BY <1>2, <1>6, <1>7, <2>1 DEF BaseInv, TypeOK, Pay
<1>9. LiveHasItem'
  BY <1>1 DEF BaseInv, LiveHasItem, Live, Pay
<1> QED BY <1>6, <1>8, <1>9, PaddleOnly DEF Pay, BaseInv

LEMMA OneOffStep ==
    ASSUME BaseInv, NEW p \in Plans, OneOff(p)
    PROVE  BaseInv'
<1> DEFINE e == ChargeEvent(NoSub, p, TRUE)
<1>1. /\ charges < MaxCharges /\ charges' = charges + 1 /\ events' = Append(events, e)
      /\ charges \in 0..MaxCharges /\ MaxCharges \in Nat /\ p # NoPlan
  BY SubscriptionsAssumption DEF BaseInv, TypeOK, OneOff, Charged
<1>2. e \in Event
  BY EventTypes DEF BaseInv
<1>3. e.kind = "charge" /\ e.plan # NoPlan /\ e.n = charges'
  BY <1>1 DEF ChargeEvent
<1>4. events' \in Seq(Event) /\ HookSeesRow' /\ EventsTrue' /\ hook' \in 0..Len(events')
  <2>1. charges' \in Nat /\ charges' >= charges /\ e.n \in 1..charges'
    <3>1. charges' \in Nat /\ charges' >= charges /\ charges' >= 1
      <4>1. charges \in 0..MaxCharges /\ MaxCharges \in Nat /\ charges' = charges + 1
        BY <1>1
      <4> QED BY <4>1
    <3>2. e.n = charges'
      BY <1>3
    <3> HIDE DEF e
    <3> QED BY <3>1, <3>2
  <2> HIDE DEF e
  <2> QED BY <1>1, <1>2, <1>3, <2>1, EventAdded DEF OneOff
<1>5. trouble' \in Trouble
  BY NoteType DEF BaseInv, OneOff, Trouble
<1>6. TypeOK'
  <2>1. charges' \in 0..MaxCharges /\ settled' \subseteq 1..charges'
    BY <1>1 DEF BaseInv, TypeOK, OneOff
  <2> QED BY <1>4, <1>5, <2>1 DEF BaseInv, TypeOK, OneOff
<1>7. LiveHasItem'
  BY DEF BaseInv, LiveHasItem, Live, OneOff
<1> QED BY <1>4, <1>6, <1>7, PaddleOnly DEF OneOff, BaseInv

LEMMA RenewStep ==
    ASSUME BaseInv, NEW s \in Subs, Renew(s)
    PROVE  BaseInv'
<1>1. PICK named \in BOOLEAN : Charged(s, paddle[s].item, named)
  BY DEF Renew
<1> DEFINE e == ChargeEvent(s, paddle[s].item, named)
<1>2. /\ charges < MaxCharges /\ charges' = charges + 1 /\ events' = Append(events, e)
      /\ charges \in 0..MaxCharges /\ MaxCharges \in Nat
  BY <1>1, SubscriptionsAssumption DEF BaseInv, TypeOK, Charged
<1>3. paddle[s].item \in Plans \cup {NoPlan} /\ paddle[s].item # NoPlan
  BY DEF BaseInv, TypeOK, Subscription, LiveHasItem, Renew
<1>4. e \in Event
  BY <1>3, EventTypes DEF BaseInv
<1>5. e.kind = "charge" /\ e.plan # NoPlan /\ e.n = charges'
  BY <1>2, <1>3 DEF ChargeEvent
<1>6. events' \in Seq(Event) /\ HookSeesRow' /\ EventsTrue' /\ hook' \in 0..Len(events')
  <2>1. charges' \in Nat /\ charges' >= charges /\ e.n \in 1..charges'
    BY <1>2, <1>5
  <2> HIDE DEF e
  <2> QED BY <1>2, <1>4, <1>5, <2>1, EventAdded DEF Renew
<1>7. TypeOK'
  <2>1. charges' \in 0..MaxCharges /\ settled' \subseteq 1..charges'
    BY <1>2 DEF BaseInv, TypeOK, Renew
  <2> QED BY <1>6, <2>1 DEF BaseInv, TypeOK, Renew
<1>8. LiveHasItem'
  BY DEF BaseInv, LiveHasItem, Live, Renew
<1> QED BY <1>6, <1>7, <1>8, PaddleOnly DEF Renew, BaseInv

(* A subscription that ends, for whichever reason. *)
LEMMA EndStep ==
    ASSUME BaseInv, NEW s \in Subs, End(s), UNCHANGED <<row, charges, settled, hook, copy>>
    PROVE  /\ paddle' \in [Subs -> Subscription]
           /\ events' \in Seq(Event) /\ hook' \in 0..Len(events')
           /\ HookSeesRow' /\ EventsTrue' /\ LiveHasItem'
<1> DEFINE e == CanceledEvent(s)
<1>1. paddle[s] \in Subscription /\ paddle \in [Subs -> Subscription] /\ charges \in Nat
  BY DEF BaseInv, TypeOK
<1>2. paddle' \in [Subs -> Subscription]
  BY <1>1 DEF End, Subscription
<1>3. e \in Event
  BY EventTypes DEF BaseInv
<1>4. e.kind = "canceled" /\ e.sub = s /\ e.sub # NoSub
  BY SubscriptionsAssumption DEF CanceledEvent
<1>5. paddle'[s].status = "canceled"
  BY <1>1 DEF End
<1>6. \A o \in Subs : paddle[o].status = "canceled" => paddle'[o].status = "canceled"
  BY <1>1 DEF End
<1>7. events' \in Seq(Event) /\ HookSeesRow' /\ EventsTrue' /\ hook' \in 0..Len(events')
  <2>1. events' = Append(events, e) /\ charges' >= charges
    BY <1>1 DEF End
  <2> HIDE DEF e
  <2> QED BY <1>1, <1>3, <1>4, <1>5, <1>6, <2>1, EventAdded
<1>8. LiveHasItem'
  BY <1>1 DEF BaseInv, LiveHasItem, Live, End
<1> QED BY <1>2, <1>7, <1>8

LEMMA PeriodOverStep ==
    ASSUME BaseInv, NEW s \in Subs, PeriodOver(s)
    PROVE  BaseInv'
<1>1. /\ paddle' \in [Subs -> Subscription]
      /\ events' \in Seq(Event) /\ hook' \in 0..Len(events')
      /\ HookSeesRow' /\ EventsTrue' /\ LiveHasItem'
  BY EndStep DEF PeriodOver
<1>2. TypeOK'
  BY <1>1 DEF BaseInv, TypeOK, PeriodOver
<1> QED BY <1>1, <1>2, PaddleOnly DEF PeriodOver, BaseInv

-----------------------------------------------------------------------------
(* The requests of the owner. *)

(* A request begins by loading the row of an account that is not deleted. *)
LEMMA AskStep ==
    ASSUME BaseInv, NEW r \in Requests, NEW call \in Call, NEW p \in Plans \cup {NoPlan},
           NEW stage \in {"calling", "answered"}, Ask(r, call, p, stage),
           stage = "calling" => row.sub # NoSub,
           call \in {"keep", "upgrade", "downgrade"} => p # NoPlan
    PROVE  BaseInv'
<1>1. r # Webhook
  BY SubscriptionsAssumption
<1>2. /\ request \in [Requests -> Request] /\ copy \in [Requests \cup {Webhook} -> Row]
      /\ row \in Row
  BY DEF BaseInv, TypeOK
<1>3. request' \in [Requests -> Request] /\ copy' \in [Requests \cup {Webhook} -> Row]
  BY <1>2 DEF Ask, Request
<1>4. TypeOK'
  BY <1>3 DEF BaseInv, TypeOK, Ask
<1>5. copy'[Webhook] = copy[Webhook]
  BY <1>1, <1>2 DEF Ask
<1>6. HookSeesRow'
  BY <1>5 DEF BaseInv, HookSeesRow, Ask
<1>7. EventsTrue'
  BY EventsKept DEF Ask
<1>8. LiveHasItem' /\ PlanWithSub'
  BY DEF BaseInv, LiveHasItem, Live, PlanWithSub, Ask
<1>9. AskedInTime'
  <2> SUFFICES ASSUME NEW q \in Requests, request'[q].stage # "idle"
      PROVE /\ ~copy'[q].deleted
            /\ request'[q].stage = "calling" => copy'[q].sub # NoSub
            /\ request'[q].call \in {"keep", "upgrade", "downgrade"} => request'[q].plan # NoPlan
    BY DEF AskedInTime, InFlight
  <2>1. CASE q = r
    <3>1. /\ copy'[q] = row /\ ~row.deleted /\ request'[q].stage = stage
          /\ request'[q].call = call /\ request'[q].plan = p
      BY <1>2, <2>1 DEF Ask
    <3> QED BY <3>1
  <2>2. CASE q # r
    <3>1. copy'[q] = copy[q] /\ request'[q] = request[q]
      BY <1>2, <2>2 DEF Ask
    <3> QED BY <3>1 DEF BaseInv, AskedInTime, InFlight
  <2> QED BY <2>1, <2>2
<1> QED BY <1>4, <1>6, <1>7, <1>8, <1>9 DEF BaseInv

LEMMA OwnerStep ==
    ASSUME BaseInv, NEW r \in Requests, Owner(r)
    PROVE  BaseInv'
<1>1. ASSUME NEW p \in Plans, AskChange(r, p)
      PROVE  BaseInv'
  <2>1. p # NoPlan
    BY SubscriptionsAssumption
  <2>2. /\ row.sub # NoSub
        /\ \E call \in {"keep", "upgrade", "downgrade"} : Ask(r, call, p, "calling")
    BY <1>1 DEF AskChange
  <2> QED BY <2>1, <2>2, AskStep DEF Call
<1>2. CASE AskCancel(r)
  BY <1>2, AskStep DEF AskCancel, Call
<1>3. CASE AskResume(r)
  BY <1>3, AskStep DEF AskResume, Call
<1>4. CASE AskDelete(r)
  BY <1>4, AskStep DEF AskDelete, Call
<1> QED BY <1>1, <1>2, <1>3, <1>4 DEF Owner

(* What Paddle does on request: change the item or the mark of a live      *)
(* subscription, charge an upgrade, or end it.                             *)
LEMMA ApplyStep ==
    ASSUME BaseInv, NEW r \in Requests, Apply(r)
    PROVE  BaseInv'
<1> DEFINE s == copy[r].sub
           call == request[r].call
           p == request[r].plan
<1>1. /\ request \in [Requests -> Request] /\ copy \in [Requests \cup {Webhook} -> Row]
      /\ paddle \in [Subs -> Subscription] /\ charges \in 0..MaxCharges /\ charges \in Nat
      /\ MaxCharges \in Nat
  BY SubscriptionsAssumption DEF BaseInv, TypeOK
<1>2. /\ request[r].stage = "calling" /\ Live(s)
      /\ request' = [request EXCEPT ![r].stage = "answered"]
      /\ UNCHANGED <<row, settled, hook, copy>>
  BY DEF Apply
<1>3. s \in Subs
  <2>1. s \in Subs \cup {NoSub}
    BY <1>1 DEF Row
  <2> QED BY <1>2, <2>1 DEF BaseInv, AskedInTime, InFlight
<1>4. call \in Call /\ p \in Plans \cup {NoPlan}
  BY <1>1 DEF Request
<1>5. call \in {"keep", "upgrade", "downgrade"} => p # NoPlan
  BY <1>2 DEF BaseInv, AskedInTime, InFlight
<1>6. trouble' \in Trouble
  BY DEF BaseInv, TypeOK, Apply, Trouble, Noted
<1>7. request' \in [Requests -> Request]
  BY <1>1, <1>2 DEF Request
<1>8. PlanWithSub' /\ AskedInTime'
  <2>1. PlanWithSub'
    BY <1>2 DEF BaseInv, PlanWithSub
  <2>2. ASSUME NEW q \in Requests, request'[q].stage # "idle"
        PROVE  /\ request[q].stage # "idle"
               /\ request'[q].stage = "calling" => request[q].stage = "calling"
               /\ request'[q].call = request[q].call
               /\ request'[q].plan = request[q].plan
    BY <1>1, <1>2, <2>2 DEF Request
  <2>3. AskedInTime'
    BY <1>2, <2>2 DEF BaseInv, AskedInTime, InFlight
  <2> QED BY <2>1, <2>3
<1>9. ASSUME NEW q \in [Subs -> Subscription], paddle' = q,
             \A o \in Subs : /\ q[o].status = paddle[o].status
                             /\ q[o].item = paddle[o].item \/ q[o].item # NoPlan,
             \/ UNCHANGED <<events, charges>>
             \/ \E named \in BOOLEAN : p # NoPlan /\ s \in Subs /\ Charged(s, p, named)
      PROVE  BaseInv'
  <2>1. LiveHasItem'
    BY <1>9 DEF BaseInv, LiveHasItem, Live
  <2>4. ASSUME NEW o \in Subs, paddle[o].status = "canceled" PROVE paddle'[o].status = "canceled"
    <3>1. q[o].status = paddle[o].status
      BY <1>9
    <3>2. paddle'[o] = q[o]
      BY <1>9
    <3> QED BY <2>4, <3>1, <3>2
  <2>2. CASE UNCHANGED <<events, charges>>
    <3>1. EventsTrue' /\ HookSeesRow'
      BY <1>2, <2>2, <2>4, EventsKept DEF BaseInv, HookSeesRow
    <3>2. TypeOK'
      BY <1>2, <1>6, <1>7, <1>9, <2>2 DEF BaseInv, TypeOK
    <3> QED BY <1>8, <2>1, <3>1, <3>2 DEF BaseInv
  <2>3. ASSUME NEW named \in BOOLEAN, p # NoPlan, s \in Subs, Charged(s, p, named)
        PROVE  BaseInv'
    <3> DEFINE e == ChargeEvent(s, p, named)
    <3>1. charges < MaxCharges /\ charges' = charges + 1 /\ events' = Append(events, e)
      BY <2>3 DEF Charged
    <3>2. e \in Event
      BY <1>4, <2>3, EventTypes DEF BaseInv
    <3>3. e.kind = "charge" /\ e.plan # NoPlan /\ e.n = charges'
      BY <2>3, <3>1 DEF ChargeEvent
    <3>4. charges' \in Nat /\ charges' >= charges /\ charges' \in 0..MaxCharges
      BY <1>1, <3>1
    <3>5. e.n \in 1..charges'
      BY <1>1, <3>1, <3>3
    <3>6. events' \in Seq(Event) /\ HookSeesRow' /\ EventsTrue' /\ hook' \in 0..Len(events')
      <4> HIDE DEF e
      <4> QED BY <1>2, <2>4, <3>1, <3>2, <3>3, <3>4, <3>5, EventAdded
    <3>7. settled' \subseteq 1..charges'
      BY <1>1, <1>2, <3>1 DEF BaseInv, TypeOK
    <3>8. TypeOK'
      BY <1>2, <1>6, <1>7, <1>9, <3>4, <3>6, <3>7 DEF BaseInv, TypeOK
    <3> QED BY <1>8, <2>1, <3>6, <3>8 DEF BaseInv
  <2> QED BY <1>9, <2>2, <2>3
<1>12. ASSUME NEW b \in BOOLEAN, NEW q, q = [paddle EXCEPT ![s].ending = b]
       PROVE  /\ q \in [Subs -> Subscription]
              /\ \A o \in Subs : q[o].status = paddle[o].status /\ q[o].item = paddle[o].item
  BY <1>1, <1>12 DEF Subscription
<1> DEFINE itemSet == [paddle EXCEPT ![s].item = p]
           markSet == [paddle EXCEPT ![s].ending = (call = "cancel")]
<1>10. p # NoPlan => /\ itemSet \in [Subs -> Subscription]
                     /\ \A o \in Subs : /\ itemSet[o].status = paddle[o].status
                                        /\ itemSet[o].item = paddle[o].item \/ itemSet[o].item # NoPlan
  BY <1>1, <1>4 DEF Subscription
<1>11. /\ markSet \in [Subs -> Subscription]
       /\ \A o \in Subs : markSet[o].status = paddle[o].status /\ markSet[o].item = paddle[o].item
  <2> (call = "cancel") \in BOOLEAN
    OBVIOUS
  <2> QED BY <1>12
<1>13. CASE call \in {"keep", "downgrade"} /\ paddle' = itemSet /\ UNCHANGED <<events, charges>>
  BY <1>5, <1>9, <1>10, <1>13
<1>14. CASE /\ call = "upgrade" /\ paddle' = itemSet
            /\ UNCHANGED <<events, charges>> \/ \E named \in BOOLEAN : Charged(s, p, named)
  BY <1>5, <1>9, <1>10, <1>3, <1>14
<1>15. CASE /\ call \in {"cancel", "resume"} /\ paddle' = markSet
            /\ UNCHANGED <<events, charges>>
  BY <1>9, <1>11, <1>15
<1>16. CASE call = "delete" /\ End(s) /\ UNCHANGED charges
  <2>1. /\ paddle' \in [Subs -> Subscription]
        /\ events' \in Seq(Event) /\ hook' \in 0..Len(events')
        /\ HookSeesRow' /\ EventsTrue' /\ LiveHasItem'
    BY <1>2, <1>3, <1>16, EndStep
  <2>2. TypeOK'
    BY <1>2, <1>6, <1>7, <1>16, <2>1 DEF BaseInv, TypeOK
  <2> QED BY <1>8, <2>1, <2>2 DEF BaseInv
<1> QED BY <1>13, <1>14, <1>15, <1>16 DEF Apply

(* A request that is over no longer holds a copy of the row. *)
LEMMA OverEffect ==
    ASSUME BaseInv, NEW r \in Requests, Over(r)
    PROVE  /\ request' \in [Requests -> Request]
           /\ copy' \in [Requests \cup {Webhook} -> Row]
           /\ copy'[Webhook] = copy[Webhook]
           /\ AskedInTime'
<1>1. /\ request \in [Requests -> Request] /\ copy \in [Requests \cup {Webhook} -> Row]
      /\ r # Webhook
  BY SubscriptionsAssumption DEF BaseInv, TypeOK
<1>2. NewRow \in Row
  BY WantedIsRow DEF BaseInv
<1>3. Idle \in Request /\ Idle.stage = "idle"
  BY DEF Idle, Request, Call
<1>4. \A q \in InFlight' : q # r /\ q \in InFlight /\ request'[q] = request[q] /\ copy'[q] = copy[q]
  BY <1>1, <1>3 DEF Over, InFlight
<1>5. AskedInTime'
  BY <1>4 DEF BaseInv, AskedInTime
<1> QED BY <1>1, <1>2, <1>3, <1>5 DEF Over

LEMMA GiveUpStep ==
    ASSUME BaseInv, NEW r \in Requests, GiveUp(r)
    PROVE  BaseInv'
<1>1. /\ request' \in [Requests -> Request] /\ copy' \in [Requests \cup {Webhook} -> Row]
      /\ copy'[Webhook] = copy[Webhook] /\ AskedInTime'
  BY OverEffect DEF GiveUp
<1>2. trouble' \in Trouble
  BY NoteType DEF BaseInv, GiveUp, Trouble
<1>3. TypeOK'
  BY <1>1, <1>2 DEF BaseInv, TypeOK, GiveUp
<1>4. HookSeesRow'
  BY <1>1 DEF BaseInv, HookSeesRow, GiveUp
<1>5. EventsTrue'
  BY EventsKept DEF GiveUp
<1>6. LiveHasItem' /\ PlanWithSub'
  BY DEF BaseInv, LiveHasItem, Live, PlanWithSub, GiveUp
<1> QED BY <1>1, <1>3, <1>4, <1>5, <1>6 DEF BaseInv

(* What a request writes: only a deletion touches the plan, and it deletes *)
(* for good.                                                               *)
LEMMA SaveEffect ==
    ASSUME BaseInv, NEW r \in Requests, Save(r)
    PROVE  /\ row' \in Row
           /\ row.deleted => row'.deleted
           /\ row'.sub \in {row.sub, NoSub}
           /\ ~row'.deleted => row'.plan = row.plan /\ row'.sub = row.sub
<1> DEFINE l == copy[r]
           w == Wanted(r)
<1>1. l \in Row /\ row \in Row /\ w \in Row
  BY WantedIsRow DEF BaseInv, TypeOK
<1>2. row' = Flush(r, w) /\ row' \in Row
  BY <1>1, FlushIsRow DEF Save, BaseInv
<1>3. ~l.deleted
  BY DEF BaseInv, AskedInTime, InFlight, Save
<1>4. request[r].call \in Call
  BY DEF BaseInv, TypeOK, Request
<1>5. CASE request[r].call = "delete"
  <2>1. w.deleted = TRUE /\ w.sub = NoSub
    BY <1>1, <1>5 DEF Wanted, Cleared, Row
  <2>2. row'.deleted /\ row'.sub \in {row.sub, NoSub}
    BY <1>2, <1>3, <2>1 DEF Flush, Written
  <2> QED BY <1>2, <2>2
<1>6. CASE request[r].call # "delete"
  <2>1. w.deleted = l.deleted /\ w.sub = l.sub /\ w.plan = l.plan
    BY <1>1, <1>4, <1>6 DEF Wanted, Call, Row
  <2>2. row'.deleted = row.deleted /\ row'.sub = row.sub /\ row'.plan = row.plan
    BY <1>2, <2>1 DEF Flush, Written
  <2> QED BY <1>2, <2>2
<1> QED BY <1>5, <1>6

LEMMA SaveStep ==
    ASSUME BaseInv, NEW r \in Requests, Save(r)
    PROVE  BaseInv'
<1>1. /\ request' \in [Requests -> Request] /\ copy' \in [Requests \cup {Webhook} -> Row]
      /\ copy'[Webhook] = copy[Webhook] /\ AskedInTime'
  BY OverEffect DEF Save
<1>2. /\ row' \in Row /\ row'.sub \in {row.sub, NoSub}
      /\ row.deleted => row'.deleted
      /\ ~row'.deleted => row'.plan = row.plan /\ row'.sub = row.sub
  BY SaveEffect
<1>3. trouble' \in Trouble
  BY DEF BaseInv, TypeOK, Save, Trouble, Noted
<1>4. TypeOK'
  BY <1>1, <1>2, <1>3 DEF BaseInv, TypeOK, Save
<1>5. HookSeesRow'
  BY <1>1, <1>2 DEF BaseInv, HookSeesRow, Save
<1>6. EventsTrue'
  BY EventsKept DEF Save
<1>7. LiveHasItem'
  BY DEF BaseInv, LiveHasItem, Live, Save
<1>8. PlanWithSub'
  BY <1>2 DEF BaseInv, PlanWithSub
<1> QED BY <1>1, <1>4, <1>5, <1>6, <1>7, <1>8 DEF BaseInv

-----------------------------------------------------------------------------
(* Webhooks. *)

LEMMA ReceiveStep ==
    ASSUME BaseInv, NEW i \in DOMAIN events, Receive(i)
    PROVE  BaseInv'
<1>1. /\ copy \in [Requests \cup {Webhook} -> Row] /\ row \in Row /\ events \in Seq(Event)
      /\ \A r \in Requests : r # Webhook
  BY SubscriptionsAssumption DEF BaseInv, TypeOK
<1>2. /\ copy' \in [Requests \cup {Webhook} -> Row] /\ copy'[Webhook] = row
      /\ \A r \in Requests : copy'[r] = copy[r]
  BY <1>1 DEF Receive
<1>3. i \in 0..Len(events)
  BY <1>1
<1>4. trouble' \in Trouble
  BY NoteType DEF BaseInv, Receive, Trouble
<1>5. TypeOK'
  BY <1>2, <1>3, <1>4 DEF BaseInv, TypeOK, Receive
<1>6. HookSeesRow'
  <2>1. \/ events[i].sub # NoSub /\ row.sub = events[i].sub
        \/ events[i].kind = "charge" /\ NoSub \in {row.sub, events[i].sub}
    BY DEF Receive, IsOurs, Tracked
  <2> QED BY <1>2, <2>1 DEF HookSeesRow, Receive
<1>7. EventsTrue'
  BY EventsKept DEF Receive
<1>8. LiveHasItem' /\ PlanWithSub'
  BY DEF BaseInv, LiveHasItem, Live, PlanWithSub, Receive
<1>9. AskedInTime'
  BY <1>2 DEF BaseInv, AskedInTime, InFlight, Receive
<1> QED BY <1>5, <1>6, <1>7, <1>8, <1>9 DEF BaseInv

(* Webhooks taken from the queue leave the truth of the others alone. *)
LEMMA EventsRemoved ==
    ASSUME BaseInv, NEW i \in DOMAIN events, events' = RemoveAt(events, i),
           UNCHANGED <<paddle, charges>>
    PROVE  events' \in Seq(Event) /\ EventsTrue'
<1>1. events \in Seq(Event)
  BY DEF BaseInv, TypeOK
<1>2. /\ events' \in Seq(Event)
      /\ \A j \in DOMAIN events' : \E k \in DOMAIN events : events'[j] = events[k]
  BY <1>1, RemoveAtKeeps
<1> QED BY <1>2 DEF BaseInv, EventsTrue

LEMMA IgnoreStep ==
    ASSUME BaseInv, NEW i \in DOMAIN events, Ignore(i)
    PROVE  BaseInv'
<1>1. events' \in Seq(Event) /\ EventsTrue'
  BY EventsRemoved DEF Ignore
<1>2. trouble' \in Trouble
  BY NoteType DEF BaseInv, Ignore, Trouble
<1>3. hook' = 0 /\ hook' \in 0..Len(events')
  BY <1>1 DEF Ignore
<1>4. TypeOK'
  BY <1>1, <1>2, <1>3 DEF BaseInv, TypeOK, Ignore
<1>5. HookSeesRow'
  BY <1>3 DEF HookSeesRow
<1>6. LiveHasItem' /\ PlanWithSub' /\ AskedInTime'
  BY DEF BaseInv, LiveHasItem, Live, PlanWithSub, AskedInTime, InFlight, Ignore
<1> QED BY <1>1, <1>4, <1>5, <1>6 DEF BaseInv

(* The end of the handling of a webhook, whatever it wrote. *)
LEMMA HookClosed ==
    ASSUME BaseInv, hook # 0, NEW again \in BOOLEAN, Acknowledged(again),
           UNCHANGED <<paddle, charges, request>>
    PROVE  /\ events' \in Seq(Event) /\ hook' \in 0..Len(events')
           /\ copy' \in [Requests \cup {Webhook} -> Row]
           /\ HookSeesRow' /\ EventsTrue' /\ LiveHasItem' /\ AskedInTime'
<1>1. /\ events \in Seq(Event) /\ hook \in 0..Len(events)
      /\ copy \in [Requests \cup {Webhook} -> Row]
      /\ \A r \in Requests : r # Webhook
  BY SubscriptionsAssumption DEF BaseInv, TypeOK
<1>2. hook \in DOMAIN events
  BY <1>1
<1>3. events' \in Seq(Event) /\ EventsTrue'
  <2>1. CASE again
    BY <1>1, <2>1, EventsKept DEF Acknowledged
  <2>2. CASE ~again
    BY <1>2, <2>2, EventsRemoved DEF Acknowledged
  <2> QED BY <2>1, <2>2
<1>4. hook' = 0 /\ hook' \in 0..Len(events')
  BY <1>3 DEF Acknowledged
<1>5. NewRow \in Row
  BY WantedIsRow DEF BaseInv
<1>6. copy' \in [Requests \cup {Webhook} -> Row] /\ \A r \in Requests : copy'[r] = copy[r]
  BY <1>1, <1>5 DEF Acknowledged
<1>7. AskedInTime'
  BY <1>6 DEF BaseInv, AskedInTime, InFlight
<1>8. HookSeesRow'
  BY <1>4 DEF HookSeesRow
<1>9. LiveHasItem'
  BY DEF BaseInv, LiveHasItem, Live
<1> QED BY <1>3, <1>4, <1>6, <1>7, <1>8, <1>9

(* A settled charge: the row rides the subscription the charge is for, and *)
(* rode it, or none, before, or it rides what it rode if the charge is for *)
(* none; a row that has been deleted stays so.                             *)
LEMMA RenewalEffect ==
    ASSUME BaseInv, NEW again \in BOOLEAN, ApplyRenewal(again)
    PROVE  /\ row' \in Row
           /\ row'.deleted = row.deleted
           /\ row.sub # NoSub => row'.sub = row.sub
           /\ ~row.deleted => /\ row'.plan # NoPlan
                              /\ events[hook].sub # NoSub => row'.sub = events[hook].sub
                              /\ events[hook].sub = NoSub => row'.sub = row.sub
           /\ row.plan # NoPlan => row'.plan # NoPlan
           /\ events[hook].n \in 1..charges
<1> DEFINE e == events[hook]
           l == copy[Webhook]
           w == Renewed(e, l)
<1>1. hook \in DOMAIN events
  <2>1. events \in Seq(Event) /\ hook \in 0..Len(events) /\ hook # 0
    BY DEF BaseInv, TypeOK, ApplyRenewal
  <2> QED BY <2>1
<1>2. e \in Event /\ e.kind = "charge"
  BY <1>1, EventAt DEF BaseInv, ApplyRenewal
<1>3. e.sub \in Subs \cup {NoSub}
  BY <1>2 DEF Event
<1>4. e.plan # NoPlan /\ e.n \in 1..charges
  BY <1>1, <1>2 DEF BaseInv, EventsTrue
<1>5. l \in Row /\ w \in Row
  BY <1>2, WantedIsRow DEF BaseInv, TypeOK
<1>6. /\ w.plan = e.plan /\ w.deleted = l.deleted
      /\ w.sub = IF e.sub = NoSub THEN l.sub ELSE e.sub
  BY DEF Renewed
<1>7. row' = Flush(Webhook, w) /\ row' \in Row
  BY <1>5, FlushIsRow DEF ApplyRenewal, Handled, BaseInv
<1>8. /\ l.sub = e.sub \/ NoSub \in {l.sub, e.sub}
      /\ row.sub \in {l.sub, NoSub}
      /\ ~row.deleted => row.plan = l.plan /\ row.sub = l.sub
  BY DEF BaseInv, HookSeesRow, ApplyRenewal
<1> HIDE DEF e, l, w
<1>9. /\ row'.plan = Written(copy[Webhook].plan, w.plan, row.plan)
      /\ row'.sub = Written(copy[Webhook].sub, w.sub, row.sub)
      /\ row'.deleted = Written(copy[Webhook].deleted, w.deleted, row.deleted)
  BY <1>7 DEF Flush
<1> QED BY <1>3, <1>4, <1>6, <1>7, <1>8, <1>9 DEF Written, l, e

(* An ended subscription: the row forgets it, and it was its own.          *)
LEMMA ExpiryEffect ==
    ASSUME BaseInv, NEW again \in BOOLEAN, ExpireSubscription(again)
    PROVE  /\ row' \in Row
           /\ row'.deleted = row.deleted
           /\ row'.sub \in {row.sub, NoSub}
           /\ ~row.deleted => /\ row'.plan = NoPlan /\ row'.sub = NoSub
                              /\ row.sub # NoSub /\ paddle[row.sub].status = "canceled"
<1> DEFINE e == events[hook]
           l == copy[Webhook]
           w == Cleared(l)
<1>1. hook \in DOMAIN events
  <2>1. events \in Seq(Event) /\ hook \in 0..Len(events) /\ hook # 0
    BY DEF BaseInv, TypeOK, ExpireSubscription
  <2> QED BY <2>1
<1>2. e \in Event /\ e.kind = "canceled"
  BY <1>1, EventAt DEF BaseInv, ExpireSubscription
<1>3. e.sub \in Subs \cup {NoSub}
  BY <1>2 DEF Event
<1>4. e.sub # NoSub /\ paddle[e.sub].status = "canceled"
  BY <1>1, <1>2 DEF BaseInv, EventsTrue
<1>5. l \in Row /\ w \in Row
  BY WantedIsRow DEF BaseInv, TypeOK
<1>6. w.plan = NoPlan /\ w.sub = NoSub /\ w.deleted = l.deleted
  BY DEF Cleared
<1>7. row' = Flush(Webhook, w) /\ row' \in Row
  BY <1>5, FlushIsRow DEF ExpireSubscription, Handled, BaseInv
<1>8. /\ l.sub = e.sub
      /\ ~row.deleted => row.plan = l.plan /\ row.sub = l.sub
  BY <1>2 DEF BaseInv, HookSeesRow, ExpireSubscription
<1> HIDE DEF e, l, w
<1>9. /\ row'.plan = Written(copy[Webhook].plan, w.plan, row.plan)
      /\ row'.sub = Written(copy[Webhook].sub, w.sub, row.sub)
      /\ row'.deleted = Written(copy[Webhook].deleted, w.deleted, row.deleted)
  BY <1>7 DEF Flush
<1> QED BY <1>3, <1>4, <1>6, <1>7, <1>8, <1>9 DEF Written, l

LEMMA CommitStep ==
    ASSUME BaseInv, Commit
    PROVE  BaseInv'
<1>1. PICK again \in Again : ApplyRenewal(again) \/ ExpireSubscription(again)
  BY DEF Commit
<1>2. again \in BOOLEAN
  BY <1>1 DEF Again
<1>3. /\ hook # 0 /\ Acknowledged(again) /\ UNCHANGED <<paddle, charges, request>>
      /\ trouble' \in Trouble
  BY <1>1 DEF ApplyRenewal, ExpireSubscription, Handled, BaseInv, TypeOK, Trouble, Noted
<1>4. /\ events' \in Seq(Event) /\ hook' \in 0..Len(events')
      /\ copy' \in [Requests \cup {Webhook} -> Row]
      /\ HookSeesRow' /\ EventsTrue' /\ LiveHasItem' /\ AskedInTime'
  BY <1>2, <1>3, HookClosed
<1>5. row' \in Row /\ PlanWithSub' /\ settled' \subseteq 1..charges'
  <2>1. CASE ApplyRenewal(again)
    <3>1. settled \subseteq 1..charges /\ settled' = settled \cup {events[hook].n}
      BY <2>1 DEF ApplyRenewal, BaseInv, TypeOK
    <3>2. events[hook].n \in 1..charges
      BY <1>2, <2>1, RenewalEffect
    <3>3. row' \in Row /\ PlanWithSub'
      BY <1>2, <2>1, RenewalEffect DEF PlanWithSub
    <3> QED BY <1>3, <3>1, <3>2, <3>3
  <2>2. CASE ExpireSubscription(again)
    <3>1. row' \in Row /\ PlanWithSub'
      BY <1>2, <2>2, ExpiryEffect DEF PlanWithSub
    <3>2. settled' \subseteq 1..charges'
      BY <1>3, <2>2 DEF ExpireSubscription, BaseInv, TypeOK
    <3> QED BY <3>1, <3>2
  <2> QED BY <1>1, <2>1, <2>2
<1>6. TypeOK'
  BY <1>3, <1>4, <1>5 DEF BaseInv, TypeOK
<1> QED BY <1>4, <1>5, <1>6 DEF BaseInv

LEMMA AbandonHookStep ==
    ASSUME BaseInv, AbandonHook
    PROVE  BaseInv'
<1>1. /\ hook # 0 /\ Acknowledged(TRUE)
      /\ UNCHANGED <<row, paddle, charges, request, settled, trouble>>
  BY DEF AbandonHook, Acknowledged
<1>2. /\ events' \in Seq(Event) /\ hook' \in 0..Len(events')
      /\ copy' \in [Requests \cup {Webhook} -> Row]
      /\ HookSeesRow' /\ EventsTrue' /\ LiveHasItem' /\ AskedInTime'
  BY <1>1, HookClosed
<1>3. TypeOK'
  BY <1>1, <1>2 DEF BaseInv, TypeOK
<1>4. PlanWithSub'
  BY <1>1 DEF BaseInv, PlanWithSub
<1> QED BY <1>2, <1>3, <1>4 DEF BaseInv

-----------------------------------------------------------------------------
(* Every step, by action. *)

LEMMA StepPreserves == BaseInv /\ [Next]_vars => BaseInv'
<1> SUFFICES ASSUME BaseInv, [Next]_vars PROVE BaseInv'
  OBVIOUS
<1>1. CASE UNCHANGED vars
  BY <1>1 DEF vars, BaseInv, TypeOK, HookSeesRow, EventsTrue, LiveHasItem, Live, PlanWithSub,
              AskedInTime, InFlight
<1>2. ASSUME NEW s \in Subs, OpenCheckout(s) \/ Renew(s) \/ PeriodOver(s) PROVE BaseInv'
  BY <1>2, OpenCheckoutStep, RenewStep, PeriodOverStep
<1>3. ASSUME NEW p \in Plans, OneOff(p) \/ \E s \in Subs : Pay(s, p) PROVE BaseInv'
  <2>1. CASE OneOff(p)
    BY <2>1, OneOffStep
  <2>2. ASSUME NEW s \in Subs, Pay(s, p) PROVE BaseInv'
    BY <2>2, PayStep
  <2> QED BY <1>3, <2>1, <2>2
<1>4. ASSUME NEW r \in Requests, Owner(r) \/ Apply(r) \/ Save(r) \/ GiveUp(r) PROVE BaseInv'
  BY <1>4, OwnerStep, ApplyStep, SaveStep, GiveUpStep
<1>5. ASSUME NEW i \in Deliverable, Receive(i) \/ Ignore(i) PROVE BaseInv'
  <2>1. i \in DOMAIN events
    BY DEF Deliverable
  <2> QED BY <1>5, <2>1, ReceiveStep, IgnoreStep
<1>6. CASE Commit \/ AbandonHook
  BY <1>6, CommitStep, AbandonHookStep
<1> QED BY <1>1, <1>2, <1>3, <1>4, <1>5, <1>6 DEF Next

(* Only a commit of the row touches it: requests that save, and webhooks.  *)
LEMMA RowWriters ==
    ASSUME [Next]_vars, ~UNCHANGED row
    PROVE  \/ \E r \in Requests : Save(r)
           \/ \E again \in Again : ApplyRenewal(again) \/ ExpireSubscription(again)
BY DEF Next, vars, OpenCheckout, Renew, PeriodOver, Pay, OneOff, Owner, AskChange, AskCancel, AskResume,
       AskDelete, Ask, Apply, GiveUp, Receive, Ignore, Commit, AbandonHook

(* The part of the invariant that holds whatever trouble there was. *)
LEMMA BaseInductive == Spec => []BaseInv
<1>1. Init => BaseInv
  BY InitBase
<1>2. BaseInv /\ [Next]_vars => BaseInv'
  BY StepPreserves
<1> QED BY <1>1, <1>2, PTL DEF Spec

(* Every variable keeps its type: webhooks report charges that were made.  *)
THEOREM TypeCorrect == Spec => []TypeOK
<1>1. BaseInv => TypeOK
  BY DEF BaseInv
<1> QED BY <1>1, BaseInductive, PTL

(* No webhook repoints an account from one subscription to another, in     *)
(* whatever order they come, and whatever a checkout's custom_data claims. *)
THEOREM NeverRepointed == Spec => NoRepoint
<1>1. BaseInv /\ [Next]_vars => (row.sub # NoSub => row'.sub \in {row.sub, NoSub})
  <2> SUFFICES ASSUME BaseInv, [Next]_vars, row.sub # NoSub, ~UNCHANGED row
               PROVE  row'.sub \in {row.sub, NoSub}
    OBVIOUS
  <2>1. ASSUME NEW r \in Requests, Save(r) PROVE row'.sub \in {row.sub, NoSub}
    BY <2>1, SaveEffect
  <2>2. ASSUME NEW again \in Again, ApplyRenewal(again) PROVE row'.sub \in {row.sub, NoSub}
    <3>1. again \in BOOLEAN
      BY DEF Again
    <3> QED BY <2>2, <3>1, RenewalEffect
  <2>3. ASSUME NEW again \in Again, ExpireSubscription(again) PROVE row'.sub \in {row.sub, NoSub}
    <3>1. again \in BOOLEAN
      BY DEF Again
    <3> QED BY <2>3, <3>1, ExpiryEffect
  <2> QED BY <2>1, <2>2, <2>3, RowWriters
<1> QED BY <1>1, BaseInductive, PTL DEF Spec, NoRepoint

(* A plan is lost only with the account, or when the very subscription     *)
(* that carried it has ended at Paddle.                                    *)
THEOREM PlanLostForCause == Spec => PlanLostOnlyWhenEnded
<1> DEFINE Cause == row.plan # NoPlan /\ row'.plan = NoPlan /\ ~row'.deleted
                       => row.sub # NoSub /\ paddle[row.sub].status = "canceled"
<1>1. BaseInv /\ [Next]_vars => Cause
  <2> SUFFICES ASSUME BaseInv, [Next]_vars, row.plan # NoPlan, row'.plan = NoPlan, ~row'.deleted
               PROVE  row.sub # NoSub /\ paddle[row.sub].status = "canceled"
    OBVIOUS
  <2>1. ~UNCHANGED row
    OBVIOUS
  <2>2. ASSUME NEW r \in Requests, Save(r) PROVE FALSE
    BY <2>2, SaveEffect
  <2>3. ASSUME NEW again \in Again, ApplyRenewal(again) PROVE FALSE
    <3>1. again \in BOOLEAN
      BY DEF Again
    <3> QED BY <2>3, <3>1, RenewalEffect
  <2>4. ASSUME NEW again \in Again, ExpireSubscription(again)
        PROVE  row.sub # NoSub /\ paddle[row.sub].status = "canceled"
    <3>1. again \in BOOLEAN
      BY DEF Again
    <3> QED BY <2>4, <3>1, ExpiryEffect
  <2> QED BY <2>1, <2>2, <2>3, <2>4, RowWriters
<1> QED BY <1>1, BaseInductive, PTL DEF Spec, PlanLostOnlyWhenEnded

-----------------------------------------------------------------------------
(* What a request was for stays as it was until the request is over.       *)

(* Requests under way are those that were, with the call and the copy they *)
(* had.                                                                    *)
LEMMA CauseKept ==
    ASSUME AskedForCause,
           \A r \in InFlight' : /\ r \in InFlight /\ copy'[r] = copy[r]
                                /\ request'[r].call = request[r].call
                                /\ request'[r].plan = request[r].plan
    PROVE  AskedForCause'
BY DEF AskedForCause

LEMMA AskCause ==
    ASSUME BaseInv, AskedForCause, NEW r \in Requests, Owner(r)
    PROVE  AskedForCause'
<1> DEFINE Because(call, p, l) ==
        /\ l.sub = NoSub => call = "delete"
        /\ call = "keep" => p = l.plan /\ l.pending # NoPlan
        /\ call \in {"upgrade", "downgrade"} => p \notin {l.plan, l.pending} /\ ~l.cancels
        /\ call = "cancel" => ~l.cancels
        /\ call = "resume" => l.cancels
<1>1. PICK call \in Call, p \in Plans \cup {NoPlan}, stage \in {"calling", "answered"} :
          Ask(r, call, p, stage) /\ Because(call, p, row)
  <2>1. ASSUME NEW p \in Plans, AskChange(r, p)
        PROVE  \E call \in Call : Ask(r, call, p, "calling") /\ Because(call, p, row)
    BY <2>1 DEF AskChange, Call
  <2>2. CASE AskCancel(r)
    BY <2>2 DEF AskCancel, Call
  <2>3. CASE AskResume(r)
    BY <2>3 DEF AskResume, Call
  <2>4. CASE AskDelete(r)
    BY <2>4 DEF AskDelete, Call
  <2> QED BY <2>1, <2>2, <2>3, <2>4 DEF Owner
<1>2. request \in [Requests -> Request] /\ copy \in [Requests \cup {Webhook} -> Row]
  BY DEF BaseInv, TypeOK
<1>3. ASSUME NEW q \in InFlight'
      PROVE  Because(request'[q].call, request'[q].plan, copy'[q])
  <2>1. CASE q = r
    <3>1. request'[q].call = call /\ request'[q].plan = p /\ copy'[q] = row
      BY <1>1, <1>2, <2>1 DEF Ask
    <3> QED BY <1>1, <3>1
  <2>2. CASE q # r
    <3>1. request'[q] = request[q] /\ copy'[q] = copy[q] /\ q \in InFlight
      BY <1>1, <1>2, <1>3, <2>2 DEF Ask, InFlight
    <3> QED BY <3>1 DEF AskedForCause
  <2> QED BY <2>1, <2>2
<1> QED BY <1>3 DEF AskedForCause

LEMMA StepCause ==
    ASSUME BaseInv, AskedForCause, [Next]_vars
    PROVE  AskedForCause'
<1>1. /\ request \in [Requests -> Request] /\ copy \in [Requests \cup {Webhook} -> Row]
      /\ Webhook \notin Requests
  BY SubscriptionsAssumption DEF BaseInv, TypeOK
<1>2. CASE UNCHANGED <<request, copy>>
  BY <1>2, CauseKept DEF InFlight
<1>3. ASSUME NEW r \in Requests, Owner(r) PROVE AskedForCause'
  BY <1>3, AskCause
<1>4. ASSUME NEW r \in Requests, Apply(r) PROVE AskedForCause'
  <2>1. copy' = copy /\ request[r].stage = "calling"
        /\ request' = [request EXCEPT ![r].stage = "answered"]
    BY <1>4 DEF Apply
  <2>2. ASSUME NEW q \in InFlight'
        PROVE  /\ q \in InFlight
               /\ request'[q].call = request[q].call
               /\ request'[q].plan = request[q].plan
    BY <1>1, <2>1, <2>2 DEF InFlight, Request
  <2> QED BY <2>1, <2>2, CauseKept
<1>5. ASSUME NEW r \in Requests, Over(r) PROVE AskedForCause'
  <2>1. \A q \in InFlight' : q \in InFlight /\ request'[q] = request[q] /\ copy'[q] = copy[q]
    BY <1>1, <1>5 DEF Over, InFlight, Idle
  <2> QED BY <2>1, CauseKept
<1>6. ASSUME UNCHANGED request, NEW l, copy' = [copy EXCEPT ![Webhook] = l]
      PROVE  AskedForCause'
  <2>1. \A q \in Requests : copy'[q] = copy[q]
    BY <1>1, <1>6
  <2> QED BY <1>6, <2>1, CauseKept DEF InFlight
<1>7. CASE \/ \E s \in Subs : OpenCheckout(s) \/ Renew(s) \/ PeriodOver(s)
                               \/ \E p \in Plans : Pay(s, p)
           \/ \E p \in Plans : OneOff(p)
  BY <1>2, <1>7 DEF OpenCheckout, Renew, PeriodOver, Pay, OneOff
<1>8. ASSUME NEW i, Receive(i) \/ Ignore(i) PROVE AskedForCause'
  BY <1>2, <1>6, <1>8 DEF Receive, Ignore
<1>9. CASE Commit \/ AbandonHook
  BY <1>6, <1>9 DEF Commit, ApplyRenewal, ExpireSubscription, Handled, Acknowledged, AbandonHook
<1>10. ASSUME NEW r \in Requests, Save(r) \/ GiveUp(r) PROVE AskedForCause'
  BY <1>5, <1>10 DEF Save, GiveUp
<1>11. CASE UNCHANGED vars
  BY <1>2, <1>11 DEF vars
<1> QED BY <1>3, <1>4, <1>7, <1>8, <1>9, <1>10, <1>11 DEF Next

-----------------------------------------------------------------------------
(* Agreement: what the parts of it that most steps leave alone need.       *)

(* The state by type, as the proofs below use it. *)
LEMMA Types ==
    ASSUME BaseInv
    PROVE  /\ events \in Seq(Event) /\ Len(events) \in Nat /\ DOMAIN events = 1..Len(events)
           /\ hook \in 0..Len(events) /\ charges \in Nat
           /\ \A i \in DOMAIN events :
                /\ events[i] \in Event /\ events[i].n \in Nat
                /\ events[i].sub \in Subs \cup {NoSub} /\ (QueueFits => events[i].sub \in Subs)
                /\ IsCharge(i) => events[i].n \in 1..charges
                /\ ~IsCharge(i) => events[i].kind = "canceled" /\ events[i].sub \in Subs
           /\ row \in Row /\ paddle \in [Subs -> Subscription]
           /\ request \in [Requests -> Request] /\ copy \in [Requests \cup {Webhook} -> Row]
           /\ settled \subseteq 1..charges
           /\ NoSub \notin Subs /\ NoPlan \notin Plans /\ Webhook \notin Requests
<1>1. /\ events \in Seq(Event) /\ charges \in 0..MaxCharges /\ MaxCharges \in Nat
      /\ NoSub \notin Subs /\ NoPlan \notin Plans /\ Webhook \notin Requests
  BY SubscriptionsAssumption DEF BaseInv, TypeOK
<1>2. Len(events) \in Nat /\ DOMAIN events = 1..Len(events) /\ charges \in Nat
  BY <1>1
<1>3. ASSUME NEW i \in DOMAIN events
      PROVE  /\ events[i] \in Event /\ events[i].n \in Nat
             /\ events[i].sub \in Subs \cup {NoSub} /\ (QueueFits => events[i].sub \in Subs)
             /\ IsCharge(i) => events[i].n \in 1..charges
             /\ ~IsCharge(i) => events[i].kind = "canceled" /\ events[i].sub \in Subs
  <2>1. events[i] \in Event
    BY <1>1
  <2>2. /\ events[i].sub \in Subs \cup {NoSub} /\ events[i].n \in Nat
        /\ events[i].kind \in {"charge", "canceled"}
    BY <2>1 DEF Event
  <2>3. IF events[i].kind = "canceled" THEN events[i].sub # NoSub
        ELSE events[i].n \in 1..charges
    BY DEF BaseInv, EventsTrue
  <2>4. QueueFits /\ IsCharge(i) => events[i].sub # NoSub
    BY DEF QueueFits
  <2> QED BY <2>1, <2>2, <2>3, <2>4 DEF IsCharge
<1> QED BY <1>1, <1>2, <1>3 DEF BaseInv, TypeOK

(* The requests Paddle has acted for are the same, and ask for the same.   *)
SameApplied ==
    /\ Applied' = Applied
    /\ \A r \in Applied : /\ copy'[r] = copy[r]
                          /\ request'[r].call = request[r].call
                          /\ request'[r].plan = request[r].plan

(* Then so are those that will write, and what they will write. *)
LEMMA WritersKept ==
    ASSUME SameApplied
    PROVE  Writers' = Writers /\ \A r \in Writers : Wanted(r)' = Wanted(r)
<1>1. Writers' = Writers
  BY DEF SameApplied, Writers
<1>2. ASSUME NEW r \in Writers PROVE Wanted(r)' = Wanted(r)
  <2>1. copy'[r] = copy[r] /\ request'[r].call = request[r].call /\ request'[r].plan = request[r].plan
    BY DEF SameApplied, Writers
  <2> QED BY <2>1 DEF Wanted, Cleared
<1> QED BY <1>1, <1>2

(* The subscriptions that are live are the same, and renew or end as they did. *)
SameAtPaddle ==
    \A s \in Subs : /\ Live(s)' <=> Live(s)
                    /\ paddle'[s].item = paddle[s].item
                    /\ paddle'[s].ending = paddle[s].ending

(* What settles before such a step settles after it. *)
LEMMA SettlesKept ==
    ASSUME BaseInv, SameAtPaddle, events' = events, NEW w \in Row, Settles(w)
    PROVE  Settles(w)'
<1>1. w.sub # NoSub => w.sub \in Subs
  BY DEF Row
<1>2. Matches(w) => Matches(w)'
  BY <1>1 DEF Matches, SameAtPaddle
<1> QED BY <1>2 DEF Settles, IsCharge

(* Whatever settled still does, and the row and the requests are the same. *)
LEMMA StillSettles ==
    ASSUME BaseInv, RowSettles, WritersSettle, SameApplied, row' = row,
           \A w \in Row : Settles(w) => Settles(w)'
    PROVE  RowSettles' /\ WritersSettle'
<1>1. row \in Row /\ \A r \in Requests : Wanted(r) \in Row
  BY Types, WantedIsRow DEF BaseInv
<1>2. Writers' = Writers /\ \A r \in Writers : Wanted(r)' = Wanted(r)
  BY WritersKept
<1>3. RowSettles'
  BY <1>1, <1>2 DEF RowSettles, Settles, Matches, IsCharge, Live
<1>4. WritersSettle'
  <2> SUFFICES ASSUME NEW r \in Writers, row' = copy'[r] PROVE Settles(Wanted(r))'
    BY <1>2 DEF WritersSettle
  <2>1. row = copy[r] /\ r \in Requests
    BY DEF SameApplied, Writers, Applied, Unsaved
  <2>2. PICK w \in Row : w = Wanted(r)
    BY <1>1, <2>1
  <2>3. Settles(w)'
    BY <2>1, <2>2 DEF WritersSettle
  <2>4. Wanted(r)' = w
    BY <1>2, <2>2
  <2> QED BY <2>3, <2>4 DEF Settles, Matches, IsCharge, Live
<1> QED BY <1>3, <1>4

(* A step of which agreement takes no notice. *)
LEMMA StaysAgreed ==
    ASSUME BaseInv, Agreement, SameAtPaddle, SameApplied, HookFits',
           UNCHANGED <<row, events, settled>>
    PROVE  Agreement'
<1>1. \A i \in DOMAIN events : events[i].sub \in Subs
  BY Types DEF Agreement
<1>2. Writers' = Writers /\ Writers \subseteq Applied
  BY WritersKept DEF Writers
<1>3. OneLive'
  BY DEF Agreement, OneLive, SameAtPaddle
<1>4. QueueFits'
  BY <1>1 DEF Agreement, QueueFits, IsCharge, SameAtPaddle
<1>5. AppliedAlone'
  BY DEF Agreement, AppliedAlone, SameApplied
<1>6. WriterFits'
  BY <1>1, <1>2 DEF Agreement, WriterFits, IsCharge, SameAtPaddle, SameApplied
<1>7. RidesLive' /\ DeletedIsFree'
  BY <1>2 DEF Agreement, RidesLive, DeletedIsFree, SameAtPaddle, IsCharge
<1>8. RowSettles' /\ WritersSettle'
  BY SettlesKept, StillSettles DEF Agreement
<1>9. PlanOnlyWithSub'
  BY DEF Agreement, PlanOnlyWithSub
<1> QED BY <1>3, <1>4, <1>5, <1>6, <1>7, <1>8, <1>9 DEF Agreement

-----------------------------------------------------------------------------
(* Agreement: the queue grows at its end and shrinks at its head.          *)

(* A charge of the subscription that is live. *)
LEMMA ChargeAdded ==
    ASSUME BaseInv, QueueFits, NEW s \in Subs, NEW p \in Plans \cup {NoPlan},
           NEW named \in BOOLEAN, Charged(s, p, named), UNCHANGED settled,
           \A i \in DOMAIN events : IsCharge(i) => /\ paddle'[events[i].sub].status = "live"
                                                  /\ ~paddle'[events[i].sub].ending,
           paddle'[s].status = "live", ~paddle'[s].ending, paddle'[s].item = p,
           \A o \in Subs : paddle'[o].status = "live" => o = s
    PROVE  /\ QueueFits'
           /\ Len(events') = Len(events) + 1 /\ events' # <<>>
           /\ \A i \in DOMAIN events : events'[i] = events[i]
           /\ events'[Len(events) + 1] = ChargeEvent(s, p, named)
<1> DEFINE e == ChargeEvent(s, p, named)
           n == Len(events)
<1>1. /\ events \in Seq(Event) /\ n \in Nat /\ DOMAIN events = 1..n /\ charges \in Nat
      /\ \A i \in 1..n : events[i].kind = "charge" => events[i].n \in 1..charges
      /\ settled \subseteq 1..charges
  BY Types DEF IsCharge
<1>2. e \in Event /\ e.kind = "charge" /\ e.sub = s /\ e.plan = p /\ e.n = charges + 1
  BY EventTypes DEF BaseInv, ChargeEvent
<1>3. events' = Append(events, e)
  BY DEF Charged
<1> HIDE DEF e
<1>4. /\ events' \in Seq(Event) /\ Len(events') = n + 1
      /\ \A i \in 1..n : events'[i] = events[i]
  BY <1>1, <1>2, <1>3, AppendKeeps
<1>5. events'[n + 1] = e /\ DOMAIN events' = 1..(n + 1)
  BY <1>1, <1>2, <1>3, <1>4
<1>6. \A i \in 1..n : events[i].kind = "charge" => events[i].n # charges + 1
  BY <1>1
<1>7. charges + 1 \notin settled
  BY <1>1
<1> HIDE DEF n
<1>8. ASSUME NEW i \in 1..(n + 1), events'[i].kind = "charge"
      PROVE  /\ events'[i].sub # NoSub
             /\ paddle'[events'[i].sub].status = "live" /\ ~paddle'[events'[i].sub].ending
             /\ events'[i].n \notin settled'
             /\ \A k \in 1..(n + 1) : events'[k].kind = "charge" /\ events'[k].n = events'[i].n
                                        => i = k
  <2>1. \A k \in 1..(n + 1) : k \in 1..n \/ k = n + 1
    BY <1>1
  <2>2. CASE i = n + 1
    <3>1. ASSUME NEW k \in 1..(n + 1), events'[k].kind = "charge", events'[k].n = charges + 1
          PROVE  i = k
      BY <1>4, <1>6, <2>1, <2>2, <3>1
    <3>2. s # NoSub
      BY Types
    <3> QED BY <1>2, <1>5, <1>7, <2>2, <3>1, <3>2
  <2>3. CASE i \in 1..n
    <3>1. /\ events'[i] = events[i] /\ events[i].sub # NoSub
          /\ events[i].n \notin settled /\ events[i].n # charges + 1
          /\ \A k \in 1..n : events[k].kind = "charge" /\ events[k].n = events[i].n => i = k
      BY <1>1, <1>4, <1>6, <1>8, <2>3 DEF QueueFits, IsCharge
    <3>2. ASSUME NEW k \in 1..(n + 1), events'[k].kind = "charge", events'[k].n = events[i].n
          PROVE  i = k
      BY <1>2, <1>4, <1>5, <2>1, <3>1, <3>2
    <3>3. paddle'[events[i].sub].status = "live" /\ ~paddle'[events[i].sub].ending
      BY <1>1, <1>8, <2>3, <3>1 DEF IsCharge
    <3> QED BY <3>1, <3>2, <3>3
  <2> QED BY <2>1, <2>2, <2>3
<1>9. ASSUME NEW i \in 1..(n + 1), events'[i].kind # "charge"
      PROVE  i = 1
  BY <1>1, <1>2, <1>4, <1>5, <1>9 DEF QueueFits, IsCharge
<1>10. ASSUME NEW o \in Subs, paddle'[o].status = "live"
       PROVE  events'[n + 1].kind = "charge" /\ events'[n + 1].plan = paddle'[o].item
  BY <1>2, <1>5, <1>10
<1>11. QueueFits'
  BY <1>4, <1>5, <1>8, <1>9, <1>10 DEF QueueFits, IsCharge, Live
<1>12. events' # <<>>
  BY <1>1, <1>4
<1> QED BY <1>1, <1>4, <1>5, <1>11, <1>12 DEF e, n

(* The end of the last live subscription, with nothing else in the queue.  *)
LEMMA EndAdded ==
    ASSUME BaseInv, events = <<>>, NEW s \in Subs, End(s), UNCHANGED hook,
           \A o \in Subs : Live(o) => o = s
    PROVE  /\ OneLive' /\ QueueFits' /\ HookFits' /\ WriterFits'
           /\ \A w \in Row : w.sub \in {s, NoSub} => Settles(w)'
<1>1. /\ paddle \in [Subs -> Subscription] /\ hook \in 0..Len(events)
  BY Types
<1>2. events' = <<CanceledEvent(s)>> /\ hook' = 0
  BY <1>1 DEF End
<1>3. Len(events') = 1 /\ DOMAIN events' = {1} /\ events'[1].sub = s /\ ~IsCharge(1)'
  BY <1>2 DEF CanceledEvent, IsCharge
<1>4. \A o \in Subs : ~Live(o)'
  BY <1>1 DEF End, Live
<1>5. OneLive' /\ HookFits'
  BY <1>2, <1>4 DEF OneLive, HookFits
<1>6. QueueFits'
  BY <1>3, <1>4 DEF QueueFits
<1>7. WriterFits'
  BY <1>3, <1>4 DEF WriterFits
<1>8. ASSUME NEW w \in Row, w.sub \in {s, NoSub} PROVE Settles(w)'
  BY <1>2, <1>3, <1>8 DEF Settles
<1> QED BY <1>5, <1>6, <1>7, <1>8

(* The head of the queue acknowledged, and settled if it is a charge. *)
LEMMA HeadRemoved ==
    ASSUME BaseInv, QueueFits, events # <<>>, events' = RemoveAt(events, 1), UNCHANGED paddle,
           \A m \in settled' : m \in settled \/ (IsCharge(1) /\ m = events[1].n)
    PROVE  /\ QueueFits'
           /\ Len(events') = Len(events) - 1
           /\ \A i \in DOMAIN events' :
                /\ i + 1 \in DOMAIN events /\ i + 1 # 1 /\ events'[i] = events[i + 1]
                /\ events'[i].kind = "charge"
<1> DEFINE n == Len(events)
<1>1. /\ events \in Seq(Event) /\ n \in Nat /\ DOMAIN events = 1..n /\ n >= 1
  BY Types
<1>2. /\ Len(events') = n - 1 /\ DOMAIN events' = 1..(n - 1)
      /\ \A i \in 1..(n - 1) : events'[i] = events[i + 1]
  BY <1>1 DEF RemoveAt
<1> HIDE DEF n
<1>3. ASSUME NEW i \in 1..(n - 1)
      PROVE  /\ i + 1 \in 1..n /\ i + 1 # 1 /\ events'[i] = events[i + 1]
             /\ events[i + 1].kind = "charge"
  <2>1. i + 1 \in 1..n /\ i + 1 # 1
    BY <1>1
  <2> QED BY <1>1, <1>2, <2>1 DEF QueueFits, IsCharge
<1>4. ASSUME NEW i \in 1..(n - 1)
      PROVE  /\ events[i + 1].sub # NoSub
             /\ paddle[events[i + 1].sub].status = "live" /\ ~paddle[events[i + 1].sub].ending
             /\ events[i + 1].n \notin settled'
             /\ \A k \in 1..(n - 1) : events[k + 1].n = events[i + 1].n => i = k
  <2>1. i + 1 \in DOMAIN events /\ events[i + 1].kind = "charge" /\ i + 1 # 1
    BY <1>1, <1>3
  <2>2. /\ events[i + 1].sub # NoSub
        /\ paddle[events[i + 1].sub].status = "live" /\ ~paddle[events[i + 1].sub].ending
        /\ events[i + 1].n \notin settled
        /\ \A k \in DOMAIN events :
              events[k].kind = "charge" /\ events[k].n = events[i + 1].n => i + 1 = k
    BY <2>1 DEF QueueFits, IsCharge, Live
  <2>3. events[i + 1].n \notin settled'
    <3>1. 1 \in DOMAIN events
      BY <1>1
    <3> QED BY <2>1, <2>2, <3>1 DEF IsCharge
  <2>4. ASSUME NEW k \in 1..(n - 1), events[k + 1].n = events[i + 1].n PROVE i = k
    <3>1. k + 1 \in DOMAIN events /\ events[k + 1].kind = "charge"
      BY <1>1, <1>3
    <3>2. i + 1 = k + 1
      BY <2>2, <2>4, <3>1
    <3> QED BY <3>2
  <2> QED BY <2>2, <2>3, <2>4
<1>5. ASSUME NEW s \in Subs, paddle[s].status = "live", events' # <<>>
      PROVE  /\ events'[n - 1].kind = "charge" /\ events'[n - 1].plan = paddle[s].item
  <2>1. n - 1 \in 1..(n - 1) /\ (n - 1) + 1 = n
    <3>1. n - 1 # 0
      BY <1>2, <1>5, <1>1
    <3> QED BY <1>1, <3>1
  <2>2. events[n].plan = paddle[s].item
    BY <1>5 DEF Live, QueueFits, n
  <2>3. events'[n - 1] = events[n] /\ events[n].kind = "charge"
    BY <1>3, <2>1
  <2> QED BY <2>2, <2>3
<1>6. QueueFits'
  BY <1>2, <1>3, <1>4, <1>5 DEF QueueFits, IsCharge, Live
<1> QED BY <1>1, <1>2, <1>3, <1>6 DEF n

(* A row a request is to write in is not as the charge at the head of the  *)
(* queue would leave it: the request had cause to ask for something else.  *)
LEMMA NotRenewed ==
    ASSUME BaseInv, AskedForCause, QueueFits, WriterFits, NEW r \in Writers,
           events # <<>>, IsCharge(1), NEW l
    PROVE  copy[r] # Renewed(events[1], l)
<1> DEFINE e == events[1]
<1> SUFFICES ASSUME copy[r] = Renewed(e, l) PROVE FALSE
  OBVIOUS
<1>1. 1 \in DOMAIN events /\ e.sub \in Subs /\ request \in [Requests -> Request]
  BY Types
<1>2. Live(e.sub) /\ ~paddle[e.sub].ending
  BY <1>1 DEF QueueFits
<1>3. r \in Requests /\ r \in InFlight /\ request[r].call \in Call /\ request[r].call # "upgrade"
  BY <1>1 DEF Writers, Applied, Unsaved, InFlight, Request
<1>4. /\ request[r].call # "delete"
      /\ request[r].call = "cancel" => paddle[e.sub].ending
      /\ request[r].call \in {"keep", "downgrade"} => paddle[e.sub].item = request[r].plan
      /\ e.plan = paddle[e.sub].item
  BY <1>1, <1>2 DEF WriterFits
<1>5. copy[r].plan = e.plan /\ copy[r].cancels = FALSE /\ copy[r].pending = NoPlan
  BY DEF Renewed
<1>6. /\ request[r].call = "keep" => copy[r].pending # NoPlan
      /\ request[r].call = "downgrade" => request[r].plan # copy[r].plan
      /\ request[r].call = "resume" => copy[r].cancels
  BY <1>3 DEF AskedForCause
<1> HIDE DEF e
<1> QED BY <1>2, <1>3, <1>4, <1>5, <1>6 DEF Call

-----------------------------------------------------------------------------
(* Agreement, across each action that makes no trouble.                    *)

(* A step that leaves the requests alone. *)
LEMMA NoRequest ==
    ASSUME BaseInv, UNCHANGED request, \A r \in Requests : copy'[r] = copy[r]
    PROVE  SameApplied
BY DEF SameApplied, Applied, Unsaved

LEMMA OpenCheckoutAgrees ==
    ASSUME BaseInv, Agreement, NEW s \in Subs, OpenCheckout(s)
    PROVE  Agreement'
<1>1. paddle \in [Subs -> Subscription]
  BY Types
<1>2. SameAtPaddle
  BY <1>1 DEF OpenCheckout, SameAtPaddle, Live
<1>3. SameApplied /\ HookFits'
  BY NoRequest DEF OpenCheckout, Agreement, HookFits, IsCharge
<1> QED BY <1>2, <1>3, StaysAgreed DEF OpenCheckout

(* Nothing asked, nothing live: the row rides what ended last, or nothing. *)
LEMMA PayAgrees ==
    ASSUME BaseInv, Agreement, NEW s \in Subs, NEW p \in Plans, Pay(s, p),
           trouble = "none", trouble' = "none"
    PROVE  Agreement'
<1> DEFINE n == Len(events)
<1>1. /\ paddle \in [Subs -> Subscription] /\ n \in Nat /\ DOMAIN events = 1..n
      /\ \A i \in DOMAIN events : events[i].sub \in Subs
      /\ request \in [Requests -> Request]
  BY Types DEF Agreement
<1>2. InFlight = {} /\ \A o \in Subs : ~Live(o)
  BY DEF Pay, Note, Noted
<1>3. paddle'[s] = [status |-> "live", item |-> p, ending |-> FALSE]
      /\ \A o \in Subs : paddle'[o].status = "live" => o = s
  BY <1>1, <1>2 DEF Pay, Live
<1>4. \A i \in DOMAIN events : ~IsCharge(i) /\ i = 1
  BY <1>1, <1>2 DEF Agreement, QueueFits
<1>5. n \in {0, 1}
  <2>1. n >= 2 => 2 \in DOMAIN events
    BY <1>1
  <2> QED BY <1>1, <1>4, <2>1
<1>6. /\ QueueFits' /\ Len(events') = n + 1
      /\ \A i \in DOMAIN events : events'[i] = events[i]
      /\ events'[n + 1] = ChargeEvent(s, p, TRUE)
  <2>1. QueueFits /\ Charged(s, p, TRUE) /\ settled' = settled
    BY DEF Agreement, Pay
  <2>2. paddle'[s].status = "live" /\ ~paddle'[s].ending /\ paddle'[s].item = p
    BY <1>3
  <2> HIDE DEF n
  <2>3. \A i \in DOMAIN events : IsCharge(i) => /\ paddle'[events[i].sub].status = "live"
                                                /\ ~paddle'[events[i].sub].ending
    BY <1>4
  <2> QED BY <1>3, <2>1, <2>2, <2>3, ChargeAdded DEF n
<1>7. Applied' = {} /\ Writers' = {} /\ Writers = {}
  BY <1>2 DEF Pay, Applied, Unsaved, InFlight, Writers
<1>8. WritersSettle' /\ RidesLive' /\ DeletedIsFree'
  <2>1. ~row.deleted /\ row' = row
    BY DEF Pay, Note, Noted
  <2> QED BY <1>7, <2>1 DEF WritersSettle, RidesLive, DeletedIsFree
<1>9. HookFits'
  <2>1. hook # 0 => hook = 1 /\ 1 \in DOMAIN events
    BY Types DEF Agreement, HookFits
  <2>2. hook # 0 => events'[hook].kind # "charge"
    BY <1>4, <1>6, <2>1 DEF IsCharge
  <2> QED BY <2>2 DEF HookFits, IsCharge, Agreement, Pay
<1>10. Settles(row)'
  <2>1. row.sub # NoSub => row.sub \in Subs
    BY Types DEF Row
  <2>2. Settles(row)
    BY <1>7 DEF Agreement, RowSettles
  <2>3. CASE n = 0
    <3>1. events = <<>> /\ n + 1 = 1
      BY <2>3, Types
    <3>2. row.sub = NoSub
      BY <1>2, <2>1, <2>2, <3>1 DEF Settles, Matches
    <3>3. events'[1].named /\ events'[1].kind = "charge" /\ events' # <<>>
      <4>1. events'[1] = ChargeEvent(s, p, TRUE) /\ Len(events') = 1
        BY <1>6, <3>1
      <4> QED BY <4>1 DEF ChargeEvent
    <3> QED BY <3>2, <3>3 DEF Settles, IsCharge, Pay
  <2>4. CASE n = 1
    <3>1. 1 \in DOMAIN events /\ events # <<>>
      <4>1. Len(events) = 1 /\ DOMAIN events = 1..1
        BY <2>4, Types
      <4> QED BY <4>1
    <3>2. row.sub = events[1].sub \/ row.sub = NoSub
      BY <2>2, <3>1 DEF Settles
    <3>3. /\ events'[1] = events[1] /\ events'[1].kind # "charge" /\ events' # <<>>
          /\ events'[2].named
      BY <1>4, <1>6, <2>4, <3>1 DEF ChargeEvent, IsCharge
    <3> QED BY <3>2, <3>3 DEF Settles, IsCharge, Pay
  <2> QED BY <1>5, <2>3, <2>4 DEF Settles, IsCharge, Matches, Live
<1>11. OneLive' /\ AppliedAlone' /\ WriterFits'
  BY <1>3, <1>7 DEF OneLive, Live, AppliedAlone, WriterFits
<1>12. PlanOnlyWithSub'
  BY DEF Agreement, PlanOnlyWithSub, Pay
<1> QED BY <1>6, <1>9, <1>10, <1>11, <1>12, <1>8 DEF Agreement, RowSettles

(* The charge of a renewal is for what Paddle renews, and comes last. *)
LEMMA RenewAgrees ==
    ASSUME BaseInv, Agreement, NEW s \in Subs, Renew(s)
    PROVE  Agreement'
<1> DEFINE n == Len(events)
           p == paddle[s].item
<1>1. /\ paddle \in [Subs -> Subscription] /\ n \in Nat /\ DOMAIN events = 1..n
      /\ events \in Seq(Event)
      /\ \A i \in DOMAIN events : events[i].sub \in Subs
  BY Types DEF Agreement
<1>2. p \in Plans \cup {NoPlan}
  BY <1>1 DEF Subscription
<1>3. PICK named \in BOOLEAN : Charged(s, p, named)
  BY DEF Renew
<1>4. /\ paddle' = paddle /\ Live(s) /\ ~paddle[s].ending
      /\ \A o \in Subs : Live(o) => o = s
  BY DEF Renew, Agreement, OneLive
<1>5. /\ QueueFits' /\ Len(events') = n + 1
      /\ \A i \in DOMAIN events : events'[i] = events[i]
      /\ events'[n + 1] = ChargeEvent(s, p, named)
  <2>1. \A i \in DOMAIN events : IsCharge(i) => /\ paddle'[events[i].sub].status = "live"
                                                /\ ~paddle'[events[i].sub].ending
    BY <1>4 DEF Agreement, QueueFits, Live
  <2> QED BY <1>2, <1>3, <1>4, <2>1, ChargeAdded DEF Agreement, Live, Renew
<1>6. /\ events'[n + 1].sub = s /\ events'[n + 1].plan = p /\ events'[n + 1].kind = "charge"
  BY <1>5 DEF ChargeEvent
<1>7. SameApplied /\ Writers' = Writers /\ \A r \in Writers : Wanted(r)' = Wanted(r)
  BY NoRequest, WritersKept DEF Renew
<1>8. HookFits'
  <2>1. hook # 0 => hook \in DOMAIN events
    BY Types
  <2>2. hook # 0 => events'[hook] = events[hook]
    BY <1>5, <2>1
  <2> QED BY <2>2 DEF HookFits, IsCharge, Agreement, Renew, Renewed
<1>9. WriterFits'
  <2>1. ASSUME NEW r \in Writers, NEW i \in DOMAIN events', events'[i].kind = "charge"
        PROVE  events'[i].plan = paddle[events'[i].sub].item
    <3>1. i \in DOMAIN events \/ i = n + 1
      BY <1>1, <1>3, <1>5 DEF Charged
    <3>2. CASE i \in DOMAIN events
      BY <1>5, <2>1, <3>2 DEF Agreement, WriterFits, IsCharge
    <3> QED BY <1>6, <3>1, <3>2
  <2>2. \A r \in Writers : r \in Applied
    BY DEF Writers
  <2> QED BY <1>4, <1>7, <2>1, <2>2 DEF WriterFits, IsCharge, Agreement, Live, SameApplied
<1>10. ASSUME NEW w \in Row, Settles(w) PROVE Settles(w)'
  <2>1. w.sub # NoSub => w.sub \in Subs
    BY DEF Row
  <2>2. events' # <<>> /\ Len(events') = n + 1
    BY <1>1, <1>5
  <2>3. CASE events = <<>>
    <3>1. w.sub = s
      BY <1>4, <1>10, <2>1, <2>3 DEF Settles, Matches
    <3>2. events'[1].sub = s /\ events'[1].kind = "charge"
      BY <1>6, <2>3
    <3> QED BY <2>2, <3>1, <3>2 DEF Settles, IsCharge
  <2>4. CASE events # <<>>
    <3>1. 1 \in DOMAIN events
      BY <1>1, <2>4
    <3>2. events'[1] = events[1]
      BY <1>5, <3>1
    <3>3. events[1].kind # "charge" => n # 1
      BY <1>4, <2>4 DEF Agreement, QueueFits, IsCharge
    <3>4. events[1].kind # "charge" => n > 1 /\ 2 \in DOMAIN events
      BY <1>1, <3>1, <3>3
    <3>5. events[1].kind # "charge" => n > 1 /\ events'[2] = events[2]
      BY <1>5, <3>4
    <3> QED BY <1>10, <2>2, <2>4, <3>2, <3>5 DEF Settles, IsCharge
  <2> QED BY <2>3, <2>4
<1>11. RowSettles' /\ WritersSettle'
  BY <1>7, <1>10, StillSettles DEF Agreement, Renew
<1>12. OneLive' /\ AppliedAlone'
  BY <1>4, <1>7 DEF OneLive, Live, Agreement, AppliedAlone, SameApplied
<1>13. RidesLive' /\ DeletedIsFree'
  <2>1. Live(s) /\ s \in Subs /\ row' = row
    BY <1>4 DEF Renew
  <2>2. events # <<>> => events'[1] = events[1]
    <3>1. events # <<>> => 1 \in DOMAIN events
      BY <1>1
    <3> QED BY <1>5, <3>1
  <2>3. events = <<>> => events'[1].kind = "charge"
    <3>1. events = <<>> => n + 1 = 1
      OBVIOUS
    <3> QED BY <1>6, <3>1
  <2> QED BY <1>4, <1>7, <2>1, <2>2, <2>3 DEF RidesLive, DeletedIsFree, Agreement, Live, IsCharge
<1>14. PlanOnlyWithSub'
  BY DEF Agreement, PlanOnlyWithSub, Renew
<1> QED BY <1>13, <1>5, <1>8, <1>9, <1>11, <1>12, <1>14 DEF Agreement

(* A subscription that is to end is charged no more: nothing is queued.    *)
LEMMA PeriodOverAgrees ==
    ASSUME BaseInv, Agreement, NEW s \in Subs, PeriodOver(s)
    PROVE  Agreement'
<1>1. /\ events \in Seq(Event) /\ Len(events) \in Nat /\ DOMAIN events = 1..Len(events)
      /\ \A i \in DOMAIN events : events[i].sub \in Subs
  BY Types DEF Agreement
<1>2. Live(s) /\ paddle[s].ending /\ End(s) /\ \A o \in Subs : Live(o) => o = s
  BY DEF PeriodOver, Agreement, OneLive
<1>3. \A i \in DOMAIN events : ~IsCharge(i)
  BY <1>1, <1>2 DEF Agreement, QueueFits
<1>4. events = <<>>
  <2>1. events # <<>> => Len(events) \in DOMAIN events /\ IsCharge(Len(events))
    BY <1>1, <1>2 DEF Agreement, QueueFits
  <2> QED BY <1>3, <2>1
<1>5. /\ OneLive' /\ QueueFits' /\ HookFits' /\ WriterFits'
      /\ \A w \in Row : w.sub \in {s, NoSub} => Settles(w)'
  BY <1>2, <1>4, EndAdded DEF PeriodOver
<1>6. SameApplied /\ Writers' = Writers /\ \A r \in Writers : Wanted(r)' = Wanted(r)
  BY NoRequest, WritersKept DEF PeriodOver
<1>7. ASSUME NEW w \in Row, Settles(w) PROVE Settles(w)'
  BY <1>2, <1>4, <1>5, <1>7 DEF Settles, Matches, Row
<1>8. RowSettles' /\ WritersSettle'
  BY <1>6, <1>7, StillSettles DEF Agreement, PeriodOver
<1>9. AppliedAlone'
  BY <1>6 DEF Agreement, AppliedAlone, SameApplied
<1>10. RidesLive' /\ DeletedIsFree'
  <2>1. \A o \in Subs : ~Live(o)'
    BY <1>2, Types DEF End, Live
  <2>2. DeletedIsFree /\ row' = row
    BY DEF Agreement, PeriodOver
  <2> QED BY <2>1, <2>2 DEF RidesLive, DeletedIsFree
<1>11. PlanOnlyWithSub'
  BY DEF Agreement, PlanOnlyWithSub, PeriodOver
<1> QED BY <1>5, <1>8, <1>9, <1>10, <1>11 DEF Agreement

(* Asking is not acting: Paddle has acted for no one new. *)
LEMMA OwnerAgrees ==
    ASSUME BaseInv, Agreement, NEW r \in Requests, Owner(r)
    PROVE  Agreement'
<1>1. PICK call \in Call, p \in Plans \cup {NoPlan}, stage \in {"calling", "answered"} :
          Ask(r, call, p, stage) /\ (stage = "answered" => row.sub = NoSub)
  <2>1. ASSUME NEW p \in Plans, AskChange(r, p)
        PROVE  \E call \in Call : Ask(r, call, p, "calling")
    BY <2>1 DEF AskChange, Call
  <2>2. AskCancel(r) => Ask(r, "cancel", NoPlan, "calling")
    BY DEF AskCancel
  <2>3. AskResume(r) => Ask(r, "resume", NoPlan, "calling")
    BY DEF AskResume
  <2>4. AskDelete(r) => /\ row.sub = NoSub => Ask(r, "delete", NoPlan, "answered")
                        /\ row.sub # NoSub => Ask(r, "delete", NoPlan, "calling")
    BY DEF AskDelete
  <2> QED BY <2>1, <2>2, <2>3, <2>4 DEF Owner, Call
<1>2. /\ request \in [Requests -> Request] /\ copy \in [Requests \cup {Webhook} -> Row]
      /\ Webhook \notin Requests
  BY Types
<1>3. /\ request[r].stage = "idle" /\ request'[r].stage = stage /\ copy'[r] = row
      /\ \A q \in Requests : q # r => request'[q] = request[q] /\ copy'[q] = copy[q]
      /\ copy'[Webhook] = copy[Webhook]
  BY <1>1, <1>2 DEF Ask
<1>4. r \notin Applied /\ r \notin Applied'
  BY <1>1, <1>3 DEF Applied, Unsaved
<1>5. SameApplied
  BY <1>3, <1>4 DEF SameApplied, Applied, Unsaved
<1>6. SameAtPaddle /\ HookFits'
  BY <1>1, <1>3 DEF Ask, SameAtPaddle, Live, Agreement, HookFits, IsCharge
<1> QED BY <1>1, <1>5, <1>6, StaysAgreed DEF Ask

(* Paddle acts for the one request under way, on the row as it is, with    *)
(* nothing queued: what the request will write matches what Paddle does.   *)
LEMMA ApplyAgrees ==
    ASSUME BaseInv, AskedForCause, Agreement, NEW r \in Requests, Apply(r),
           trouble = "none", trouble' = "none"
    PROVE  Agreement'
<1> DEFINE s == row.sub
           call == request[r].call
           p == request[r].plan
<1>1. /\ request \in [Requests -> Request] /\ copy \in [Requests \cup {Webhook} -> Row]
      /\ paddle \in [Subs -> Subscription] /\ row \in Row
      /\ charges \in Nat /\ settled \subseteq 1..charges
      /\ hook \in 0..Len(events) /\ NoSub \notin Subs
  BY Types
<1>2. copy[r] = row /\ events = <<>> /\ Unsaved = {}
  BY DEF Apply, Noted
<1>3. /\ request[r].stage = "calling" /\ Live(s)
      /\ request' = [request EXCEPT ![r].stage = "answered"]
      /\ UNCHANGED <<row, settled, hook, copy>>
  BY <1>2 DEF Apply
<1>4. r \in InFlight /\ s \in Subs /\ call \in Call
  <2>1. r \in InFlight
    BY <1>3 DEF InFlight
  <2>2. s # NoSub
    BY <1>2, <1>3, <2>1 DEF BaseInv, AskedInTime
  <2> QED BY <1>1, <2>1, <2>2 DEF Row, Request
<1>5. /\ \A o \in Subs : Live(o) => o = s
      /\ paddle[s].ending = row.cancels
      /\ paddle[s].item = IF row.pending # NoPlan THEN row.pending ELSE row.plan
  <2>1. Writers = {}
    BY <1>2 DEF Writers, Applied
  <2>2. Matches(row)
    BY <1>2, <2>1 DEF Agreement, RowSettles, Settles
  <2> QED BY <1>1, <1>3, <1>4, <2>2 DEF Matches, Agreement, OneLive
<1>6. hook = 0 /\ hook' = 0 /\ HookFits'
  BY <1>1, <1>2, <1>3 DEF HookFits
<1>7. /\ request'[r].stage = "answered" /\ request'[r].call = call /\ request'[r].plan = p
      /\ Applied' = {r} /\ AppliedAlone'
  <2>1. /\ request'[r].stage = "answered" /\ request'[r].call = call /\ request'[r].plan = p
        /\ \A q \in Requests : q # r => request'[q] = request[q]
    BY <1>1, <1>3 DEF Request
  <2>2. Unsaved' = {r}
    BY <1>2, <2>1 DEF Unsaved
  <2>3. copy'[r].sub # NoSub
    BY <1>1, <1>2, <1>3, <1>4
  <2>4. Applied' = {r}
    BY <2>2, <2>3 DEF Applied
  <2> QED BY <2>1, <2>4 DEF AppliedAlone
<1>8. Wanted(r)' = Wanted(r) /\ Wanted(r) \in Row
  BY <1>3, <1>7, WantedIsRow DEF Wanted, Cleared, BaseInv
<1>9. DeletedIsFree' /\ PlanOnlyWithSub'
  <2>1. ~row.deleted /\ row' = row
    BY <1>2, <1>3, <1>4 DEF BaseInv, AskedInTime
  <2> QED BY <2>1 DEF DeletedIsFree, Agreement, PlanOnlyWithSub
<1>10. ASSUME call # "upgrade", NEW w \in Row, w = Wanted(r), Settles(w)',
             OneLive', QueueFits', WriterFits', RidesLive'
      PROVE  Agreement'
  <2>1. Writers' = {r}
    BY <1>7, <1>10 DEF Writers
  <2>2. Wanted(r)' = w
    BY <1>8, <1>10
  <2>3. RowSettles' /\ WritersSettle'
    BY <1>10, <2>1, <2>2 DEF RowSettles, WritersSettle, Settles, Matches, IsCharge, Live
  <2> QED BY <1>6, <1>7, <1>10, <1>9, <2>3 DEF Agreement
<1>11. PICK w \in Row : w = Wanted(r)
  BY <1>8
<1>12. CASE call \in {"keep", "downgrade"}
  <2>1. /\ paddle' = [paddle EXCEPT ![s].item = p] /\ events' = <<>>
    BY <1>2, <1>12 DEF Apply
  <2>2. /\ paddle'[s].status = "live" /\ paddle'[s].item = p /\ paddle'[s].ending = row.cancels
        /\ \A o \in Subs : paddle'[o].status = "live" => o = s
    BY <1>1, <1>3, <1>4, <1>5, <2>1 DEF Live, Subscription
  <2>3. p # NoPlan /\ (call = "keep" => p = row.plan)
    BY <1>2, <1>4, <1>12 DEF AskedForCause, BaseInv, AskedInTime
  <2>4. w = [row EXCEPT !.pending = IF call = "keep" THEN NoPlan ELSE p]
    BY <1>2, <1>11, <1>12 DEF Wanted
  <2>5. /\ w.sub = s /\ w.cancels = row.cancels
        /\ p = IF w.pending # NoPlan THEN w.pending ELSE w.plan
    BY <1>1, <2>3, <2>4, <1>12 DEF Row
  <2>6. Settles(w)'
    BY <1>4, <1>1, <2>1, <2>2, <2>5 DEF Settles, Matches, Live
  <2>7. OneLive' /\ QueueFits'
    BY <2>1, <2>2 DEF OneLive, QueueFits, Live
  <2>8. WriterFits'
    BY <1>2, <1>3, <1>7, <1>12, <2>1, <2>2 DEF WriterFits, Writers, Live
  <2>9. RidesLive'
    BY <1>3, <2>1, <2>2 DEF RidesLive, Live
  <2> QED BY <1>10, <1>11, <1>12, <2>6, <2>7, <2>8, <2>9
<1>13. CASE call \in {"cancel", "resume"}
  <2>1. /\ paddle' = [paddle EXCEPT ![s].ending = (call = "cancel")] /\ events' = <<>>
    BY <1>2, <1>13 DEF Apply
  <2>2. /\ paddle'[s].status = "live" /\ paddle'[s].item = paddle[s].item
        /\ paddle'[s].ending = (call = "cancel")
        /\ \A o \in Subs : paddle'[o].status = "live" => o = s
    BY <1>1, <1>3, <1>4, <1>5, <2>1 DEF Live, Subscription
  <2>3. w = [row EXCEPT !.cancels = (call = "cancel")]
    <3>1. CASE call = "cancel"
      BY <1>2, <1>11, <3>1 DEF Wanted
    <3>2. CASE call = "resume"
      BY <1>2, <1>11, <3>2 DEF Wanted
    <3> QED BY <1>13, <3>1, <3>2
  <2>4. /\ w.sub = s /\ w.cancels = (call = "cancel")
        /\ w.pending = row.pending /\ w.plan = row.plan
    BY <1>1, <2>3 DEF Row
  <2>5. Settles(w)'
    BY <1>4, <1>1, <1>5, <2>1, <2>2, <2>4 DEF Settles, Matches, Live
  <2>6. OneLive' /\ QueueFits'
    BY <2>1, <2>2 DEF OneLive, QueueFits, Live
  <2>7. WriterFits'
    <3>1. call = "cancel" => paddle'[s].ending
      BY <2>2
    <3>2. \A q \in Writers' : q = r
      BY <1>7 DEF Writers
    <3>3. copy'[r].sub = s /\ DOMAIN events' = {}
      BY <1>2, <1>3, <2>1
    <3> QED BY <1>7, <1>13, <2>2, <3>1, <3>2, <3>3 DEF WriterFits, Live
  <2>8. RidesLive'
    BY <1>3, <2>1, <2>2 DEF RidesLive, Live
  <2> QED BY <1>10, <1>11, <1>13, <2>5, <2>6, <2>7, <2>8
<1>14. CASE call = "delete"
  <2>1. End(s)
    BY <1>2, <1>14 DEF Apply
  <2>2. /\ OneLive' /\ QueueFits' /\ WriterFits'
        /\ \A v \in Row : v.sub \in {s, NoSub} => Settles(v)'
    BY <1>2, <1>3, <1>4, <1>5, <2>1, EndAdded
  <2>3. w.sub = NoSub
    BY <1>11, <1>14 DEF Wanted, Cleared
  <2>4. RidesLive'
    BY <1>1, <1>5, <2>1 DEF End, Live, RidesLive
  <2> QED BY <1>10, <1>11, <1>14, <2>2, <2>3, <2>4
<1>15. CASE call = "upgrade"
  <2>1. row.cancels = FALSE /\ p # row.plan /\ p # row.pending
    BY <1>1, <1>2, <1>4, <1>15 DEF AskedForCause, Row
  <2>2. paddle[s].item # p
    BY <1>5, <2>1
  <2>3. PICK named \in BOOLEAN : Charged(s, p, named)
    BY <1>2, <1>15, <2>2 DEF Apply
  <2>4. paddle' = [paddle EXCEPT ![s].item = p]
    BY <1>2, <1>15 DEF Apply
  <2>5. /\ paddle'[s].status = "live" /\ paddle'[s].item = p /\ ~paddle'[s].ending
        /\ \A o \in Subs : paddle'[o].status = "live" => o = s
    BY <1>1, <1>3, <1>4, <1>5, <2>1, <2>4 DEF Live, Subscription
  <2>6. p \in Plans \cup {NoPlan}
    BY <1>1 DEF Request
  <2>7. /\ QueueFits' /\ events' # <<>> /\ Len(events') = Len(events) + 1
        /\ events'[Len(events) + 1] = ChargeEvent(s, p, named)
    <3>1. QueueFits /\ settled' = settled
      BY <1>3 DEF Agreement
    <3>2. \A i \in DOMAIN events : FALSE
      BY <1>2
    <3> HIDE DEF s, p
    <3> QED BY <1>4, <2>3, <2>5, <2>6, <3>1, <3>2, ChargeAdded
  <2>8. Len(events') = 1 /\ events'[1].sub = s /\ events'[1].kind = "charge"
    <3>1. Len(events) = 0
      BY <1>2
    <3>2. Len(events') = 1 /\ events'[1] = ChargeEvent(s, p, named)
      BY <2>7, <3>1
    <3> QED BY <3>2 DEF ChargeEvent
  <2>9. Writers' = {}
    BY <1>7, <1>15 DEF Writers
  <2>10. Settles(row)'
    <3>1. row'.sub = s
      BY <1>3
    <3> QED BY <2>7, <2>8, <3>1 DEF Settles, IsCharge
  <2>11. OneLive' /\ RowSettles' /\ WritersSettle' /\ WriterFits' /\ RidesLive'
    BY <2>5, <2>9, <2>10 DEF OneLive, Live, RowSettles, WritersSettle, WriterFits, RidesLive
  <2> QED BY <1>6, <1>7, <1>9, <2>7, <2>11 DEF Agreement
<1> QED BY <1>4, <1>12, <1>13, <1>14, <1>15 DEF Call

(* A request that is given up before Paddle acted for it, or that had      *)
(* nothing to ask of Paddle.                                               *)
LEMMA GiveUpAgrees ==
    ASSUME BaseInv, Agreement, NEW r \in Requests, GiveUp(r),
           trouble = "none", trouble' = "none"
    PROVE  Agreement'
<1>1. /\ request \in [Requests -> Request] /\ copy \in [Requests \cup {Webhook} -> Row]
      /\ Webhook \notin Requests
  BY Types
<1>2. /\ request'[r].stage = "idle" /\ copy'[Webhook] = copy[Webhook]
      /\ \A q \in Requests : q # r => request'[q] = request[q] /\ copy'[q] = copy[q]
  BY <1>1 DEF GiveUp, Over, Idle
<1>3. r \notin Applied /\ r \notin Applied'
  BY <1>2 DEF GiveUp, Note, Applied, Unsaved, Noted
<1>4. SameApplied
  BY <1>2, <1>3 DEF SameApplied, Applied, Unsaved
<1>5. SameAtPaddle /\ HookFits'
  BY <1>2 DEF GiveUp, SameAtPaddle, Live, Agreement, HookFits, IsCharge
<1> QED BY <1>4, <1>5, StaysAgreed DEF GiveUp

(* A commit over the row as it was loaded writes the row that is wanted.   *)
LEMMA FlushWhole ==
    ASSUME BaseInv, NEW x \in Requests \cup {Webhook}, NEW w \in Row,
           w = copy[x] \/ copy[x] = row
    PROVE  Flush(x, w) = IF copy[x] = row THEN w ELSE row
<1>1. row \in Row /\ copy[x] \in Row
  BY Types
<1>2. CASE copy[x] = row
  BY <1>1, <1>2 DEF Flush, Written, Row
<1>3. CASE w = copy[x] /\ copy[x] # row
  BY <1>1, <1>3 DEF Flush, Written, Row
<1> QED BY <1>2, <1>3

(* What Paddle did for a request is written, and nothing else is under way *)
(* that the row must wait for.                                             *)
LEMMA SaveAgrees ==
    ASSUME BaseInv, AskedForCause, Agreement, NEW r \in Requests, Save(r),
           trouble = "none", trouble' = "none"
    PROVE  Agreement'
<1> DEFINE l == copy[r]
           call == request[r].call
<1>1. /\ request \in [Requests -> Request] /\ copy \in [Requests \cup {Webhook} -> Row]
      /\ row \in Row /\ l \in Row /\ hook \in 0..Len(events) /\ Webhook \notin Requests
      /\ \A i \in DOMAIN events : events[i].sub \in Subs
  BY Types DEF Agreement
<1>2. /\ r \in Unsaved /\ r \in InFlight /\ call \in Call
      /\ UNCHANGED <<paddle, events, settled, hook>>
  BY <1>1 DEF Save, Unsaved, InFlight, Request
<1>3. /\ Wanted(r) \in Row /\ row' = IF l = row THEN Wanted(r) ELSE row
      /\ Wanted(r) = l \/ l = row
      /\ call = "delete" /\ l.sub = NoSub => events = <<>>
  <2>1. Wanted(r) \in Row
    BY WantedIsRow DEF BaseInv
  <2>2. /\ Wanted(r) = l \/ l = row
        /\ call = "delete" /\ l.sub = NoSub => events = <<>>
    BY DEF Save, Overlaps, Noted
  <2> QED BY <2>1, <2>2, FlushWhole DEF Save
<1>4. /\ request'[r].stage = "idle" /\ copy'[Webhook] = copy[Webhook]
      /\ \A q \in Requests : q # r => request'[q] = request[q] /\ copy'[q] = copy[q]
  BY <1>1 DEF Save, Over, Idle
<1>5. /\ Applied' = Applied \ {r} /\ Writers' = Writers \ {r}
      /\ \A q \in Writers' : Wanted(q)' = Wanted(q)
  <2>1. Unsaved' = Unsaved \ {r}
    BY <1>4 DEF Unsaved
  <2>2. Applied' = Applied \ {r}
    BY <1>4, <2>1 DEF Applied, Unsaved
  <2>3. Writers' = Writers \ {r}
    BY <1>4, <2>2 DEF Writers, Applied, Unsaved
  <2>4. ASSUME NEW q \in Writers' PROVE Wanted(q)' = Wanted(q)
    <3>1. copy'[q] = copy[q] /\ request'[q] = request[q]
      BY <1>4, <2>3, <2>4 DEF Writers, Applied, Unsaved
    <3> QED BY <3>1 DEF Wanted, Cleared
  <2> QED BY <2>2, <2>3, <2>4
<1>6. OneLive' /\ QueueFits' /\ PlanOnlyWithSub'
  <2>1. OneLive' /\ QueueFits'
    BY <1>2 DEF Agreement, OneLive, QueueFits, Live, IsCharge
  <2>2. \/ Wanted(r).deleted
        \/ /\ Wanted(r).plan = l.plan /\ Wanted(r).sub = l.sub
           /\ Wanted(r).deleted = l.deleted
    BY <1>1, <1>2 DEF Wanted, Call, Row
  <2>3. PlanOnlyWithSub'
    BY <1>3, <2>2 DEF Agreement, PlanOnlyWithSub
  <2> QED BY <2>1, <2>3
<1>7. AppliedAlone' /\ WriterFits'
  <2>1. AppliedAlone'
    BY <1>5 DEF Agreement, AppliedAlone
  <2>2. \A q \in Writers' : q \in Writers /\ copy'[q] = copy[q] /\ request'[q] = request[q]
    BY <1>4, <1>5 DEF Writers, Applied, Unsaved
  <2> QED BY <1>2, <2>1, <2>2 DEF Agreement, WriterFits, Live, IsCharge
<1>8. ASSUME NEW w \in Row, w = row', Settles(w), Writers' = {}, DeletedIsFree',
             hook # 0 /\ IsCharge(hook) /\ copy[Webhook] = Renewed(events[hook], copy[Webhook])
                 => row' = copy[Webhook]
      PROVE  Agreement'
  <2>1. Settles(row)'
    BY <1>2, <1>8 DEF Settles, Matches, Live, IsCharge
  <2>2. HookFits'
    BY <1>2, <1>4, <1>8 DEF Agreement, HookFits, IsCharge, Renewed
  <2> QED BY <1>6, <1>7, <1>8, <2>1, <2>2 DEF Agreement, RowSettles, WritersSettle, RidesLive
<1>9. CASE r \in Writers
  <2>1. \A q \in Writers : q = r
    BY <1>9 DEF Writers, Agreement, AppliedAlone
  <2>2. call # "upgrade" /\ l.sub # NoSub
    BY <1>9 DEF Writers, Applied
  <2>3. /\ call = "keep" => l.pending # NoPlan
        /\ call = "downgrade" => request[r].plan # l.pending
        /\ call = "cancel" => l.cancels = FALSE
        /\ call = "resume" => l.cancels = TRUE
    BY <1>1, <1>2 DEF AskedForCause, Row
  <2>4. Wanted(r) # l
    <3>1. call = "keep" => Wanted(r).pending = NoPlan
      BY <1>1 DEF Wanted, Row
    <3>2. call = "downgrade" => Wanted(r).pending = request[r].plan
      BY <1>1 DEF Wanted, Row
    <3>3. call = "cancel" => Wanted(r).cancels = TRUE
      BY <1>1 DEF Wanted, Row
    <3>4. call = "resume" => Wanted(r).cancels = FALSE
      BY <1>1 DEF Wanted, Row
    <3>5. call = "delete" => Wanted(r).sub = NoSub
      BY <1>1 DEF Wanted, Cleared, Row
    <3> HIDE DEF l, call
    <3> QED BY <1>2, <2>2, <2>3, <3>1, <3>2, <3>3, <3>4, <3>5 DEF Call
  <2>5. l = row /\ row' = Wanted(r)
    BY <1>3, <2>4
  <2>6. Settles(Wanted(r))
    BY <1>9, <2>5 DEF Agreement, WritersSettle
  <2>7. ASSUME hook # 0, IsCharge(hook), copy[Webhook] = Renewed(events[hook], copy[Webhook])
        PROVE  FALSE
    <3>1. hook = 1 /\ row = copy[Webhook] /\ events # <<>>
      BY <1>1, <2>7 DEF Agreement, HookFits
    <3>2. row = Renewed(events[1], copy[Webhook])
      BY <2>7, <3>1
    <3>3. copy[r] # Renewed(events[1], copy[Webhook])
      BY <1>9, <2>7, <3>1, NotRenewed DEF Agreement
    <3> QED BY <2>5, <3>2, <3>3
  <2>8. PICK w \in Row : w = Wanted(r)
    BY <1>3
  <2>9. Writers' = {}
    BY <1>5, <2>1
  <2>10. Settles(w)
    BY <2>6, <2>8
  <2>11. DeletedIsFree'
    <3>1. call # "delete" => Wanted(r).deleted = l.deleted
      BY <1>1, <1>2 DEF Wanted, Call, Row
    <3>2. ~l.deleted
      BY <1>2 DEF BaseInv, AskedInTime
    <3>3. CASE call = "delete"
      <4>1. \A s \in Subs : ~Live(s)
        BY <1>9, <3>3 DEF Agreement, WriterFits
      <4>2. Wanted(r).sub = NoSub
        BY <3>3 DEF Wanted, Cleared
      <4> QED BY <1>2, <2>5, <4>1, <4>2 DEF DeletedIsFree, Live
    <3>4. CASE call # "delete"
      BY <2>5, <3>1, <3>2, <3>4 DEF DeletedIsFree
    <3> QED BY <3>3, <3>4
  <2> QED BY <1>8, <2>5, <2>7, <2>8, <2>9, <2>10, <2>11
<1>10. CASE r \in Applied /\ r \notin Writers
  <2>1. call = "upgrade" /\ Writers = {}
    BY <1>10 DEF Writers, Agreement, AppliedAlone
  <2>2. row' = row
    BY <1>1, <1>3, <2>1 DEF Wanted
  <2>3. Settles(row) /\ Writers' = {}
    BY <1>5, <2>1 DEF Agreement, RowSettles
  <2>4. PICK w \in Row : w = row
    BY <1>1
  <2>5. Settles(w) /\ w = row'
    BY <2>2, <2>3, <2>4
  <2>6. hook # 0 /\ IsCharge(hook) /\ copy[Webhook] = Renewed(events[hook], copy[Webhook])
            => row' = copy[Webhook]
    BY <2>2 DEF Agreement, HookFits
  <2>7. DeletedIsFree'
    BY <1>2, <2>2 DEF Agreement, DeletedIsFree, Live
  <2> QED BY <1>8, <2>3, <2>5, <2>6, <2>7
<1>11. CASE r \notin Applied
  <2>1. l.sub = NoSub /\ call = "delete" /\ events = <<>> /\ hook = 0
    <3>1. l.sub = NoSub
      BY <1>2, <1>11 DEF Applied
    <3>2. call = "delete"
      BY <1>2, <3>1 DEF AskedForCause
    <3> QED BY <1>1, <1>3, <3>1, <3>2
  <2>2. ~l.deleted
    BY <1>2 DEF BaseInv, AskedInTime
  <2>3. Wanted(r).deleted = TRUE /\ Wanted(r).sub = NoSub
    BY <1>1, <2>1 DEF Wanted, Cleared, Row
  <2>4. l = row /\ row' = Wanted(r)
    BY <1>3, <2>2, <2>3
  <2>5. Applied' = Applied /\ Writers' = Writers
    BY <1>5, <1>11 DEF Writers
  <2>6. HookFits'
    BY <1>2, <2>1 DEF HookFits
  <2>7. \A s \in Subs : ~Live(s)
    <3>1. CASE Writers = {}
      <4>1. Matches(row)
        BY <2>1, <3>1 DEF Agreement, RowSettles, Settles
      <4> QED BY <2>1, <2>4, <4>1 DEF Matches
    <3>2. CASE Writers # {}
      <4>1. NoSub \notin Subs
        BY Types
      <4> QED BY <2>1, <2>4, <3>2, <4>1 DEF Agreement, RidesLive
    <3> QED BY <3>1, <3>2
  <2>8. RidesLive' /\ DeletedIsFree'
    BY <1>2, <2>3, <2>4, <2>7 DEF RidesLive, DeletedIsFree, Live
  <2>9. RowSettles'
    <3> SUFFICES ASSUME Writers = {} PROVE Settles(row)'
      BY <2>5 DEF RowSettles
    <3>1. \A s \in Subs : ~Live(s)
      BY <2>7
    <3>2. row'.sub = NoSub /\ events' = <<>>
      BY <1>2, <2>1, <2>3, <2>4
    <3> QED BY <1>2, <3>1, <3>2 DEF Settles, Matches, Live
  <2>10. WritersSettle'
    <3> SUFFICES ASSUME NEW q \in Writers, row' = copy'[q] PROVE FALSE
      BY <2>5 DEF WritersSettle
    <3>1. q \in InFlight /\ q # r
      BY <1>11 DEF Writers, Applied, Unsaved, InFlight
    <3>2. ~copy[q].deleted
      BY <3>1 DEF BaseInv, AskedInTime
    <3>3. copy'[q] = copy[q]
      BY <1>4, <3>1 DEF InFlight
    <3>4. row'.deleted = TRUE
      BY <2>3, <2>4
    <3> QED BY <3>2, <3>3, <3>4
  <2> QED BY <1>6, <1>7, <2>6, <2>9, <2>10, <2>8 DEF Agreement
<1> QED BY <1>9, <1>10, <1>11

-----------------------------------------------------------------------------
(* Agreement, across the webhooks. *)

(* The handler has loaded the row as it is. *)
LEMMA ReceiveAgrees ==
    ASSUME BaseInv, Agreement, NEW i \in DOMAIN events, Receive(i),
           trouble = "none", trouble' = "none"
    PROVE  Agreement'
<1>1. copy \in [Requests \cup {Webhook} -> Row] /\ Webhook \notin Requests
  BY Types
<1>2. i = 1 /\ hook' = 1 /\ copy'[Webhook] = row /\ \A r \in Requests : copy'[r] = copy[r]
  BY <1>1 DEF Receive, Note, Noted
<1>3. SameApplied /\ SameAtPaddle
  BY <1>2, NoRequest DEF Receive, SameAtPaddle, Live
<1>4. HookFits'
  BY <1>2 DEF Receive, HookFits
<1> QED BY <1>3, <1>4, StaysAgreed DEF Receive

LEMMA AbandonHookAgrees ==
    ASSUME BaseInv, Agreement, AbandonHook
    PROVE  Agreement'
<1>1. copy \in [Requests \cup {Webhook} -> Row] /\ Webhook \notin Requests
  BY Types
<1>2. hook' = 0 /\ \A r \in Requests : copy'[r] = copy[r]
  BY <1>1 DEF AbandonHook
<1>3. SameApplied /\ SameAtPaddle /\ HookFits'
  BY <1>2, NoRequest DEF AbandonHook, SameAtPaddle, Live, HookFits
<1> QED BY <1>3, StaysAgreed DEF AbandonHook

(* The head of the queue is acknowledged: what does not depend on the row. *)
LEMMA QueueShrinks ==
    ASSUME BaseInv, Agreement, events # <<>>, events' = RemoveAt(events, 1), hook' = 0,
           UNCHANGED <<paddle, request>>, \A r \in Requests : copy'[r] = copy[r],
           \A m \in settled' : m \in settled \/ (IsCharge(1) /\ m = events[1].n)
    PROVE  /\ OneLive' /\ QueueFits' /\ HookFits' /\ AppliedAlone' /\ WriterFits'
           /\ Writers' = Writers /\ \A r \in Writers : Wanted(r)' = Wanted(r)
<1>1. /\ QueueFits'
      /\ \A i \in DOMAIN events' : /\ i + 1 \in DOMAIN events /\ events'[i] = events[i + 1]
                                   /\ events'[i].kind = "charge"
  BY HeadRemoved DEF Agreement
<1>2. SameApplied /\ Writers' = Writers /\ \A r \in Writers : Wanted(r)' = Wanted(r)
  BY NoRequest, WritersKept
<1>3. OneLive' /\ HookFits' /\ AppliedAlone'
  BY <1>2 DEF Agreement, OneLive, Live, HookFits, AppliedAlone, SameApplied
<1>4. WriterFits'
  <2>1. ASSUME NEW r \in Writers, NEW i \in DOMAIN events'
        PROVE  events'[i].plan = paddle[events'[i].sub].item
    BY <1>1 DEF Agreement, WriterFits, IsCharge
  <2>2. \A r \in Writers : r \in Applied
    BY DEF Writers
  <2>3. \A r \in Writers : /\ copy'[r] = copy[r] /\ request'[r].call = request[r].call
                           /\ request'[r].plan = request[r].plan
    BY <1>2, <2>2 DEF SameApplied
  <2> QED BY <1>2, <2>1, <2>3 DEF Agreement, WriterFits, IsCharge, Live
<1> QED BY <1>1, <1>2, <1>3, <1>4

(* What comes next in the queue, if anything, is a charge of what is live. *)
LEMMA NextEvent ==
    ASSUME BaseInv, Agreement, events # <<>>, events' = RemoveAt(events, 1), UNCHANGED paddle
    PROVE  /\ events' # <<>> => /\ Len(events) > 1 /\ events'[1] = events[2]
                                /\ events'[1].kind = "charge"
                                /\ Live(events[2].sub)
           /\ events' = <<>> => Len(events) = 1
<1>1. /\ events \in Seq(Event) /\ Len(events) \in Nat /\ DOMAIN events = 1..Len(events)
      /\ Len(events) >= 1
  BY Types
<1>2. /\ events' \in Seq(Event) /\ Len(events') = Len(events) - 1
      /\ \A i \in 1..(Len(events) - 1) : events'[i] = events[i + 1]
  BY <1>1 DEF RemoveAt
<1>3. events' = <<>> => Len(events) = 1
  BY <1>1, <1>2
<1>4. ASSUME events' # <<>>
      PROVE  /\ Len(events) > 1 /\ events'[1] = events[2] /\ events'[1].kind = "charge"
             /\ Live(events[2].sub)
  <2>1. Len(events) > 1
    BY <1>1, <1>2, <1>4
  <2>2. 1 \in 1..(Len(events) - 1) /\ 2 \in DOMAIN events
    BY <1>1, <2>1
  <2>3. events'[1] = events[2]
    BY <1>2, <2>2
  <2>4. events[2].kind = "charge" /\ Live(events[2].sub)
    BY <2>2 DEF Agreement, QueueFits, IsCharge
  <2> QED BY <2>1, <2>3, <2>4
<1> QED BY <1>3, <1>4

(* Nothing is live once the last webhook tells of an end. *)
LEMMA EndIsLast ==
    ASSUME BaseInv, Agreement, events # <<>>, ~IsCharge(1), NEW s \in Subs, Live(s)
    PROVE  Len(events) > 1
<1>1. Len(events) \in Nat /\ Len(events) >= 1
  BY Types
<1>2. IsCharge(Len(events))
  BY DEF Agreement, QueueFits
<1> QED BY <1>1, <1>2

(* A webhook that is not the row's own says that what the row does not     *)
(* ride has ended.                                                         *)
LEMMA IgnoreAgrees ==
    ASSUME BaseInv, Agreement, NEW i \in DOMAIN events, Ignore(i),
           trouble = "none", trouble' = "none"
    PROVE  Agreement'
<1>1. /\ 1 \in DOMAIN events /\ events # <<>> /\ events' = RemoveAt(events, 1) /\ hook' = 0
      /\ UNCHANGED <<row, paddle, settled, request, copy>>
      /\ ~IsOurs(events[1]) \/ AlreadySettled(events[1])
  <2>1. i = 1
    BY DEF Ignore, Note, Noted
  <2>2. events # <<>>
    BY Types
  <2> QED BY <2>1, <2>2 DEF Ignore
<1>2. /\ row.sub # events[1].sub
      /\ row.sub = NoSub /\ IsCharge(1) => ~events[1].named
  <2>1. ~AlreadySettled(events[1])
    BY <1>1 DEF AlreadySettled, Agreement, QueueFits, IsCharge
  <2>2. events[1].sub # NoSub
    BY <1>1, Types DEF Agreement
  <2> QED BY <1>1, <2>1, <2>2 DEF IsOurs, Tracked, IsCharge
<1>3. /\ OneLive' /\ QueueFits' /\ HookFits' /\ AppliedAlone' /\ WriterFits'
      /\ Writers' = Writers /\ \A r \in Writers : Wanted(r)' = Wanted(r)
  BY <1>1, QueueShrinks
<1>4. /\ events' # <<>> => /\ Len(events) > 1 /\ events'[1] = events[2]
                           /\ events'[1].kind = "charge" /\ Live(events[2].sub)
                           /\ events[2].sub \in Subs
      /\ events' = <<>> => Len(events) = 1
  <2>1. Len(events) > 1 => 2 \in DOMAIN events
    BY Types
  <2>2. Len(events) > 1 => events[2].sub \in Subs
    BY <2>1, Types DEF Agreement
  <2> QED BY <1>1, <2>2, NextEvent
<1>5. RowSettles'
  <2> SUFFICES ASSUME Writers = {} PROVE Settles(row)'
    BY <1>3 DEF RowSettles
  <2>1. Settles(row)
    BY DEF Agreement, RowSettles
  <2>2. row.sub = NoSub /\ ~IsCharge(1) /\ (Len(events) > 1 => events[2].named)
    BY <1>1, <1>2, <2>1 DEF Settles
  <2>3. events' = <<>> => \A s \in Subs : ~Live(s)
    BY <1>1, <1>4, <2>2, EndIsLast
  <2> QED BY <1>1, <1>4, <2>2, <2>3 DEF Settles, Matches, Live, IsCharge
<1>6. WritersSettle'
  <2> SUFFICES ASSUME NEW r \in Writers, row' = copy'[r] PROVE Settles(Wanted(r))'
    BY <1>3 DEF WritersSettle
  <2>1. row = copy[r]
    BY <1>1
  <2>2. Settles(Wanted(r)) /\ row.sub # NoSub
    BY <2>1 DEF Agreement, WritersSettle, Writers, Applied
  <2>3. row \in Row /\ request[r].call \in Call
    BY Types DEF Writers, Applied, Unsaved, Request
  <2>4. request[r].call # "delete" => Wanted(r).sub = row.sub
    BY <2>1, <2>3 DEF Wanted, Call, Row
  <2>5. request[r].call = "delete" /\ Wanted(r).sub = NoSub
    <3>1. Wanted(r).sub = events[1].sub \/ Wanted(r).sub = NoSub
      BY <1>1, <2>2 DEF Settles
    <3>2. request[r].call = "delete"
      BY <1>2, <2>2, <2>4, <3>1
    <3> QED BY <3>2 DEF Wanted, Cleared
  <2>6. \A s \in Subs : ~Live(s)
    BY <2>5 DEF Agreement, WriterFits
  <2>7. events' = <<>>
    BY <1>4, <2>6
  <2> QED BY <1>1, <1>3, <2>5, <2>6, <2>7 DEF Settles, Matches, Live
<1>7. RidesLive' /\ DeletedIsFree'
  BY <1>1, <1>3, <1>4 DEF Agreement, RidesLive, DeletedIsFree, Live, IsCharge
<1>8. PlanOnlyWithSub'
  BY <1>1 DEF Agreement, PlanOnlyWithSub
<1> QED BY <1>3, <1>5, <1>6, <1>7, <1>8 DEF Agreement

(* The webhook handled is the head of the queue, and the row is as it      *)
(* loaded it, or it has nothing to change.                                 *)
LEMMA HandledHead ==
    ASSUME BaseInv, Agreement, hook # 0, NEW w \in Row, NEW again \in BOOLEAN,
           Handled(w, again), trouble = "none", trouble' = "none"
    PROVE  /\ hook = 1 /\ 1 \in DOMAIN events /\ events # <<>>
           /\ events' = RemoveAt(events, 1) /\ hook' = 0
           /\ UNCHANGED <<paddle, request>> /\ \A r \in Requests : copy'[r] = copy[r]
           /\ w = copy[Webhook] \/ copy[Webhook] = row
           /\ row' = IF copy[Webhook] = row THEN w ELSE row
<1>1. /\ copy \in [Requests \cup {Webhook} -> Row] /\ Webhook \notin Requests
      /\ hook \in 0..Len(events)
  BY Types
<1>2. hook = 1
  BY DEF Agreement, HookFits
<1>3. 1 \in DOMAIN events /\ events # <<>>
  BY <1>2, Types
<1>4. ~again /\ (w = copy[Webhook] \/ copy[Webhook] = row)
  BY DEF Handled, Overlaps, Noted
<1>5. row' = IF copy[Webhook] = row THEN w ELSE row
  BY <1>4, FlushWhole DEF Handled
<1> QED BY <1>1, <1>2, <1>3, <1>4, <1>5 DEF Handled, Acknowledged

(* The row rides what is live, on the plan of the charge: if it is the     *)
(* last, the plan Paddle renews.                                           *)
LEMMA ApplyRenewalAgrees ==
    ASSUME BaseInv, AskedForCause, Agreement, NEW again \in BOOLEAN, ApplyRenewal(again),
           trouble = "none", trouble' = "none"
    PROVE  Agreement'
<1> DEFINE l == copy[Webhook]
           w == Renewed(events[hook], l)
<1>1. hook # 0 /\ IsCharge(hook) /\ hook \in DOMAIN events /\ l \in Row
  BY Types DEF ApplyRenewal, IsCharge
<1>2. w \in Row
  BY <1>1, Types, WantedIsRow DEF BaseInv
<1>3. Handled(w, again) /\ settled' = settled \cup {events[hook].n}
  BY DEF ApplyRenewal
<1>4. /\ hook = 1 /\ 1 \in DOMAIN events /\ events # <<>>
      /\ events' = RemoveAt(events, 1) /\ hook' = 0
      /\ UNCHANGED <<paddle, request>> /\ \A r \in Requests : copy'[r] = copy[r]
      /\ w = l \/ l = row
      /\ row' = IF l = row THEN w ELSE row
  <2> HIDE DEF w
  <2> QED BY <1>1, <1>2, <1>3, HandledHead
<1>5. row' = w /\ events[1].sub \in Subs /\ events[1].sub # NoSub
  BY <1>1, <1>4, Types DEF Agreement, HookFits
<1>6. /\ OneLive' /\ QueueFits' /\ HookFits' /\ AppliedAlone' /\ WriterFits'
      /\ Writers' = Writers /\ \A r \in Writers : Wanted(r)' = Wanted(r)
  BY <1>1, <1>3, <1>4, QueueShrinks
<1>7. /\ events' # <<>> => /\ Len(events) > 1 /\ events'[1] = events[2]
                           /\ events'[1].kind = "charge" /\ Live(events[2].sub)
      /\ events' = <<>> => Len(events) = 1
  BY <1>4, NextEvent
<1>8. RowSettles'
  <2>1. /\ row'.sub = events[1].sub /\ row'.plan = events[1].plan
        /\ row'.cancels = FALSE /\ row'.pending = NoPlan
    BY <1>4, <1>5 DEF Renewed
  <2>2. /\ events[1].sub \in Subs /\ Live(events[1].sub) /\ paddle[events[1].sub].ending = FALSE
    BY <1>1, <1>4, Types DEF Agreement, QueueFits, Subscription
  <2>3. Len(events) = 1 => paddle[events[1].sub].item = events[1].plan
    BY <1>4, <2>2 DEF Agreement, QueueFits
  <2>4. Len(events) > 1 => events[2].sub \in Subs
    <3>1. Len(events) > 1 => 2 \in DOMAIN events
      BY Types
    <3> QED BY <3>1, Types DEF Agreement
  <2>5. events' # <<>> => events'[1].sub = row'.sub
    BY <1>7, <2>1, <2>2, <2>4 DEF Agreement, OneLive
  <2>6. NoSub \notin Subs
    BY Types
  <2>7. events' = <<>> => Matches(row)'
    BY <1>4, <1>7, <2>1, <2>2, <2>3, <2>6 DEF Matches, Live
  <2>8. Settles(row)'
    BY <1>7, <2>5, <2>7 DEF Settles, IsCharge
  <2> QED BY <2>8 DEF RowSettles
<1>9. WritersSettle'
  <2> SUFFICES ASSUME NEW r \in Writers, row' = copy'[r] PROVE FALSE
    BY <1>6 DEF WritersSettle
  <2>1. copy[r] = Renewed(events[1], l)
    BY <1>4, <1>5 DEF Writers, Applied, Unsaved
  <2> QED BY <1>1, <1>4, <2>1, NotRenewed DEF Agreement
<1>10. RidesLive' /\ DeletedIsFree'
  <2>1. row'.sub = events[1].sub
    BY <1>4, <1>5 DEF Renewed
  <2>2. events[1].sub \in Subs /\ Live(events[1].sub)
    BY <1>1, <1>4, Types DEF Agreement, QueueFits
  <2>3. \A s \in Subs : Live(s) => s = row'.sub
    BY <2>1, <2>2 DEF Agreement, OneLive
  <2>4. ~row.deleted
    BY <2>2 DEF Agreement, DeletedIsFree
  <2>5. ~row'.deleted
    BY <1>4, <1>5, <2>4 DEF Renewed
  <2> QED BY <1>4, <1>7, <2>3, <2>5 DEF RidesLive, DeletedIsFree, Live, IsCharge
<1>11. PlanOnlyWithSub'
  BY <1>5, <1>4 DEF PlanOnlyWithSub, Renewed
<1> QED BY <1>6, <1>8, <1>9, <1>10, <1>11 DEF Agreement

(* The row rides nothing, and what is live, if anything, was paid for in a *)
(* checkout, whose charge comes next.                                      *)
LEMMA ExpireSubscriptionAgrees ==
    ASSUME BaseInv, Agreement, NEW again \in BOOLEAN, ExpireSubscription(again),
           trouble = "none", trouble' = "none"
    PROVE  Agreement'
<1> DEFINE l == copy[Webhook]
           w == Cleared(l)
<1>1. hook # 0 /\ ~IsCharge(hook) /\ hook \in DOMAIN events /\ l \in Row
  BY Types DEF ExpireSubscription, IsCharge
<1>2. w \in Row
  BY <1>1, WantedIsRow DEF BaseInv
<1>3. Handled(w, again) /\ settled' = settled
  BY DEF ExpireSubscription
<1>4. /\ hook = 1 /\ 1 \in DOMAIN events /\ events # <<>>
      /\ events' = RemoveAt(events, 1) /\ hook' = 0
      /\ UNCHANGED <<paddle, request>> /\ \A r \in Requests : copy'[r] = copy[r]
      /\ w = l \/ l = row
      /\ row' = IF l = row THEN w ELSE row
  <2> HIDE DEF w
  <2> QED BY <1>1, <1>2, <1>3, HandledHead
<1>5. row' = w /\ w.sub = NoSub
  <2>1. l.sub = events[hook].sub /\ events[hook].sub \in Subs /\ NoSub \notin Subs
    BY <1>1, Types DEF Agreement, BaseInv, HookSeesRow, IsCharge
  <2>2. w.sub = NoSub
    BY DEF Cleared
  <2>3. w # l
    BY <2>1, <2>2
  <2> QED BY <1>4, <2>2, <2>3
<1>6. /\ OneLive' /\ QueueFits' /\ HookFits' /\ AppliedAlone' /\ WriterFits'
      /\ Writers' = Writers /\ \A r \in Writers : Wanted(r)' = Wanted(r)
  BY <1>3, <1>4, QueueShrinks
<1>7. /\ events' # <<>> => /\ Len(events) > 1 /\ events'[1] = events[2]
                           /\ events'[1].kind = "charge" /\ Live(events[2].sub)
      /\ events' = <<>> => Len(events) = 1
  BY <1>4, NextEvent
<1>8. RowSettles'
  <2> SUFFICES ASSUME Writers = {} PROVE Settles(row)'
    BY <1>6 DEF RowSettles
  <2>1. Len(events) > 1 => events[2].named
    BY <1>1, <1>4 DEF Agreement, RowSettles, Settles
  <2>2. events' = <<>> => \A s \in Subs : ~Live(s)
    BY <1>1, <1>4, <1>7, EndIsLast
  <2> QED BY <1>4, <1>5, <1>7, <2>1, <2>2 DEF Settles, Matches, Live, IsCharge
<1>9. WritersSettle'
  <2> SUFFICES ASSUME NEW r \in Writers, row' = copy'[r] PROVE FALSE
    BY <1>6 DEF WritersSettle
  <2>1. copy[r].sub = NoSub
    BY <1>4, <1>5 DEF Writers, Applied, Unsaved
  <2> QED BY <2>1 DEF Writers, Applied
<1>10. RidesLive' /\ DeletedIsFree'
  <2>1. Writers # {} => \A s \in Subs : ~Live(s)
    BY <1>1, <1>4 DEF Agreement, RidesLive
  <2>2. row'.deleted = row.deleted
    BY <1>4, <1>5 DEF Cleared
  <2> QED BY <1>4, <1>5, <1>6, <2>1, <2>2 DEF Agreement, RidesLive, DeletedIsFree, Live
<1>11. PlanOnlyWithSub'
  BY <1>5 DEF PlanOnlyWithSub, Cleared
<1> QED BY <1>6, <1>8, <1>9, <1>10, <1>11 DEF Agreement

(* A step that makes no trouble, where there was none, keeps agreement. *)
LEMMA StepAgrees ==
    ASSUME BaseInv, AskedForCause, Agreement, [Next]_vars, trouble = "none", trouble' = "none"
    PROVE  Agreement'
<1>1. CASE UNCHANGED vars
  <2>1. SameApplied /\ SameAtPaddle /\ HookFits'
    BY <1>1, NoRequest DEF vars, SameAtPaddle, Live, Agreement, HookFits, IsCharge
  <2> QED BY <1>1, <2>1, StaysAgreed DEF vars
<1>2. ASSUME NEW s \in Subs, OpenCheckout(s) \/ Renew(s) \/ PeriodOver(s) PROVE Agreement'
  BY <1>2, OpenCheckoutAgrees, RenewAgrees, PeriodOverAgrees
<1>3. ASSUME NEW s \in Subs, NEW p \in Plans, Pay(s, p) PROVE Agreement'
  BY <1>3, PayAgrees
<1>4. ASSUME NEW r \in Requests, Owner(r) \/ Apply(r) \/ Save(r) \/ GiveUp(r) PROVE Agreement'
  BY <1>4, OwnerAgrees, ApplyAgrees, SaveAgrees, GiveUpAgrees
<1>5. ASSUME NEW i \in Deliverable, Receive(i) \/ Ignore(i) PROVE Agreement'
  <2>1. i \in DOMAIN events
    BY DEF Deliverable
  <2> QED BY <1>5, <2>1, ReceiveAgrees, IgnoreAgrees
<1>6. ASSUME NEW again \in Again, ApplyRenewal(again) \/ ExpireSubscription(again)
      PROVE  Agreement'
  <2>1. again \in BOOLEAN
    BY DEF Again
  <2> QED BY <1>6, <2>1, ApplyRenewalAgrees, ExpireSubscriptionAgrees
<1>7. AbandonHook => Agreement'
  BY AbandonHookAgrees
<1>8. ASSUME NEW p \in Plans, OneOff(p) PROVE FALSE
  BY <1>8 DEF OneOff, Note, Noted
<1> QED BY <1>1, <1>2, <1>3, <1>4, <1>5, <1>6, <1>7, <1>8 DEF Next, Commit

(* Trouble, once there was any, is never forgotten. *)
LEMMA TroubleStays ==
    ASSUME BaseInv, [Next]_vars, trouble # "none"
    PROVE  trouble' # "none"
<1>1. ASSUME NEW kind, NEW b, Note(kind, b) PROVE trouble' = trouble
  BY <1>1 DEF Note, Noted
<1>2. ASSUME NEW s \in Subs, OpenCheckout(s) \/ Renew(s) \/ PeriodOver(s) PROVE trouble' = trouble
  BY <1>2 DEF OpenCheckout, Renew, PeriodOver
<1>3. ASSUME NEW s \in Subs, NEW p \in Plans, Pay(s, p) PROVE trouble' = trouble
  BY <1>3 DEF Pay, Note, Noted
<1>4. ASSUME NEW r \in Requests, Owner(r) PROVE trouble' = trouble
  BY <1>4 DEF Owner, AskChange, AskCancel, AskResume, AskDelete, Ask
<1>5. ASSUME NEW r \in Requests, Apply(r) \/ Save(r) PROVE trouble' = trouble
  BY <1>5 DEF Apply, Save, Noted
<1>6. ASSUME NEW r \in Requests, GiveUp(r) PROVE trouble' = trouble
  BY <1>6 DEF GiveUp, Note, Noted
<1>7. ASSUME NEW i \in Deliverable, Receive(i) \/ Ignore(i) PROVE trouble' = trouble
  BY <1>7 DEF Receive, Ignore, Note, Noted
<1>8. ASSUME NEW again \in Again, ApplyRenewal(again) \/ ExpireSubscription(again)
      PROVE  trouble' = trouble
  BY <1>8 DEF ApplyRenewal, ExpireSubscription, Handled, Noted
<1>9. AbandonHook \/ UNCHANGED vars => trouble' = trouble
  BY DEF AbandonHook, vars
<1>10. ASSUME NEW p \in Plans, OneOff(p) PROVE trouble' = trouble
  BY <1>10 DEF OneOff, Note, Noted
<1> QED BY <1>2, <1>3, <1>4, <1>5, <1>6, <1>7, <1>8, <1>9, <1>10 DEF Next, Commit

LEMMA InitAgrees == Init => AskedForCause /\ Agreement
<1> SUFFICES ASSUME Init PROVE AskedForCause /\ Agreement
  OBVIOUS
<1>1. InFlight = {} /\ Applied = {} /\ Writers = {}
  BY DEF Init, InFlight, Idle, Applied, Unsaved, Writers
<1>2. \A s \in Subs : ~Live(s)
  BY DEF Init, Live
<1>3. events = <<>> /\ DOMAIN events = {} /\ hook = 0 /\ row.sub = NoSub
  BY DEF Init, NewRow
<1>4. OneLive /\ QueueFits /\ HookFits /\ PlanOnlyWithSub
  BY <1>2, <1>3 DEF OneLive, QueueFits, HookFits, PlanOnlyWithSub, Init, NewRow
<1>5. AskedForCause /\ AppliedAlone /\ WriterFits /\ WritersSettle
  BY <1>1 DEF AskedForCause, AppliedAlone, WriterFits, WritersSettle
<1>6. RowSettles /\ RidesLive /\ DeletedIsFree
  BY <1>1, <1>2, <1>3 DEF RowSettles, Settles, Matches, RidesLive, DeletedIsFree
<1> QED BY <1>4, <1>5, <1>6 DEF Agreement

(* The invariant holds of every reachable state: what the rows, the        *)
(* webhooks, Paddle and the requests under way have to do with each other. *)
THEOREM Inductive == Spec => []IInv
<1>1. Init => IInv
  BY InitBase, InitAgrees DEF IInv
<1>2. IInv /\ [Next]_vars => IInv'
  <2> SUFFICES ASSUME IInv, [Next]_vars PROVE IInv'
    OBVIOUS
  <2>1. BaseInv' /\ AskedForCause'
    BY StepPreserves, StepCause DEF IInv
  <2>2. ASSUME trouble' = "none" PROVE Agreement'
    <3>1. trouble = "none"
      BY <2>2, TroubleStays DEF IInv
    <3> QED BY <2>2, <3>1, StepAgrees DEF IInv
  <2> QED BY <2>1, <2>2 DEF IInv
<1> QED BY <1>1, <1>2, PTL DEF Spec

(* While each step begins after the one before had its effect, the row     *)
(* says what Paddle does whenever nothing is in flight, whatever plans     *)
(* were changed, canceled, resumed or renewed before, and a deleted        *)
(* account is not billed.                                                  *)
THEOREM AgreementAtRest == Spec => []AgreesAtRest
<1>1. IInv => AgreesAtRest
  <2> SUFFICES ASSUME IInv, AtRest, trouble = "none" 
               PROVE  Matches(row) /\ (row.deleted => row.sub = NoSub)
    BY DEF AgreesAtRest
  <2>1. Writers = {} /\ events = <<>>
    BY DEF AtRest, Writers, Applied, Unsaved, InFlight
  <2> QED BY <2>1 DEF IInv, Agreement, RowSettles, Settles, DeletedIsFree
<1> QED BY <1>1, Inductive, PTL

-----------------------------------------------------------------------------
(* The safety halves of PaidIsSettled and EndedIsForgotten: the webhook    *)
(* that has to come is there.                                              *)

(* Acknowledging one webhook loses no other, nor changes their order. *)
LEMMA RemoveAtSpares ==
    ASSUME NEW S, NEW q \in Seq(S), NEW i \in DOMAIN q
    PROVE  /\ DOMAIN RemoveAt(q, i) = 1..(Len(q) - 1)
           /\ \A k \in DOMAIN q : k < i => RemoveAt(q, i)[k] = q[k]
           /\ \A k \in DOMAIN q : k > i => RemoveAt(q, i)[k - 1] = q[k]
<1> DEFINE before == SubSeq(q, 1, i - 1)
           after == SubSeq(q, i + 1, Len(q))
<1>1. /\ before \in Seq(S) /\ Len(before) = i - 1
      /\ \A j \in 1..(i - 1) : before[j] = q[j]
  OBVIOUS
<1>2. /\ after \in Seq(S) /\ Len(after) = Len(q) - i
      /\ \A j \in 1..(Len(q) - i) : after[j] = q[j + i]
  OBVIOUS
<1>3. RemoveAt(q, i) = before \o after
  BY DEF RemoveAt
<1> HIDE DEF before, after
<1>4. DOMAIN RemoveAt(q, i) = 1..(Len(q) - 1)
  BY <1>1, <1>2, <1>3
<1>5. ASSUME NEW k \in DOMAIN q, k < i PROVE RemoveAt(q, i)[k] = q[k]
  BY <1>1, <1>2, <1>3, <1>5
<1>6. ASSUME NEW k \in DOMAIN q, k > i PROVE RemoveAt(q, i)[k - 1] = q[k]
  <2>1. i \in 1..Len(q) /\ k \in 1..Len(q) /\ Len(q) \in Nat
    OBVIOUS
  <2>2. k - i \in 1..(Len(q) - i) /\ (k - i) + i = k /\ k - 1 = (i - 1) + (k - i)
    BY <1>6, <2>1
  <2>3. after[k - i] = q[k]
    BY <1>2, <2>2
  <2>4. k - 1 \in 1..(Len(before) + Len(after)) /\ k - 1 > Len(before)
    BY <1>1, <1>2, <1>6, <2>1
  <2>5. ASSUME NEW b \in Seq(S), NEW a \in Seq(S),
               NEW m \in 1..(Len(b) + Len(a)), m > Len(b)
        PROVE  (b \o a)[m] = a[m - Len(b)]
    BY <2>5
  <2>6. (k - 1) - Len(before) = k - i
    BY <1>1, <2>1
  <2>7. (before \o after)[k - 1] = after[(k - 1) - Len(before)]
    BY <1>1, <1>2, <2>4, <2>5
  <2> QED BY <1>3, <2>3, <2>6, <2>7
<1> QED BY <1>4, <1>5, <1>6

(* A charge of a subscription the row rides, one that its checkout claims  *)
(* for a row that rides none, and one that belongs to no subscription, is  *)
(* in the queue until it is settled.                                       *)
PaymentKept ==
    [][ \A i \in DOMAIN events :
          IsCharge(i) /\ IsOurs(events[i]) =>
            \/ events[i].n \in settled'
            \/ \E k \in DOMAIN events' : events'[k] = events[i] ]_vars

LEMMA RemovedOrKept ==
    ASSUME BaseInv, NEW h \in DOMAIN events, events' = RemoveAt(events, h),
           NEW i \in DOMAIN events, i # h
    PROVE  \E k \in DOMAIN events' : events'[k] = events[i]
<1>1. /\ events \in Seq(Event) /\ Len(events) \in Nat
      /\ i \in 1..Len(events) /\ h \in 1..Len(events)
  BY Types
<1>2. DOMAIN events' = 1..(Len(events) - 1)
  BY <1>1, RemoveAtSpares
<1>3. CASE i < h
  <2>1. i \in DOMAIN events' /\ events'[i] = events[i]
    BY <1>1, <1>2, <1>3, RemoveAtSpares
  <2> QED BY <2>1
<1>4. CASE i > h
  <2>1. i - 1 \in DOMAIN events' /\ events'[i - 1] = events[i]
    BY <1>1, <1>2, <1>4, RemoveAtSpares
  <2> QED BY <2>1
<1> QED BY <1>1, <1>3, <1>4

LEMMA QueuedStays ==
    ASSUME BaseInv, NEW e, events' = events \/ events' = Append(events, e), NEW i \in DOMAIN events
    PROVE  i \in DOMAIN events' /\ events'[i] = events[i]
<1>1. events \in Seq(Event) /\ Len(events) \in Nat /\ i \in 1..Len(events)
  BY Types
<1> QED BY <1>1

(* api/billing.py, services/billing.py: whatever fails, comes late or      *)
(* twice, no webhook of a payment is acknowledged before it is settled.    *)
THEOREM PaymentsKept == Spec => PaymentKept
<1>1. ASSUME BaseInv, [Next]_vars, NEW i \in DOMAIN events, IsCharge(i), IsOurs(events[i]),
             ~(\E k \in DOMAIN events' : events'[k] = events[i])
      PROVE  events[i].n \in settled'
  <2>1. ~(events' = events \/ \E e : events' = Append(events, e))
    BY <1>1, QueuedStays
  <2>2. \/ \E h \in Deliverable : Ignore(h)
        \/ \E again \in Again : ApplyRenewal(again) \/ ExpireSubscription(again)
    BY <1>1, <2>1 DEF Next, vars, OpenCheckout, Renew, PeriodOver, Pay, OneOff, Charged, End, Owner,
         AskChange, AskCancel, AskResume, AskDelete, Ask, Apply, Save, GiveUp, Receive, Commit,
         AbandonHook
  <2>3. ASSUME NEW h \in Deliverable, Ignore(h) PROVE events[i].n \in settled'
    <3>1. h \in DOMAIN events
      BY DEF Deliverable
    <3>2. h = i
      BY <1>1, <2>3, <3>1, RemovedOrKept DEF Ignore
    <3> QED BY <1>1, <2>3, <3>2 DEF Ignore, AlreadySettled, IsCharge
  <2>4. ASSUME NEW again \in Again, ApplyRenewal(again) \/ ExpireSubscription(again)
        PROVE  events[i].n \in settled'
    <3>1. hook # 0 /\ events' = RemoveAt(events, hook)
      BY <2>1, <2>4 DEF ApplyRenewal, ExpireSubscription, Handled, Acknowledged
    <3>2. hook \in DOMAIN events
      BY <1>1, <3>1, Types
    <3>3. hook = i
      BY <1>1, <3>1, <3>2, RemovedOrKept
    <3> QED BY <1>1, <2>4, <3>3 DEF ApplyRenewal, ExpireSubscription, IsCharge
  <2> QED BY <2>2, <2>3, <2>4
<1>2. ASSUME BaseInv, [Next]_vars
      PROVE  \A i \in DOMAIN events :
               IsCharge(i) /\ IsOurs(events[i]) =>
                 \/ events[i].n \in settled'
                 \/ \E k \in DOMAIN events' : events'[k] = events[i]
  BY <1>1, <1>2
<1> QED BY <1>2, BaseInductive, PTL DEF Spec, PaymentKept

(* When webhooks come in order, a row that rides a subscription which has  *)
(* ended is going to be told.                                              *)
IsEnd(i, s) == events[i].kind = "canceled" /\ events[i].sub = s
EndIsOnItsWay ==
    \A s \in Subs :
        row.sub = s /\ paddle[s].status = "canceled" => \E i \in DOMAIN events : IsEnd(i, s)

(* No charge of a subscription that has ended is still to come but before  *)
(* its end.                                                                *)
EndFollowsCharges ==
    \A k \in DOMAIN events :
        IsCharge(k) /\ events[k].sub \in Subs /\ paddle[events[k].sub].status = "canceled" =>
            \E i \in DOMAIN events : k < i /\ IsEnd(i, events[k].sub)

InOrder ==
    /\ hook \in {0, 1}
    /\ EndIsOnItsWay
    /\ EndFollowsCharges

(* Steps that add no webhook, or a charge of what has not ended. *)
LEMMA NothingEnds ==
    ASSUME BaseInv, InOrder, hook' \in {0, 1}, row'.sub \in {row.sub, NoSub},
           NEW e, \/ events' = events
                  \/ (events' = Append(events, e) /\ e.kind = "charge"
                               /\ (e.sub \in Subs => paddle'[e.sub].status # "canceled")),
           \A s \in Subs : paddle'[s].status = "canceled" => paddle[s].status = "canceled"
    PROVE  InOrder'
<1>1. /\ events \in Seq(Event) /\ Len(events) \in Nat /\ DOMAIN events = 1..Len(events)
      /\ NoSub \notin Subs
  BY Types
<1>2. \A i \in DOMAIN events : i \in DOMAIN events' /\ events'[i] = events[i]
  BY QueuedStays
<1>3. \A i \in DOMAIN events' : i \notin DOMAIN events => events'[i] = e /\ events' # events
  BY <1>1
<1>4. EndIsOnItsWay'
  <2> SUFFICES ASSUME NEW s \in Subs, row'.sub = s, paddle'[s].status = "canceled"
               PROVE  \E i \in DOMAIN events' : IsEnd(i, s)'
    BY DEF EndIsOnItsWay
  <2>1. row.sub = s /\ paddle[s].status = "canceled"
    BY <1>1
  <2>2. PICK i \in DOMAIN events : IsEnd(i, s)
    BY <2>1 DEF InOrder, EndIsOnItsWay
  <2> QED BY <1>2, <2>2 DEF IsEnd
<1>5. EndFollowsCharges'
  <2> SUFFICES ASSUME NEW k \in DOMAIN events', IsCharge(k)', events'[k].sub \in Subs,
                      paddle'[events'[k].sub].status = "canceled"
               PROVE  \E i \in DOMAIN events' : k < i /\ IsEnd(i, events[k].sub)'
    BY DEF EndFollowsCharges
  <2>1. k \in DOMAIN events /\ events'[k] = events[k]
    BY <1>2, <1>3
  <2>2. PICK i \in DOMAIN events : k < i /\ IsEnd(i, events[k].sub)
    BY <1>1, <2>1 DEF InOrder, EndFollowsCharges, IsCharge
  <2> QED BY <1>2, <2>1, <2>2 DEF IsEnd
<1> QED BY <1>4, <1>5 DEF InOrder

(* A subscription ends: Paddle says so last. *)
LEMMA EndsLast ==
    ASSUME BaseInv, InOrder, NEW s \in Subs, End(s), UNCHANGED <<row, hook>>
    PROVE  InOrder'
<1>1. /\ events \in Seq(Event) /\ Len(events) \in Nat /\ DOMAIN events = 1..Len(events)
      /\ paddle \in [Subs -> Subscription]
  BY Types
<1>2. events' = Append(events, CanceledEvent(s))
  BY DEF End
<1>3. \A i \in DOMAIN events : i \in DOMAIN events' /\ events'[i] = events[i]
  BY <1>2, QueuedStays
<1>4. /\ DOMAIN events' = 1..(Len(events) + 1)
      /\ events'[Len(events) + 1].kind = "canceled" /\ events'[Len(events) + 1].sub = s
  <2>1. events'[Len(events) + 1] = CanceledEvent(s) /\ DOMAIN events' = 1..(Len(events) + 1)
    BY <1>1, <1>2
  <2> QED BY <2>1 DEF CanceledEvent
<1>5. \A o \in Subs : paddle'[o].status = "canceled" => o = s \/ paddle[o].status = "canceled"
  BY <1>1 DEF End
<1>6. EndIsOnItsWay'
  <2> SUFFICES ASSUME NEW o \in Subs, row.sub = o, paddle'[o].status = "canceled"
               PROVE  \E i \in DOMAIN events' : IsEnd(i, o)'
    BY DEF EndIsOnItsWay
  <2>1. CASE o = s
    BY <1>1, <1>4, <2>1 DEF IsEnd
  <2>2. CASE paddle[o].status = "canceled"
    <3>1. PICK i \in DOMAIN events : IsEnd(i, o)
      BY <2>2 DEF InOrder, EndIsOnItsWay
    <3> QED BY <1>3, <3>1 DEF IsEnd
  <2> QED BY <1>5, <2>1, <2>2
<1>7. EndFollowsCharges'
  <2> SUFFICES ASSUME NEW k \in DOMAIN events', IsCharge(k)', events'[k].sub \in Subs,
                      paddle'[events'[k].sub].status = "canceled"
               PROVE  \E i \in DOMAIN events' : k < i /\ IsEnd(i, events[k].sub)'
    BY DEF EndFollowsCharges
  <2>1. k \in DOMAIN events /\ events'[k] = events[k]
    <3>1. k # Len(events) + 1
      BY <1>4 DEF IsCharge
    <3> QED BY <1>1, <1>3, <1>4, <3>1
  <2>2. CASE events[k].sub = s
    <3>1. Len(events) + 1 \in DOMAIN events' /\ k < Len(events) + 1
      BY <1>1, <1>4, <2>1
    <3> QED BY <1>4, <2>1, <2>2, <3>1 DEF IsEnd
  <2>3. CASE paddle[events[k].sub].status = "canceled"
    <3>1. PICK i \in DOMAIN events : k < i /\ IsEnd(i, events[k].sub)
      BY <2>1, <2>3 DEF InOrder, EndFollowsCharges, IsCharge
    <3> QED BY <1>3, <2>1, <3>1 DEF IsEnd
  <2> QED BY <1>1, <1>5, <2>1, <2>2, <2>3
<1> QED BY <1>6, <1>7 DEF InOrder

(* The first webhook is done with: what the row rides now it rode before,  *)
(* and this was not its end, or the webhook was a charge of it.            *)
LEMMA FirstDone ==
    ASSUME BaseInv, InOrder, events # <<>>, events' = RemoveAt(events, 1), hook' = 0,
           UNCHANGED paddle,
           \A s \in Subs : row'.sub = s =>
               \/ row.sub = s /\ ~IsEnd(1, s)
               \/ IsCharge(1) /\ events[1].sub = s
    PROVE  InOrder'
<1>1. /\ events \in Seq(Event) /\ Len(events) \in Nat /\ DOMAIN events = 1..Len(events)
      /\ 1 \in DOMAIN events
  BY Types
<1>2. /\ DOMAIN events' = 1..(Len(events) - 1)
      /\ \A i \in DOMAIN events : i > 1 => events'[i - 1] = events[i]
  BY <1>1, RemoveAtSpares
<1>3. ASSUME NEW i \in DOMAIN events, i > 1, NEW s, IsEnd(i, s)
      PROVE  /\ i - 1 \in DOMAIN events'
             /\ events'[i - 1].kind = "canceled" /\ events'[i - 1].sub = s
  BY <1>1, <1>2, <1>3 DEF IsEnd
<1>4. EndIsOnItsWay'
  <2> SUFFICES ASSUME NEW s \in Subs, row'.sub = s, paddle[s].status = "canceled"
               PROVE  \E i \in DOMAIN events' : IsEnd(i, s)'
    BY DEF EndIsOnItsWay
  <2>1. CASE row.sub = s /\ ~IsEnd(1, s)
    <3>1. PICK i \in DOMAIN events : IsEnd(i, s)
      BY <2>1 DEF InOrder, EndIsOnItsWay
    <3>2. i > 1
      BY <1>1, <2>1, <3>1
    <3> QED BY <1>3, <3>1, <3>2 DEF IsEnd
  <2>2. CASE IsCharge(1) /\ events[1].sub = s
    <3>1. PICK i \in DOMAIN events : 1 < i /\ IsEnd(i, s)
      BY <1>1, <2>2 DEF InOrder, EndFollowsCharges
    <3> QED BY <1>1, <1>3, <3>1 DEF IsEnd
  <2> QED BY <2>1, <2>2
<1>5. EndFollowsCharges'
  <2> SUFFICES ASSUME NEW k \in DOMAIN events', IsCharge(k)', events'[k].sub \in Subs,
                      paddle[events'[k].sub].status = "canceled"
               PROVE  \E i \in DOMAIN events' : k < i /\ IsEnd(i, events[k].sub)'
    BY DEF EndFollowsCharges
  <2>1. k + 1 \in DOMAIN events /\ k + 1 > 1 /\ (k + 1) - 1 = k
    BY <1>1, <1>2
  <2>2. events'[k] = events[k + 1]
    BY <1>2, <2>1
  <2>3. PICK i \in DOMAIN events : k + 1 < i /\ IsEnd(i, events[k + 1].sub)
    BY <2>1, <2>2 DEF InOrder, EndFollowsCharges, IsCharge
  <2>4. i > 1 /\ k < i - 1
    BY <1>1, <2>1, <2>3
  <2>5. /\ i - 1 \in DOMAIN events'
        /\ events'[i - 1].kind = "canceled" /\ events'[i - 1].sub = events'[k].sub
    BY <1>3, <2>2, <2>3, <2>4
  <2> QED BY <2>4, <2>5 DEF IsEnd
<1> QED BY <1>4, <1>5 DEF InOrder

LEMMA StepInOrder ==
    ASSUME ~Unordered, BaseInv, InOrder, [Next]_vars
    PROVE  InOrder'
<1>0. /\ events \in Seq(Event) /\ Len(events) \in Nat /\ DOMAIN events = 1..Len(events)
      /\ hook \in {0, 1} /\ paddle \in [Subs -> Subscription]
      /\ NoSub \notin Subs
  BY Types DEF InOrder
<1>1. CASE UNCHANGED vars
  BY <1>0, <1>1, NothingEnds DEF vars
<1>2. ASSUME NEW s \in Subs, OpenCheckout(s) PROVE InOrder'
  <2>1. \A o \in Subs : paddle'[o].status = "canceled" => paddle[o].status = "canceled"
    BY <1>0, <1>2 DEF OpenCheckout
  <2> QED BY <1>0, <1>2, <2>1, NothingEnds DEF OpenCheckout
<1>3. ASSUME NEW s \in Subs, NEW p \in Plans, Pay(s, p) PROVE InOrder'
  <2>1. /\ \A o \in Subs : paddle'[o].status = "canceled" => paddle[o].status = "canceled"
        /\ paddle'[s].status # "canceled"
    BY <1>0, <1>3 DEF Pay
  <2>2. /\ events' = Append(events, ChargeEvent(s, p, TRUE))
        /\ ChargeEvent(s, p, TRUE).kind = "charge" /\ ChargeEvent(s, p, TRUE).sub = s
    BY <1>3 DEF Pay, Charged, ChargeEvent
  <2> QED BY <1>0, <1>3, <2>1, <2>2, NothingEnds DEF Pay
<1>4. ASSUME NEW s \in Subs, Renew(s) PROVE InOrder'
  <2>1. PICK named \in BOOLEAN : events' = Append(events, ChargeEvent(s, paddle[s].item, named))
    BY <1>4 DEF Renew, Charged
  <2>2. /\ ChargeEvent(s, paddle[s].item, named).kind = "charge"
        /\ ChargeEvent(s, paddle[s].item, named).sub = s
    BY DEF ChargeEvent
  <2>3. UNCHANGED <<row, paddle, hook>> /\ paddle[s].status # "canceled"
    BY <1>4 DEF Renew, Live
  <2> QED BY <1>0, <2>1, <2>2, <2>3, NothingEnds
<1>5. ASSUME NEW s \in Subs, PeriodOver(s) PROVE InOrder'
  BY <1>5, EndsLast DEF PeriodOver
<1>6. ASSUME NEW r \in Requests, Owner(r) \/ GiveUp(r) PROVE InOrder'
  <2>1. UNCHANGED <<row, paddle, events, hook>>
    BY <1>6 DEF Owner, AskChange, AskCancel, AskResume, AskDelete, Ask, GiveUp
  <2> QED BY <1>0, <2>1, NothingEnds
<1>7. ASSUME NEW r \in Requests, Save(r) PROVE InOrder'
  <2>1. row'.sub \in {row.sub, NoSub} /\ UNCHANGED <<paddle, events, hook>>
    BY <1>7, SaveEffect DEF Save
  <2> QED BY <1>0, <2>1, NothingEnds
<1>8. ASSUME NEW r \in Requests, Apply(r) PROVE InOrder'
  <2> DEFINE s == copy[r].sub
             p == request[r].plan
  <2>1. s \in Subs /\ paddle[s].status = "live" /\ UNCHANGED <<row, hook>>
    <3>1. copy[r].sub # NoSub
      BY <1>8 DEF BaseInv, AskedInTime, InFlight, Apply
    <3>2. copy[r] \in Row
      BY Types
    <3> QED BY <1>8, <3>1, <3>2 DEF Apply, Live, Row
  <2>2. CASE End(s)
    BY <2>1, <2>2, EndsLast
  <2>3. CASE ~End(s)
    <3>1. /\ \/ paddle' = [paddle EXCEPT ![s].item = p]
             \/ paddle' = [paddle EXCEPT ![s].ending = (request[r].call = "cancel")]
          /\ \/ events' = events
             \/ \E named \in BOOLEAN : events' = Append(events, ChargeEvent(s, p, named))
      BY <1>8, <2>3 DEF Apply, Charged
    <3> HIDE DEF s, p
    <3>2. \A o \in Subs : paddle'[o].status = paddle[o].status
      BY <1>0, <2>1, <3>1 DEF Subscription
    <3>3. CASE events' = events
      BY <1>0, <2>1, <3>2, <3>3, NothingEnds
    <3>4. ASSUME NEW named \in BOOLEAN, events' = Append(events, ChargeEvent(s, p, named))
          PROVE  InOrder'
      <4>1. ChargeEvent(s, p, named).kind = "charge" /\ ChargeEvent(s, p, named).sub = s
        BY DEF ChargeEvent
      <4> QED BY <1>0, <2>1, <3>2, <3>4, <4>1, NothingEnds
    <3> QED BY <3>1, <3>3, <3>4
  <2> QED BY <2>2, <2>3
<1>9. ASSUME NEW i \in Deliverable, Receive(i) PROVE InOrder'
  <2>1. hook' = 1 /\ UNCHANGED <<row, paddle, events>>
    BY <1>9 DEF Receive, Deliverable
  <2> QED BY <1>0, <2>1, NothingEnds
<1>10. ASSUME NEW i \in Deliverable, Ignore(i) PROVE InOrder'
  <2>1. /\ i = 1 /\ 1 \in DOMAIN events /\ hook' = 0 /\ events' = RemoveAt(events, 1)
        /\ UNCHANGED <<row, paddle>>
        /\ ~IsOurs(events[1]) \/ AlreadySettled(events[1])
    BY <1>10 DEF Ignore, Deliverable
  <2>2. events # <<>>
    BY <1>0, <2>1
  <2>3. \A s \in Subs : row'.sub = s => row.sub = s /\ ~IsEnd(1, s)
    BY <1>0, <2>1 DEF IsEnd, IsOurs, Tracked, AlreadySettled
  <2> QED BY <2>1, <2>2, <2>3, FirstDone
<1>11. CASE AbandonHook
  <2>1. hook' = 0 /\ UNCHANGED <<row, paddle, events>>
    BY <1>11 DEF AbandonHook
  <2> QED BY <1>0, <2>1, NothingEnds
<1>12. CASE Commit
  <2>1. PICK again \in Again : ApplyRenewal(again) \/ ExpireSubscription(again)
    BY <1>12 DEF Commit
  <2>2. /\ again = FALSE /\ hook = 1 /\ hook' = 0 /\ events' = RemoveAt(events, 1)
        /\ UNCHANGED paddle
    BY <1>0, <2>1 DEF Again, ApplyRenewal, ExpireSubscription, Handled, Acknowledged
  <2>3. 1 \in DOMAIN events /\ events # <<>>
    <3>1. hook \in 0..Len(events)
      BY Types
    <3> QED BY <1>0, <2>2, <3>1
  <2>4. CASE ApplyRenewal(again)
    <3>1. IsCharge(1) /\ row'.sub \in {row.sub, events[1].sub}
      BY <2>2, <2>4 DEF ApplyRenewal, Handled, Flush, Renewed, Written, IsCharge
    <3>2. \A s \in Subs : ~IsEnd(1, s)
      BY <3>1 DEF IsCharge, IsEnd
    <3> QED BY <2>2, <2>3, <3>1, <3>2, FirstDone
  <2>5. CASE ExpireSubscription(again)
    <3>1. /\ events[1].kind = "canceled" /\ copy[Webhook].sub = events[1].sub
          /\ events[1].sub # NoSub
      BY <2>2, <2>5 DEF ExpireSubscription, BaseInv, HookSeesRow
    <3>2. row'.sub = NoSub
      BY <1>0, <2>3, <2>5, <3>1 DEF ExpireSubscription, Handled, Flush, Cleared, Written
    <3> QED BY <1>0, <2>2, <2>3, <3>2, FirstDone
  <2> QED BY <2>1, <2>4, <2>5
<1>13. ASSUME NEW p \in Plans, OneOff(p) PROVE InOrder'
  <2>1. /\ events' = Append(events, ChargeEvent(NoSub, p, TRUE))
        /\ ChargeEvent(NoSub, p, TRUE).kind = "charge" /\ ChargeEvent(NoSub, p, TRUE).sub \notin Subs
    BY <1>0, <1>13 DEF OneOff, Charged, ChargeEvent
  <2> QED BY <1>0, <1>13, <2>1, NothingEnds DEF OneOff
<1> QED BY <1>1, <1>2, <1>3, <1>4, <1>5, <1>6, <1>7, <1>8, <1>9, <1>10, <1>11, <1>12,
       <1>13 DEF Next

(* api/billing.py: delivered in order, no account is left on a             *)
(* subscription that has ended without the webhook that will take it away. *)
THEOREM EndedWillBeTold == ~Unordered => (Spec => []EndIsOnItsWay)
<1> SUFFICES ASSUME ~Unordered PROVE Spec => []EndIsOnItsWay
  OBVIOUS
<1>1. Init => InOrder
  BY DEF Init, InOrder, EndIsOnItsWay, EndFollowsCharges
<1>2. BaseInv /\ InOrder /\ [Next]_vars => InOrder'
  BY StepInOrder
<1>3. InOrder => EndIsOnItsWay
  BY DEF InOrder
<1> QED BY <1>1, <1>2, <1>3, BaseInductive, PTL DEF Spec

=============================================================================
