----------------------- MODULE EnhancementJobsProofs -----------------------
(***************************************************************************)
(* Proofs about EnhancementJobs, for any number of accounts, jobs, threads *)
(* and crashes and for any limits.  IInv is inductive; the refinements and *)
(* the other safety properties follow from it.                             *)
(***************************************************************************)
EXTENDS EnhancementJobs, SumLemmas

-----------------------------------------------------------------------------
(* What the writes of the database do to the rows they touch. *)

(* Setting a status leaves the credits and the ledger alone. *)
LEMMA SetStatusEffect ==
    ASSUME NEW d \in Rows, NEW j \in Jobs, NEW s \in Status
    PROVE  /\ SetStatus(d, j, s) \in Rows
           /\ SetStatus(d, j, s).status = [d.status EXCEPT ![j] = s]
           /\ SetStatus(d, j, s).credits = d.credits
           /\ SetStatus(d, j, s).debits = d.debits
           /\ SetStatus(d, j, s).refunds = d.refunds
BY DEF SetStatus, Rows

(* A debit the account can pay leaves a balance that is still a number of  *)
(* credits, and one more debit row.                                        *)
LEMMA DebitEffect ==
    ASSUME NEW d \in Rows, NEW j \in Jobs, CanPay(d, j)
    PROVE  /\ DebitForJob(d, j) \in Rows
           /\ DebitForJob(d, j).status = d.status
           /\ DebitForJob(d, j).debits = [d.debits EXCEPT ![j] = @ + 1]
           /\ DebitForJob(d, j).refunds = d.refunds
<1>1. Owner[j] \in Users /\ Cost[j] \in Nat
  BY JobsAssumption
<1>2. d.credits[Owner[j]] - Cost[j] \in Nat
  BY <1>1 DEF CanPay, Rows
<1>3. /\ [d.credits EXCEPT ![Owner[j]] = @ - Cost[j]] \in [Users -> Nat]
      /\ [d.debits EXCEPT ![j] = @ + 1] \in [Jobs -> Nat]
  BY <1>1, <1>2 DEF Rows
<1> QED BY <1>3 DEF DebitForJob, Rows

(* The first refund of a job writes one refund row. *)
LEMMA RefundEffect ==
    ASSUME NEW d \in Rows, NEW j \in Jobs, d.refunds[j] = 0
    PROVE  /\ RefundJob(d, j) \in Rows
           /\ RefundJob(d, j).status = d.status
           /\ RefundJob(d, j).debits = d.debits
           /\ RefundJob(d, j).refunds = [d.refunds EXCEPT ![j] = 1]
<1>1. Owner[j] \in Users /\ Cost[j] \in Nat \ {0}
  BY JobsAssumption
<1>2. /\ [d.credits EXCEPT ![Owner[j]] = @ + Cost[j]] \in [Users -> Nat]
      /\ [d.refunds EXCEPT ![j] = @ + 1] \in [Jobs -> Nat]
      /\ [d.refunds EXCEPT ![j] = @ + 1] = [d.refunds EXCEPT ![j] = 1]
  BY <1>1 DEF Rows
<1>3. RefundJob(d, j) =
        [credits |-> [d.credits EXCEPT ![Owner[j]] = @ + Cost[j]],
         status  |-> d.status,
         debits  |-> d.debits,
         refunds |-> [d.refunds EXCEPT ![j] = @ + 1]]
  BY <1>1 DEF RefundJob
<1> QED BY <1>2, <1>3 DEF Rows

(* Giving up on an unfinished job of consistent rows refunds it: the rows  *)
(* stay consistent and no other job is touched.                            *)
LEMMA FailAndRefundEffect ==
    ASSUME NEW d \in Rows, NEW j \in Jobs,
           Consistent(d), d.status[j] \in Unfinished
    PROVE  /\ FailAndRefund(d, j) \in Rows
           /\ FailAndRefund(d, j).status = [d.status EXCEPT ![j] = "failed"]
           /\ Consistent(FailAndRefund(d, j))
<1> DEFINE e == SetStatus(d, j, "failed")
           f == FailAndRefund(d, j)
<1>1. /\ e \in Rows
      /\ e.status = [d.status EXCEPT ![j] = "failed"]
      /\ e.debits = d.debits
      /\ e.refunds = d.refunds
  BY SetStatusEffect DEF Status, Settled
<1>2. e.refunds[j] = 0
  BY <1>1 DEF Consistent, Unfinished
<1>3. /\ f \in Rows
      /\ f.status = [d.status EXCEPT ![j] = "failed"]
      /\ f.debits = d.debits
      /\ f.refunds = [d.refunds EXCEPT ![j] = 1]
  BY <1>1, <1>2, RefundEffect DEF FailAndRefund
<1>4. Consistent(f)
  BY <1>3 DEF Consistent, Unfinished, Rows
<1> QED BY <1>3, <1>4

(* Creating and charging a row that is not there keeps rows consistent. *)
LEMMA ChargedEffect ==
    ASSUME NEW d \in Rows, NEW j \in Jobs,
           Consistent(d), d.status[j] = "none", CanPay(d, j)
    PROVE  /\ Charged(d, j) \in Rows
           /\ Charged(d, j).status = [d.status EXCEPT ![j] = "queued"]
           /\ Consistent(Charged(d, j))
<1> DEFINE e == SetStatus(d, j, "queued")
           f == Charged(d, j)
<1>1. /\ e \in Rows
      /\ e.status = [d.status EXCEPT ![j] = "queued"]
      /\ e.credits = d.credits
      /\ e.debits = d.debits
      /\ e.refunds = d.refunds
  BY SetStatusEffect DEF Status, Unfinished
<1>2. CanPay(e, j)
  BY <1>1 DEF CanPay
<1>3. /\ f \in Rows
      /\ f.status = [d.status EXCEPT ![j] = "queued"]
      /\ f.debits = [d.debits EXCEPT ![j] = @ + 1]
      /\ f.refunds = d.refunds
  BY <1>1, <1>2, DebitEffect DEF Charged
<1>4. Consistent(f)
  BY <1>3 DEF Consistent, Rows
<1> QED BY <1>3, <1>4

(* Moving an existing row to another status that is not "failed" keeps     *)
(* rows consistent.                                                        *)
LEMMA MoveEffect ==
    ASSUME NEW d \in Rows, NEW j \in Jobs, NEW s \in {"running", "completed"},
           Consistent(d), d.status[j] \in Unfinished
    PROVE  /\ SetStatus(d, j, s) \in Rows
           /\ SetStatus(d, j, s).status = [d.status EXCEPT ![j] = s]
           /\ Consistent(SetStatus(d, j, s))
<1>1. s \in Status
  BY DEF Status, Unfinished, Settled
<1> QED BY <1>1, SetStatusEffect DEF Consistent, Rows, Unfinished

-----------------------------------------------------------------------------
(* How a step of one job moves the set of slot holders and its size. *)

LEMMA HeldFinite ==
    /\ IsFiniteSet(Held)
    /\ \A u \in Users : IsFiniteSet(HeldBy(u))
BY JobsAssumption, FS_Subset DEF Held, HeldBy

(* A step that neither takes nor gives back a slot. *)
LEMMA SlotKept ==
    ASSUME TypeOK, NEW j \in Jobs, NEW p \in Point, Goto(j, p),
           at[j] \in HasSlot <=> p \in HasSlot
    PROVE  Held' = Held /\ \A u \in Users : HeldBy(u)' = HeldBy(u)
<1>1. \A k \in Jobs : at'[k] \in HasSlot <=> at[k] \in HasSlot
  BY DEF TypeOK, Goto
<1> QED BY <1>1 DEF Held, HeldBy

LEMMA SlotTaken ==
    ASSUME TypeOK, SlotsExact, NEW j \in Jobs,
           at[j] \notin HasSlot, Goto(j, "reserved"),
           inFlight' = inFlight + 1,
           perUser' = [perUser EXCEPT ![Owner[j]] = @ + 1]
    PROVE  SlotsExact'
<1>1. Held' = Held \cup {j} /\ j \notin Held
  BY DEF Held, Goto, TypeOK, HasSlot, Served, InHandler
<1>2. inFlight' = Cardinality(Held')
  BY <1>1, HeldFinite, FS_AddElement DEF SlotsExact
<1>3. ASSUME NEW u \in Users
      PROVE  perUser'[u] = Cardinality(HeldBy(u)')
  <2>1. CASE u = Owner[j]
    <3>1. HeldBy(u)' = HeldBy(u) \cup {j} /\ j \notin HeldBy(u)
      BY <1>1, <2>1 DEF HeldBy
    <3>2. Cardinality(HeldBy(u)') = Cardinality(HeldBy(u)) + 1
      BY <3>1, HeldFinite, FS_AddElement
    <3> QED BY <2>1, <3>2 DEF SlotsExact, TypeOK
  <2>2. CASE u # Owner[j]
    <3>1. HeldBy(u)' = HeldBy(u)
      BY <1>1, <2>2 DEF HeldBy
    <3> QED BY <2>2, <3>1 DEF SlotsExact, TypeOK
  <2> QED BY <2>1, <2>2
<1> QED BY <1>2, <1>3 DEF SlotsExact

LEMMA SlotFreed ==
    ASSUME TypeOK, SlotsExact, NEW j \in Jobs, NEW p \in Point,
           at[j] \in HasSlot, p \notin HasSlot, Goto(j, p), FreeSlot(j)
    PROVE  SlotsExact'
<1>1. Held' = Held \ {j} /\ j \in Held
  BY DEF Held, Goto, TypeOK
<1>2. Cardinality(Held') = Cardinality(Held) - 1 /\ Cardinality(Held') \in Nat
  BY <1>1, HeldFinite, FS_RemoveElement, FS_CardinalityType
<1>3. inFlight' = Cardinality(Held')
  BY <1>2 DEF SlotsExact, FreeSlot, TypeOK
<1>4. ASSUME NEW u \in Users
      PROVE  perUser'[u] = Cardinality(HeldBy(u)')
  <2>1. CASE u = Owner[j]
    <3>1. HeldBy(u)' = HeldBy(u) \ {j} /\ j \in HeldBy(u)
      BY <1>1, <2>1 DEF HeldBy
    <3>2. /\ Cardinality(HeldBy(u)') = Cardinality(HeldBy(u)) - 1
          /\ Cardinality(HeldBy(u)') \in Nat
      BY <3>1, HeldFinite, FS_RemoveElement, FS_CardinalityType
    <3>3. perUser[u] = Cardinality(HeldBy(u))
      BY DEF SlotsExact
    <3>4. perUser'[u] = IF perUser[u] > 1 THEN perUser[u] - 1 ELSE 0
      BY <2>1 DEF FreeSlot, TypeOK
    <3> QED BY <3>2, <3>3, <3>4 DEF TypeOK
  <2>2. CASE u # Owner[j]
    <3>1. HeldBy(u)' = HeldBy(u)
      BY <1>1, <2>2 DEF HeldBy
    <3> QED BY <2>2, <3>1 DEF SlotsExact, FreeSlot, TypeOK
  <2> QED BY <2>1, <2>2
<1> QED BY <1>3, <1>4 DEF SlotsExact

-----------------------------------------------------------------------------
(* IInv is inductive. *)

LEMMA InitIInv == Init => IInv
<1> SUFFICES ASSUME Init PROVE IInv
  OBVIOUS
<1>1. Held = {} /\ \A u \in Users : HeldBy(u) = {}
  BY DEF Init, Held, HeldBy, HasSlot, Served, InHandler, InThread
<1>2. TypeOK
  BY JobsAssumption DEF Init, TypeOK, Point, InitialRows, NoTxn, Rows, Status
<1>3. SlotsExact
  BY <1>1, FS_EmptySet DEF Init, SlotsExact
<1>4. Consistent(db) /\ PointsFitRows /\ PoolWaits /\ SweepTracks
  BY DEF Init, InitialRows, Consistent, PointsFitRows, Fits, PoolWaits, SweepTracks
<1> QED BY <1>2, <1>3, <1>4 DEF IInv

(* A step of one job while the process serves: what is left to check is    *)
(* the slots, the pool, and that the job's row fits its new point.         *)
LEMMA JobStep ==
    ASSUME IInv, server = "serving", UNCHANGED sweep,
           NEW j \in Jobs, NEW p \in Point, Goto(j, p),
           inFlight' \in Nat, perUser' \in [Users -> Nat], SlotsExact',
           pool' \in Seq(Jobs), PoolWaits',
           db' \in Rows, Consistent(db'),
           \A k \in Jobs \ {j} : db'.status[k] = db.status[k],
           Fits(p, db'.status[j])
    PROVE  IInv'
<1>1. TypeOK'
  BY DEF IInv, TypeOK, sweep, Goto
<1>2. PointsFitRows'
  BY DEF IInv, TypeOK, PointsFitRows, Goto
<1>3. SweepTracks'
  BY DEF SweepTracks, sweep
<1> QED BY <1>1, <1>2, <1>3 DEF IInv

(* The pool is as it was and the job that moves was not in it. *)
LEMMA PoolKept ==
    ASSUME TypeOK, PoolWaits, NEW j \in Jobs, NEW p, Goto(j, p),
           at[j] # "waiting", UNCHANGED pool
    PROVE  pool' \in Seq(Jobs) /\ PoolWaits'
<1>1. pool' = pool /\ pool \in Seq(Jobs)
  BY DEF TypeOK
<1>2. \A i \in 1..Len(pool) : pool[i] \in Jobs /\ pool[i] # j
  BY <1>1 DEF PoolWaits
<1>3. \A i \in 1..Len(pool) : at'[pool[i]] = at[pool[i]]
  BY <1>2 DEF TypeOK, Goto
<1> QED BY <1>1, <1>3 DEF PoolWaits

LEMMA SlotsKept ==
    ASSUME TypeOK, SlotsExact, NEW j \in Jobs, NEW p \in Point, Goto(j, p),
           at[j] \in HasSlot <=> p \in HasSlot, UNCHANGED slots
    PROVE  inFlight' \in Nat /\ perUser' \in [Users -> Nat] /\ SlotsExact'
<1>1. Held' = Held /\ \A u \in Users : HeldBy(u)' = HeldBy(u)
  BY SlotKept
<1>2. inFlight' = inFlight /\ perUser' = perUser
  BY DEF slots
<1>3. SlotsExact'
  BY <1>1, <1>2 DEF SlotsExact
<1> QED BY <1>2, <1>3 DEF TypeOK

LEMMA SlotsAfterFree ==
    ASSUME TypeOK, NEW j \in Jobs, FreeSlot(j)
    PROVE  inFlight' \in Nat /\ perUser' \in [Users -> Nat]
<1>1. inFlight' \in Nat
  BY DEF TypeOK, FreeSlot
<1>2. Owner[j] \in Users /\ perUser[Owner[j]] \in Nat
  BY JobsAssumption DEF TypeOK
<1>3. (IF perUser[Owner[j]] > 1 THEN perUser[Owner[j]] - 1 ELSE 0) \in Nat
  BY <1>2
<1> QED BY <1>1, <1>3 DEF TypeOK, FreeSlot

LEMMA HandlerStep ==
    ASSUME IInv, NEW j \in Jobs, Reserve(j) \/ Handler(j)
    PROVE  IInv'
<1> USE DEF Point, HasSlot, Served, InHandler, InThread, Refused
<1>0. TypeOK /\ SlotsExact /\ Consistent(db) /\ PointsFitRows /\ PoolWaits /\ db \in Rows
  BY DEF IInv, TypeOK
<1>1. CASE Reserve(j)
  <2>1. at[j] = "new" /\ server = "serving" /\ UNCHANGED <<pool, db, sweep>>
    BY <1>1 DEF Reserve
  <2>2. PICK p \in {"limited", "full", "reserved"} : Goto(j, p)
    BY <1>1 DEF Reserve
  <2>3. inFlight' \in Nat /\ perUser' \in [Users -> Nat] /\ SlotsExact'
    <3>1. CASE UNCHANGED slots /\ (Goto(j, "limited") \/ Goto(j, "full"))
      BY <1>0, <2>1, <3>1, SlotsKept
    <3>2. CASE /\ Goto(j, "reserved")
               /\ inFlight' = inFlight + 1
               /\ perUser' = [perUser EXCEPT ![Owner[j]] = @ + 1]
      <4>1. SlotsExact'
        BY <1>0, <2>1, <3>2, SlotTaken
      <4>2. inFlight' \in Nat /\ perUser' \in [Users -> Nat]
        BY <1>0, <3>2, JobsAssumption DEF TypeOK
      <4> QED BY <4>1, <4>2
    <3> QED BY <1>1, <3>1, <3>2 DEF Reserve
  <2>4. Fits(p, db'.status[j])
    BY <1>0, <2>1, <2>2 DEF PointsFitRows, Fits
  <2>5. pool' \in Seq(Jobs) /\ PoolWaits'
    BY <1>0, <2>1, <2>2, PoolKept
  <2> QED BY <1>0, <2>1, <2>2, <2>3, <2>4, <2>5, JobStep
<1>2. CASE Charge(j)
  <2>1. /\ at[j] = "reserved" /\ server = "serving" /\ CanPay(db, j)
        /\ db' = Charged(db, j) /\ Goto(j, "committed")
        /\ UNCHANGED <<slots, pool, sweep>>
    BY <1>2 DEF Charge
  <2>2. db.status[j] = "none"
    BY <1>0, <2>1 DEF PointsFitRows, Fits
  <2>3. /\ db' \in Rows /\ Consistent(db')
        /\ db'.status = [db.status EXCEPT ![j] = "queued"]
    BY <1>0, <2>1, <2>2, ChargedEffect
  <2>4. /\ \A k \in Jobs \ {j} : db'.status[k] = db.status[k]
        /\ Fits("committed", db'.status[j])
    BY <1>0, <2>3 DEF Fits, Rows
  <2>5. inFlight' \in Nat /\ perUser' \in [Users -> Nat] /\ SlotsExact'
    BY <1>0, <2>1, SlotsKept
  <2>6. pool' \in Seq(Jobs) /\ PoolWaits'
    BY <1>0, <2>1, PoolKept
  <2> QED BY <2>1, <2>3, <2>4, <2>5, <2>6, JobStep
<1>3. CASE ChargeShort(j)
  <2>1. /\ at[j] = "reserved" /\ server = "serving" /\ Goto(j, "short")
        /\ UNCHANGED <<slots, pool, db, sweep>>
    BY <1>3 DEF ChargeShort
  <2>2. inFlight' \in Nat /\ perUser' \in [Users -> Nat] /\ SlotsExact'
    BY <1>0, <2>1, SlotsKept
  <2>3. pool' \in Seq(Jobs) /\ PoolWaits'
    BY <1>0, <2>1, PoolKept
  <2>4. Fits("short", db'.status[j])
    BY <1>0, <2>1 DEF PointsFitRows, Fits
  <2> QED BY <1>0, <2>1, <2>2, <2>3, <2>4, JobStep
<1>4. CASE ChargeBreaks(j)
  <2>1. /\ at[j] = "reserved" /\ server = "serving" /\ Goto(j, "broken")
        /\ UNCHANGED <<slots, pool, sweep>>
        /\ UNCHANGED db \/ (CanPay(db, j) /\ db' = Charged(db, j))
    BY <1>4 DEF ChargeBreaks
  <2>2. db.status[j] = "none"
    BY <1>0, <2>1 DEF PointsFitRows, Fits
  <2>3. /\ db' \in Rows /\ Consistent(db')
        /\ \A k \in Jobs \ {j} : db'.status[k] = db.status[k]
    <3>1. CASE UNCHANGED db
      BY <1>0, <3>1
    <3>2. CASE CanPay(db, j) /\ db' = Charged(db, j)
      <4>1. /\ db' \in Rows /\ Consistent(db')
            /\ db'.status = [db.status EXCEPT ![j] = "queued"]
        BY <1>0, <2>2, <3>2, ChargedEffect
      <4> QED BY <1>0, <4>1 DEF Rows
    <3> QED BY <2>1, <3>1, <3>2
  <2>4. inFlight' \in Nat /\ perUser' \in [Users -> Nat] /\ SlotsExact'
    BY <1>0, <2>1, SlotsKept
  <2>5. pool' \in Seq(Jobs) /\ PoolWaits'
    BY <1>0, <2>1, PoolKept
  <2>6. Fits("broken", db'.status[j])
    BY DEF Fits
  <2> QED BY <2>1, <2>3, <2>4, <2>5, <2>6, JobStep
<1>5. CASE FlushFails(j)
  <2>1. /\ at[j] = "reserved" /\ server = "serving" /\ Goto(j, "expired")
        /\ UNCHANGED <<slots, pool, db, sweep>>
    BY <1>5 DEF FlushFails
  <2>2. inFlight' \in Nat /\ perUser' \in [Users -> Nat] /\ SlotsExact'
    BY <1>0, <2>1, SlotsKept
  <2>3. pool' \in Seq(Jobs) /\ PoolWaits'
    BY <1>0, <2>1, PoolKept
  <2>4. Fits("expired", db'.status[j])
    BY <1>0, <2>1 DEF PointsFitRows, Fits
  <2> QED BY <1>0, <2>1, <2>2, <2>3, <2>4, JobStep
<1>6. CASE GiveBack(j)
  <2>1. /\ at[j] \in {"short", "broken", "expired"} /\ server = "serving"
        /\ UNCHANGED <<pool, db, sweep>>
    BY <1>6 DEF GiveBack
  <2>2. PICK p \in {"unpaid", "error", "leaked"} :
          /\ Goto(j, p)
          /\ IF p = "leaked" THEN UNCHANGED slots ELSE FreeSlot(j)
          /\ p \in {"unpaid", "leaked"} => at[j] \in {"short", "expired"}
    BY <1>6 DEF GiveBack
  <2>3. inFlight' \in Nat /\ perUser' \in [Users -> Nat] /\ SlotsExact'
    <3>1. CASE p = "leaked"
      BY <1>0, <2>1, <2>2, <3>1, SlotsKept
    <3>2. CASE p # "leaked"
      <4>1. inFlight' \in Nat /\ perUser' \in [Users -> Nat]
        BY <1>0, <2>2, <3>2, SlotsAfterFree
      <4>2. SlotsExact'
        BY <1>0, <2>1, <2>2, <3>2, SlotFreed
      <4> QED BY <4>1, <4>2
    <3> QED BY <3>1, <3>2
  <2>4. pool' \in Seq(Jobs) /\ PoolWaits'
    BY <1>0, <2>1, <2>2, PoolKept
  <2>5. Fits(p, db'.status[j])
    BY <1>0, <2>1, <2>2 DEF PointsFitRows, Fits
  <2> QED BY <1>0, <2>1, <2>2, <2>3, <2>4, <2>5, JobStep
<1>7. CASE Enqueue(j)
  <2>1. /\ at[j] = "committed" /\ server = "serving" /\ Goto(j, "waiting")
        /\ pool' = Append(pool, j) /\ UNCHANGED <<slots, db, sweep>>
    BY <1>7 DEF Enqueue
  <2>2. inFlight' \in Nat /\ perUser' \in [Users -> Nat] /\ SlotsExact'
    BY <1>0, <2>1, SlotsKept
  <2>3. pool' \in Seq(Jobs)
    BY <1>0, <2>1 DEF TypeOK
  <2>4. PoolWaits'
    <3>1. /\ Len(pool) \in Nat
          /\ Len(pool') = Len(pool) + 1
          /\ \A i \in 1..Len(pool) : pool'[i] = pool[i] /\ pool[i] \in Jobs
          /\ pool'[Len(pool) + 1] = j
      BY <1>0, <2>1 DEF TypeOK
    <3>2. \A i \in 1..Len(pool) : at[pool[i]] = "waiting" /\ pool[i] # j
      BY <1>0, <2>1 DEF PoolWaits
    <3>3. \A i \in 1..Len(pool') : at'[pool'[i]] = "waiting"
      BY <1>0, <2>1, <3>1, <3>2 DEF TypeOK, Goto
    <3>4. ASSUME NEW i \in 1..Len(pool'), NEW k \in 1..Len(pool'), pool'[i] = pool'[k]
          PROVE  i = k
      <4>1. i \in 1..Len(pool) \/ i = Len(pool) + 1
        BY <3>1
      <4>2. k \in 1..Len(pool) \/ k = Len(pool) + 1
        BY <3>1
      <4> QED BY <1>0, <3>1, <3>2, <3>4, <4>1, <4>2 DEF PoolWaits
    <3> QED BY <3>3, <3>4 DEF PoolWaits
  <2>5. Fits("waiting", db'.status[j])
    BY <1>0, <2>1 DEF PointsFitRows, Fits
  <2> QED BY <1>0, <2>1, <2>2, <2>3, <2>4, <2>5, JobStep
<1> QED BY <1>1, <1>2, <1>3, <1>4, <1>5, <1>6, <1>7 DEF Handler

LEMMA PickStep ==
    ASSUME IInv, Pick
    PROVE  IInv'
<1> USE DEF Point, HasSlot, Served, InHandler, InThread, Refused
<1> DEFINE j == Head(pool)
<1>0. TypeOK /\ SlotsExact /\ Consistent(db) /\ PointsFitRows /\ PoolWaits /\ db \in Rows
  BY DEF IInv, TypeOK
<1>1. /\ server = "serving" /\ pool # <<>> /\ Goto(j, "picked")
      /\ pool' = Tail(pool) /\ UNCHANGED <<slots, db, sweep>>
  BY DEF Pick
<1>2. /\ pool \in Seq(Jobs) /\ Len(pool) \in Nat \ {0} /\ j = pool[1] /\ j \in Jobs
      /\ pool' \in Seq(Jobs) /\ Len(pool') = Len(pool) - 1
      /\ \A i \in 1..Len(pool') : pool'[i] = pool[i + 1] /\ pool'[i] \in Jobs
  BY <1>0, <1>1 DEF TypeOK
<1>3. at[j] = "waiting"
  BY <1>0, <1>2 DEF PoolWaits
<1>4. PoolWaits'
  <2>1. ASSUME NEW i \in 1..Len(pool')
        PROVE  at'[pool'[i]] = "waiting"
    <3>1. i + 1 \in 1..Len(pool) /\ 1 \in 1..Len(pool) /\ i + 1 # 1
      BY <1>2
    <3>2. at[pool[i + 1]] = "waiting" /\ pool[i + 1] # j
      BY <1>0, <1>2, <3>1 DEF PoolWaits
    <3> QED BY <1>0, <1>1, <1>2, <3>2 DEF TypeOK, Goto
  <2>2. ASSUME NEW i \in 1..Len(pool'), NEW k \in 1..Len(pool'), pool'[i] = pool'[k]
        PROVE  i = k
    <3>1. i + 1 \in 1..Len(pool) /\ k + 1 \in 1..Len(pool) /\ pool[i + 1] = pool[k + 1]
      BY <1>2, <2>2
    <3>2. i + 1 = k + 1
      BY <1>0, <3>1 DEF PoolWaits
    <3> QED BY <3>2
  <2> QED BY <2>1, <2>2 DEF PoolWaits
<1>5. inFlight' \in Nat /\ perUser' \in [Users -> Nat] /\ SlotsExact'
  BY <1>0, <1>1, <1>2, <1>3, SlotsKept
<1>6. Fits("picked", db'.status[j])
  BY <1>0, <1>1, <1>2, <1>3 DEF PointsFitRows, Fits
<1> HIDE DEF j
<1> QED BY <1>0, <1>1, <1>2, <1>4, <1>5, <1>6, JobStep

LEMMA WorkerStep ==
    ASSUME IInv, NEW j \in Jobs, Worker(j)
    PROVE  IInv'
<1> USE DEF Point, HasSlot, Served, InHandler, InThread, Refused
<1>0. TypeOK /\ SlotsExact /\ Consistent(db) /\ PointsFitRows /\ PoolWaits /\ db \in Rows
  BY DEF IInv, TypeOK
<1>1. CASE Release(j)
  <2>1. /\ at[j] = "releasing" /\ server = "serving" /\ FreeSlot(j)
        /\ Goto(j, "done") /\ UNCHANGED <<pool, db, sweep>>
    BY <1>1 DEF Release
  <2>2. inFlight' \in Nat /\ perUser' \in [Users -> Nat]
    BY <1>0, <2>1, SlotsAfterFree
  <2>3. SlotsExact'
    BY <1>0, <2>1, SlotFreed
  <2>4. pool' \in Seq(Jobs) /\ PoolWaits'
    BY <1>0, <2>1, PoolKept
  <2>5. Fits("done", db'.status[j])
    BY <1>0, <2>1 DEF PointsFitRows, Fits
  <2> QED BY <1>0, <2>1, <2>2, <2>3, <2>4, <2>5, JobStep
<1>2. CASE Start(j) \/ StartBreaks(j) \/ Finish(j) \/ FinishBreaks(j)
  <2>1. /\ at[j] \in {"picked", "running"} /\ server = "serving"
        /\ UNCHANGED <<slots, pool, sweep>>
    BY <1>2 DEF Start, StartBreaks, Finish, FinishBreaks
  <2>2. db.status[j] \in Unfinished
    BY <1>0, <2>1 DEF PointsFitRows, Fits, Unfinished
  <2>3. PICK p \in {"running", "releasing"} :
          /\ Goto(j, p)
          /\ \/ p = "releasing" /\ db' = db
             \/ db' = SetStatus(db, j, "running")
             \/ p = "releasing" /\ db' = SetStatus(db, j, "completed")
             \/ p = "releasing" /\ db' = FailAndRefund(db, j)
    BY <1>2 DEF Start, StartBreaks, Finish, FinishBreaks
  <2>4. /\ db' \in Rows /\ Consistent(db')
        /\ \A k \in Jobs \ {j} : db'.status[k] = db.status[k]
        /\ Fits(p, db'.status[j])
    <3>1. CASE p = "releasing" /\ db' = db
      BY <1>0, <2>2, <3>1 DEF Fits, Unfinished
    <3>2. CASE db' = SetStatus(db, j, "running")
      <4>1. /\ db' \in Rows /\ Consistent(db')
            /\ db'.status = [db.status EXCEPT ![j] = "running"]
        BY <1>0, <2>2, <3>2, MoveEffect
      <4> QED BY <1>0, <4>1 DEF Fits, Rows
    <3>3. CASE p = "releasing" /\ db' = SetStatus(db, j, "completed")
      <4>1. /\ db' \in Rows /\ Consistent(db')
            /\ db'.status = [db.status EXCEPT ![j] = "completed"]
        BY <1>0, <2>2, <3>3, MoveEffect
      <4> QED BY <1>0, <3>3, <4>1 DEF Fits, Rows
    <3>4. CASE p = "releasing" /\ db' = FailAndRefund(db, j)
      <4>1. /\ db' \in Rows /\ Consistent(db')
            /\ db'.status = [db.status EXCEPT ![j] = "failed"]
        BY <1>0, <2>2, <3>4, FailAndRefundEffect
      <4> QED BY <1>0, <3>4, <4>1 DEF Fits, Rows
    <3> QED BY <2>3, <3>1, <3>2, <3>3, <3>4
  <2>5. inFlight' \in Nat /\ perUser' \in [Users -> Nat] /\ SlotsExact'
    BY <1>0, <2>1, <2>3, SlotsKept
  <2>6. pool' \in Seq(Jobs) /\ PoolWaits'
    BY <1>0, <2>1, <2>3, PoolKept
  <2> QED BY <2>1, <2>3, <2>4, <2>5, <2>6, JobStep
<1> QED BY <1>1, <1>2 DEF Worker

(* The process dies: the rows stay, everything in memory starts again. *)
LEMMA CrashStep ==
    ASSUME IInv, Crash
    PROVE  IInv'
<1> USE DEF Point, HasSlot, Served, InHandler, InThread, Refused
<1>0. TypeOK /\ Consistent(db) /\ PointsFitRows /\ db \in Rows
  BY DEF IInv, TypeOK
<1>1. /\ crashes' = crashes + 1
      /\ at' = [j \in Jobs |-> IF at[j] \in HasSlot THEN "cut" ELSE at[j]]
      /\ inFlight' = 0 /\ perUser' = [u \in Users |-> 0]
      /\ pool' = <<>> /\ server' = "starting"
      /\ txn' = db /\ stale' = Left(db) /\ db' = db
  BY DEF Crash
<1>2. TypeOK'
  BY <1>0, <1>1 DEF TypeOK, Left
<1>3. Held' = {} /\ \A u \in Users : HeldBy(u)' = {}
  BY <1>1 DEF Held, HeldBy
<1>4. SlotsExact'
  BY <1>1, <1>3, FS_EmptySet DEF SlotsExact
<1>5. PointsFitRows'
  BY <1>0, <1>1 DEF PointsFitRows, Fits
<1>6. PoolWaits'
  BY <1>1 DEF PoolWaits
<1>7. SweepTracks'
  BY <1>0, <1>1, <1>3 DEF SweepTracks, Left
<1> QED BY <1>0, <1>1, <1>2, <1>4, <1>5, <1>6, <1>7 DEF IInv

LEMMA StartupStep ==
    ASSUME IInv, Startup
    PROVE  IInv'
<1>0. /\ TypeOK /\ SlotsExact /\ Consistent(db) /\ PointsFitRows
      /\ PoolWaits /\ SweepTracks /\ db \in Rows /\ txn \in Rows
  BY DEF IInv, TypeOK
<1>1. UNCHANGED <<at, slots, pool, crashes>>
  BY DEF Startup, SweepOne, SweepCommit
<1>2. PoolWaits'
  BY <1>0, <1>1 DEF PoolWaits
<1>3. Held' = Held /\ \A u \in Users : HeldBy(u)' = HeldBy(u)
  BY <1>1 DEF Held, HeldBy
<1>4. SlotsExact'
  BY <1>0, <1>1, <1>3 DEF SlotsExact, slots
<1>5. CASE \E j \in Jobs : SweepOne(j)
  <2>1. PICK j \in stale : /\ server = "starting" /\ j \in Jobs
                            /\ txn' = FailAndRefund(txn, j)
                            /\ stale' = stale \ {j}
                            /\ UNCHANGED <<db, server>>
    BY <1>5 DEF SweepOne
  <2>2. txn.status[j] \in Unfinished
    BY <1>0, <2>1 DEF SweepTracks, Left
  <2>3. /\ txn' \in Rows /\ Consistent(txn')
        /\ txn'.status = [txn.status EXCEPT ![j] = "failed"]
    BY <1>0, <2>1, <2>2, FailAndRefundEffect DEF SweepTracks
  <2>4. TypeOK'
    BY <1>0, <1>1, <2>1, <2>3 DEF TypeOK, slots
  <2>5. SweepTracks'
    BY <1>0, <1>3, <2>1, <2>3 DEF SweepTracks, Left, Rows
  <2>6. PointsFitRows' /\ Consistent(db')
    BY <1>0, <1>1, <2>1 DEF PointsFitRows
  <2> QED BY <1>2, <1>4, <2>4, <2>5, <2>6 DEF IInv
<1>6. CASE SweepCommit
  <2>1. /\ server = "starting" /\ stale = {} /\ db' = txn
        /\ server' = "serving" /\ txn' = NoTxn /\ stale' = stale
    BY <1>6 DEF SweepCommit
  <2>2. NoTxn \in Rows
    BY JobsAssumption DEF NoTxn, InitialRows, Rows, Status
  <2>3. TypeOK'
    BY <1>0, <1>1, <2>1, <2>2 DEF TypeOK, slots
  <2>4. \A j \in Jobs : at[j] \notin HasSlot
    BY <1>0, <2>1 DEF SweepTracks, Held
  <2>5. \A j \in Jobs :
          txn.status[j] = IF db.status[j] \in Unfinished THEN "failed" ELSE db.status[j]
    BY <1>0, <2>1 DEF SweepTracks
  <2>6. PointsFitRows'
    BY <1>0, <1>1, <2>1, <2>4, <2>5
       DEF PointsFitRows, Fits, HasSlot, Served, InHandler, InThread, Unfinished
  <2>7. SweepTracks' /\ Consistent(db')
    BY <1>0, <2>1 DEF SweepTracks
  <2> QED BY <1>2, <1>4, <2>3, <2>6, <2>7 DEF IInv
<1> QED BY <1>5, <1>6 DEF Startup

LEMMA NextIInv == IInv /\ [Next]_vars => IInv'
<1> SUFFICES ASSUME IInv, [Next]_vars PROVE IInv'
  OBVIOUS
<1>1. CASE \E j \in Jobs : Reserve(j) \/ Handler(j)
  BY <1>1, HandlerStep
<1>2. CASE \E j \in Jobs : Worker(j)
  BY <1>2, WorkerStep
<1>3. CASE Pick
  BY <1>3, PickStep
<1>4. CASE Crash
  BY <1>4, CrashStep
<1>5. CASE Startup
  BY <1>5, StartupStep
<1>6. CASE UNCHANGED vars
  BY <1>6 DEF vars, IInv, TypeOK, SlotsExact, PointsFitRows, PoolWaits, SweepTracks,
              Held, HeldBy
<1> QED BY <1>1, <1>2, <1>3, <1>4, <1>5, <1>6 DEF Next

THEOREM Inductive == Spec => []IInv
<1> QED BY InitIInv, NextIInv, PTL DEF Spec

-----------------------------------------------------------------------------
(* What follows from IInv. *)

(* No variable ever leaves its type: in particular no balance is negative. *)
THEOREM TypeCorrect == Spec => []TypeOK
BY Inductive, PTL DEF IInv

(* app/jobs/queue.py: the counters never drift from the jobs on their way *)
(* and the requests that never gave their slot back.                      *)
THEOREM SlotsAlwaysExact == Spec => []SlotsExact
BY Inductive, PTL DEF IInv

(* app/jobs/queue.py, app/api/jobs.py: a refused request costs nothing. *)
THEOREM RefusalAlwaysFree == Spec => []RefusalIsFree
<1>1. IInv => RefusalIsFree
  BY DEF IInv, RefusalIsFree, PointsFitRows, Fits, Consistent
<1> QED BY <1>1, Inductive, PTL

(* app/main.py: the startup sweep settles every row it finds unfinished. *)
THEOREM SweepAlwaysLeavesNothing == Spec => SweepLeavesNothing
<1>1. ASSUME IInv, [Next]_vars, server = "starting", server' = "serving"
      PROVE  \A j \in Jobs : db'.status[j] \notin Unfinished
  <2>1. SweepCommit
    BY <1>1 DEF Next, vars, Handler, Worker, Startup, Reserve, Charge, ChargeShort, FlushFails,
                ChargeBreaks, GiveBack, Enqueue, Pick, Start, StartBreaks, Finish,
                FinishBreaks, Release, Crash, SweepOne
  <2> QED BY <1>1, <2>1 DEF SweepCommit, IInv, SweepTracks, Unfinished
<1> QED BY <1>1, Inductive, PTL DEF Spec, SweepLeavesNothing

-----------------------------------------------------------------------------
(* Credits are conserved: what one job's debit or refund takes from or     *)
(* adds to the owner's balance, it adds to the owner's sum.                *)

LEMMA MoneyTypes ==
    ASSUME NEW d \in Rows, NEW u \in Users
    PROVE  /\ IsFiniteSet(JobsOf(u)) /\ JobsOf(u) \subseteq Jobs
           /\ \A k \in Jobs : Debited(d)[k] \in Nat /\ Refunded(d)[k] \in Nat
           /\ SumFunctionOnSet(Debited(d), JobsOf(u)) \in Nat
           /\ SumFunctionOnSet(Refunded(d), JobsOf(u)) \in Nat
           /\ d.credits[u] \in Nat /\ InitialCredits[u] \in Nat
<1>1. IsFiniteSet(JobsOf(u)) /\ JobsOf(u) \subseteq Jobs
  BY JobsAssumption, FS_Subset DEF JobsOf
<1>2. \A k \in Jobs : Debited(d)[k] \in Nat /\ Refunded(d)[k] \in Nat
  BY JobsAssumption DEF Rows, Debited, Refunded
<1>3. Nat \in {Nat, Int}
  OBVIOUS
<1>4. /\ SumFunctionOnSet(Debited(d), JobsOf(u)) \in Nat
      /\ SumFunctionOnSet(Refunded(d), JobsOf(u)) \in Nat
  BY <1>1, <1>2, <1>3, SumType
<1> QED BY <1>1, <1>2, <1>4, JobsAssumption DEF Rows

(* Only j's amounts and its owner's balance change, by the same difference. *)
LEMMA OneJobMoves ==
    ASSUME NEW d \in Rows, NEW e \in Rows, NEW j \in Jobs, Balanced(d),
           \A k \in Jobs \ {j} : Debited(e)[k] = Debited(d)[k] /\ Refunded(e)[k] = Refunded(d)[k],
           \A u \in Users \ {Owner[j]} : e.credits[u] = d.credits[u],
           e.credits[Owner[j]] = d.credits[Owner[j]]
                                 - (Debited(e)[j] - Debited(d)[j])
                                 + (Refunded(e)[j] - Refunded(d)[j])
    PROVE  Balanced(e)
<1> SUFFICES ASSUME NEW u \in Users
             PROVE  /\ e.credits[u] >= 0
                    /\ e.credits[u] + SumFunctionOnSet(Debited(e), JobsOf(u))
                          = InitialCredits[u] + SumFunctionOnSet(Refunded(e), JobsOf(u))
  BY DEF Balanced
<1>1. d.credits[u] + SumFunctionOnSet(Debited(d), JobsOf(u))
         = InitialCredits[u] + SumFunctionOnSet(Refunded(d), JobsOf(u))
  BY DEF Balanced
<1>2. CASE Owner[j] = u
  <2>1. j \in JobsOf(u)
    BY <1>2 DEF JobsOf
  <2>2. SumFunctionOnSet(Debited(e), JobsOf(u))
           = SumFunctionOnSet(Debited(d), JobsOf(u)) + (Debited(e)[j] - Debited(d)[j])
    BY <2>1, MoneyTypes, SumChange
  <2>3. SumFunctionOnSet(Refunded(e), JobsOf(u))
           = SumFunctionOnSet(Refunded(d), JobsOf(u)) + (Refunded(e)[j] - Refunded(d)[j])
    BY <2>1, MoneyTypes, SumChange
  <2> QED BY <1>1, <1>2, <2>2, <2>3, MoneyTypes
<1>3. CASE Owner[j] # u
  <2>1. j \notin JobsOf(u)
    BY <1>3 DEF JobsOf
  <2>2. /\ SumFunctionOnSet(Debited(e), JobsOf(u)) = SumFunctionOnSet(Debited(d), JobsOf(u))
        /\ SumFunctionOnSet(Refunded(e), JobsOf(u)) = SumFunctionOnSet(Refunded(d), JobsOf(u))
    BY <2>1, MoneyTypes, SumSame
  <2> QED BY <1>1, <1>3, <2>2, MoneyTypes
<1> QED BY <1>2, <1>3

(* create_job's transaction *)
LEMMA ChargedBalances ==
    ASSUME NEW d \in Rows, NEW j \in Jobs, Balanced(d),
           Consistent(d), d.status[j] = "none", CanPay(d, j)
    PROVE  Balanced(Charged(d, j))
<1> DEFINE f == Charged(d, j)
<1>1. f \in Rows
  BY ChargedEffect
<1>2. /\ f.credits = [d.credits EXCEPT ![Owner[j]] = @ - Cost[j]]
      /\ f.debits = [d.debits EXCEPT ![j] = @ + 1]
      /\ f.refunds = d.refunds
  <2> DEFINE e == SetStatus(d, j, "queued")
  <2>1. e.credits = d.credits /\ e.debits = d.debits /\ e.refunds = d.refunds
    BY SetStatusEffect DEF Status, Unfinished
  <2> HIDE DEF e
  <2>2. f = DebitForJob(e, j)
    BY DEF Charged, e
  <2> HIDE DEF f
  <2> QED BY <2>1, <2>2 DEF DebitForJob
<1> HIDE DEF f
<1>3. d.debits[j] = 0 /\ f.debits[j] = 1
  BY <1>2 DEF Consistent, Rows
<1>4. Owner[j] \in Users /\ Cost[j] \in Nat
  BY JobsAssumption
<1>5. Debited(f)[j] = Cost[j] /\ Debited(d)[j] = 0 /\ Refunded(f)[j] = Refunded(d)[j]
  BY <1>2, <1>3, <1>4 DEF Debited, Refunded
<1>6. \A k \in Jobs \ {j} : Debited(f)[k] = Debited(d)[k] /\ Refunded(f)[k] = Refunded(d)[k]
  BY <1>2 DEF Debited, Refunded, Rows
<1>7. /\ \A u \in Users \ {Owner[j]} : f.credits[u] = d.credits[u]
      /\ f.credits[Owner[j]] = d.credits[Owner[j]] - Cost[j]
  BY <1>2, <1>4 DEF Rows
<1>8. f.credits[Owner[j]] = d.credits[Owner[j]] - (Debited(f)[j] - Debited(d)[j])
                                                + (Refunded(f)[j] - Refunded(d)[j])
  BY <1>4, <1>5, <1>7, MoneyTypes DEF Rows
<1>9. Balanced(f)
  BY <1>1, <1>6, <1>7, <1>8, OneJobMoves
<1> QED BY <1>9 DEF f

(* the worker's failure path, and the startup sweep's *)
LEMMA FailAndRefundBalances ==
    ASSUME NEW d \in Rows, NEW j \in Jobs, Balanced(d),
           Consistent(d), d.status[j] \in Unfinished
    PROVE  Balanced(FailAndRefund(d, j))
<1> DEFINE f == FailAndRefund(d, j)
           e == SetStatus(d, j, "failed")
<1>1. f \in Rows
  BY FailAndRefundEffect
<1>2. d.refunds[j] = 0
  BY DEF Consistent, Unfinished
<1>3. Owner[j] \in Users /\ Cost[j] \in Nat \ {0}
  BY JobsAssumption
<1>4. e.credits = d.credits /\ e.debits = d.debits /\ e.refunds = d.refunds
  BY SetStatusEffect DEF Status, Settled
<1>5. /\ f.credits = [d.credits EXCEPT ![Owner[j]] = @ + Cost[j]]
      /\ f.debits = d.debits
      /\ f.refunds = [d.refunds EXCEPT ![j] = @ + 1]
  BY <1>2, <1>3, <1>4 DEF FailAndRefund, RefundJob
<1> HIDE DEF f, e
<1>6. f.refunds[j] = 1
  BY <1>2, <1>5 DEF Rows
<1>7. Refunded(f)[j] = Cost[j] /\ Refunded(d)[j] = 0 /\ Debited(f)[j] = Debited(d)[j]
  BY <1>2, <1>3, <1>5, <1>6 DEF Debited, Refunded
<1>8. \A k \in Jobs \ {j} : Debited(f)[k] = Debited(d)[k] /\ Refunded(f)[k] = Refunded(d)[k]
  BY <1>5 DEF Debited, Refunded, Rows
<1>9. /\ \A u \in Users \ {Owner[j]} : f.credits[u] = d.credits[u]
      /\ f.credits[Owner[j]] = d.credits[Owner[j]] + Cost[j]
  BY <1>3, <1>5 DEF Rows
<1>10. f.credits[Owner[j]] = d.credits[Owner[j]] - (Debited(f)[j] - Debited(d)[j])
                                                 + (Refunded(f)[j] - Refunded(d)[j])
  BY <1>3, <1>7, <1>9, MoneyTypes DEF Rows
<1>11. Balanced(f)
  BY <1>1, <1>8, <1>9, <1>10, OneJobMoves
<1> QED BY <1>11 DEF f

(* Progress of a job moves no credits. *)
LEMMA SetStatusBalances ==
    ASSUME NEW d \in Rows, NEW j \in Jobs, NEW s \in Status, Balanced(d)
    PROVE  Balanced(SetStatus(d, j, s))
BY SetStatusEffect DEF Balanced, Debited, Refunded

LEMMA InitBalanced == Init => CreditsConserved
<1> SUFFICES ASSUME Init PROVE CreditsConserved
  OBVIOUS
<1>1. db = InitialRows /\ server = "serving"
  BY DEF Init
<1>2. db \in Rows
  BY <1>1, JobsAssumption DEF InitialRows, Rows, Status
<1>3. \A j \in Jobs : Debited(db)[j] = Refunded(db)[j]
  BY <1>1 DEF InitialRows, Debited, Refunded
<1>4. \A u \in Users :
         SumFunctionOnSet(Debited(db), JobsOf(u)) = SumFunctionOnSet(Refunded(db), JobsOf(u))
  BY <1>2, <1>3, MoneyTypes, SumSame
<1>5. \A u \in Users : db.credits[u] = InitialCredits[u] /\ InitialCredits[u] \in Nat
  BY <1>1, JobsAssumption DEF InitialRows
<1> QED BY <1>1, <1>4, <1>5 DEF Balanced, CreditsConserved

(* What a step of a job that is served may commit. *)
LEMMA JobKeepsBalance ==
    ASSUME IInv, NEW j \in Jobs, Balanced(db), Reserve(j) \/ Handler(j) \/ Worker(j)
    PROVE  Balanced(db') /\ server' = "serving"
<1>0. /\ db \in Rows /\ Consistent(db) /\ PointsFitRows
  BY DEF IInv, TypeOK
<1>1. CASE Charge(j) \/ ChargeBreaks(j)
  <2>1. db.status[j] = "none" /\ server' = "serving"
    BY <1>0, <1>1 DEF Charge, ChargeBreaks, PointsFitRows, Fits, sweep
  <2>2. db' = db \/ (CanPay(db, j) /\ db' = Charged(db, j))
    BY <1>1 DEF Charge, ChargeBreaks
  <2> QED BY <1>0, <2>1, <2>2, ChargedBalances
<1>2. CASE Start(j) \/ StartBreaks(j) \/ Finish(j)
  <2>1. db.status[j] \in Unfinished /\ server' = "serving"
    BY <1>0, <1>2 DEF Start, StartBreaks, Finish, PointsFitRows, Fits, Unfinished, sweep
  <2>2. \/ db' = db
        \/ \E s \in {"running", "completed"} : db' = SetStatus(db, j, s)
        \/ db' = FailAndRefund(db, j)
    BY <1>2 DEF Start, StartBreaks, Finish
  <2>3. {"running", "completed"} \subseteq Status
    BY DEF Status, Unfinished, Settled
  <2> QED BY <1>0, <2>1, <2>2, <2>3, FailAndRefundBalances, SetStatusBalances
<1>3. CASE \/ Reserve(j) \/ ChargeShort(j) \/ FlushFails(j) \/ GiveBack(j)
           \/ Enqueue(j) \/ FinishBreaks(j) \/ Release(j)
  <2>1. db' = db /\ server' = "serving"
    BY <1>3 DEF Reserve, ChargeShort, FlushFails, GiveBack, Enqueue, FinishBreaks, Release, sweep
  <2> QED BY <2>1
<1> QED BY <1>1, <1>2, <1>3 DEF Handler, Worker

LEMMA NextBalanced == IInv /\ CreditsConserved /\ [Next]_vars => CreditsConserved'
<1> SUFFICES ASSUME IInv, CreditsConserved, [Next]_vars PROVE CreditsConserved'
  OBVIOUS
<1>0. Balanced(db) /\ (server = "starting" => Balanced(txn))
  BY DEF CreditsConserved
<1>1. CASE \E j \in Jobs : Reserve(j) \/ Handler(j) \/ Worker(j)
  BY <1>0, <1>1, JobKeepsBalance DEF CreditsConserved
<1>2. CASE Pick
  BY <1>0, <1>2 DEF Pick, CreditsConserved, sweep
<1>3. CASE Crash
  BY <1>0, <1>3 DEF Crash, CreditsConserved
<1>4. CASE \E j \in Jobs : SweepOne(j)
  <2>1. PICK j \in Jobs : SweepOne(j)
    BY <1>4
  <2>2. /\ server = "starting" /\ j \in stale /\ txn' = FailAndRefund(txn, j) /\ db' = db
    BY <2>1 DEF SweepOne
  <2>3. txn \in Rows /\ Consistent(txn) /\ txn.status[j] \in Unfinished
    BY <2>2 DEF IInv, TypeOK, SweepTracks, Left
  <2>4. Balanced(txn')
    BY <1>0, <2>2, <2>3, FailAndRefundBalances
  <2> QED BY <1>0, <2>2, <2>4 DEF CreditsConserved
<1>5. CASE SweepCommit
  BY <1>0, <1>5 DEF SweepCommit, CreditsConserved
<1>6. CASE UNCHANGED vars
  BY <1>0, <1>6 DEF vars, CreditsConserved
<1> QED BY <1>1, <1>2, <1>3, <1>4, <1>5, <1>6 DEF Next, Startup

(* app/services/credits.py: whatever fails, crashes or is swept, no credit *)
(* is minted or lost by a job, and no balance goes below zero.             *)
THEOREM CreditsAlwaysConserved == Spec => []CreditsConserved
BY Inductive, InitBalanced, NextBalanced, PTL DEF Spec


(* The same in terms of what became of the jobs: an account has paid for   *)
(* those that are delivered or still on their way, and for nothing else.   *)
Price(d) ==
    [j \in Jobs |-> IF d.status[j] \in Unfinished \cup {"completed"} THEN Cost[j] ELSE 0]
PaysForItsJobs ==
    \A u \in Users : db.credits[u] + SumFunctionOnSet(Price(db), JobsOf(u)) = InitialCredits[u]

(* app/services/credits.py, app/workers/enhance.py, app/main.py: no refund *)
(* of a delivered job, and no failed job that is still paid for.           *)
THEOREM AlwaysPaysForItsJobs == Spec => []PaysForItsJobs
<1>1. ASSUME IInv, CreditsConserved PROVE PaysForItsJobs
  <2> SUFFICES ASSUME NEW u \in Users
               PROVE  db.credits[u] + SumFunctionOnSet(Price(db), JobsOf(u)) = InitialCredits[u]
    BY DEF PaysForItsJobs
  <2>1. db \in Rows /\ Consistent(db)
    BY <1>1 DEF IInv, TypeOK
  <2>2. ASSUME NEW j \in Jobs
        PROVE  Price(db)[j] \in Int /\ Debited(db)[j] = Price(db)[j] + Refunded(db)[j]
    <3>1. db.status[j] \in Status /\ Cost[j] \in Nat
      BY <2>1, JobsAssumption DEF Rows
    <3>2. /\ db.debits[j] = IF db.status[j] = "none" THEN 0 ELSE 1
          /\ db.refunds[j] = IF db.status[j] = "failed" THEN 1 ELSE 0
      BY <2>1 DEF Consistent
    <3> QED BY <3>1, <3>2 DEF Price, Debited, Refunded, Status, Unfinished, Settled
  <2>3. IsFiniteSet(JobsOf(u)) /\ JobsOf(u) \subseteq Jobs
    BY <2>1, MoneyTypes
  <2>4. \A j \in JobsOf(u) : /\ Price(db)[j] \in Int /\ Refunded(db)[j] \in Int
                             /\ Debited(db)[j] = Price(db)[j] + Refunded(db)[j]
    BY <2>1, <2>2, <2>3, MoneyTypes
  <2>5. SumFunctionOnSet(Debited(db), JobsOf(u))
           = SumFunctionOnSet(Price(db), JobsOf(u)) + SumFunctionOnSet(Refunded(db), JobsOf(u))
    BY <2>3, <2>4, SumPlus
  <2>6. SumFunctionOnSet(Price(db), JobsOf(u)) \in Int
    BY <2>3, <2>4, SumType
  <2>7. db.credits[u] + SumFunctionOnSet(Debited(db), JobsOf(u))
           = InitialCredits[u] + SumFunctionOnSet(Refunded(db), JobsOf(u))
    BY <1>1 DEF CreditsConserved, Balanced
  <2> QED BY <2>1, <2>5, <2>6, <2>7, MoneyTypes
<1> QED BY <1>1, Inductive, CreditsAlwaysConserved, PTL

-----------------------------------------------------------------------------
(* Who settles a charge.  This is the safety half of ChargedJobSettles:    *)
(* what has to be done is somebody's to do.                                *)

(* A job that waits is in the pool; one whose process died was settled by  *)
(* the sweep before the next one served.                                   *)
Remembered ==
    /\ \A j \in Jobs : at[j] = "waiting" => \E i \in 1..Len(pool) : pool[i] = j
    /\ server = "serving" => \A j \in Jobs : at[j] = "cut" => db.status[j] \notin Unfinished

(* A job that was charged and is not settled is with the thread that       *)
(* serves it, in the pool or among those the sweep settles, or the         *)
(* database failed under its last transaction.                             *)
SomebodyHasIt ==
    \A j \in Jobs :
        db.debits[j] > 0 =>
            \/ db.status[j] \in Settled
            \/ server = "serving" /\ at[j] \in {"committed", "picked", "running"}
            \/ server = "serving" /\ \E i \in 1..Len(pool) : pool[i] = j
            \/ server = "starting" /\ (j \in stale \/ txn.status[j] \in Settled)
            \/ Stranded(j)

LEMMA InitRemembered == Init => Remembered
BY DEF Init, Remembered

(* A step of a request or a worker: it moves its own job and row only. *)
LEMMA JobRemembered ==
    ASSUME IInv, Remembered, NEW j \in Jobs, Reserve(j) \/ Handler(j) \/ Worker(j)
    PROVE  Remembered'
<1>0. TypeOK /\ db \in Rows /\ pool \in Seq(Jobs) /\ server = "serving" /\ server' = "serving"
  BY DEF IInv, TypeOK, Handler, Worker, Reserve, Charge, ChargeShort, FlushFails,
         ChargeBreaks, GiveBack, Enqueue, Start, StartBreaks, Finish, FinishBreaks, Release, sweep
<1>1. PICK p \in Point \ {"cut"} :
        /\ Goto(j, p)
        /\ IF p = "waiting" THEN pool' = Append(pool, j) ELSE pool' = pool
  BY DEF Handler, Worker, Reserve, Charge, ChargeShort, FlushFails,
         ChargeBreaks, GiveBack, Enqueue, Start, StartBreaks, Finish, FinishBreaks, Release,
         Point, Refused, HasSlot, Served, InHandler, InThread
<1>2. \A k \in Jobs \ {j} : db'.status[k] = db.status[k]
  <2>1. \/ db' = db
        \/ db' = Charged(db, j)
        \/ \E s \in {"running", "completed"} : db' = SetStatus(db, j, s)
        \/ db' = FailAndRefund(db, j)
    BY DEF Handler, Worker, Reserve, Charge, ChargeShort, FlushFails,
           ChargeBreaks, GiveBack, Enqueue, Start, StartBreaks, Finish, FinishBreaks, Release
  <2> QED
    BY <1>0, <2>1 DEF Charged, DebitForJob, FailAndRefund, RefundJob, SetStatus, Rows
<1>3. ASSUME NEW k \in Jobs, at'[k] = "waiting"
      PROVE  \E i \in 1..Len(pool') : pool'[i] = k
  <2>1. CASE k = j
    <3>1. pool' = Append(pool, j)
      BY <1>0, <1>1, <1>3, <2>1 DEF Goto, TypeOK
    <3>2. Len(pool) + 1 \in 1..Len(pool') /\ pool'[Len(pool) + 1] = j
      BY <1>0, <3>1
    <3> QED BY <2>1, <3>2
  <2>2. CASE k # j
    <3>1. at[k] = "waiting"
      BY <1>0, <1>1, <1>3, <2>2 DEF Goto, TypeOK
    <3>2. PICK i \in 1..Len(pool) : pool[i] = k
      BY <3>1 DEF Remembered
    <3>3. CASE pool' = Append(pool, j)
      <4>1. i \in 1..Len(pool') /\ pool'[i] = pool[i]
        BY <1>0, <3>2, <3>3
      <4> QED BY <3>2, <4>1
    <3>4. CASE pool' = pool
      BY <3>2, <3>4
    <3> QED BY <1>1, <3>3, <3>4
  <2> QED BY <2>1, <2>2
<1>4. ASSUME NEW k \in Jobs, at'[k] = "cut"
      PROVE  db'.status[k] \notin Unfinished
  <2>1. k # j /\ at[k] = "cut"
    BY <1>0, <1>1, <1>4 DEF Goto, TypeOK
  <2> QED BY <1>0, <1>2, <2>1 DEF Remembered
<1> QED BY <1>3, <1>4 DEF Remembered

(* The thread takes the first of those that wait, and only that one. *)
LEMMA PickRemembered ==
    ASSUME IInv, Remembered, Pick
    PROVE  Remembered'
<1> DEFINE j == Head(pool)
<1>0. /\ TypeOK /\ pool \in Seq(Jobs) /\ pool # <<>> /\ pool' = Tail(pool)
      /\ Goto(j, "picked") /\ db' = db /\ server' = server
  BY DEF IInv, TypeOK, Pick, sweep
<1>1. j \in Jobs /\ j = pool[1] /\ Len(pool) \in Nat /\ Len(pool') = Len(pool) - 1
  BY <1>0
<1> HIDE DEF j
<1>2. ASSUME NEW k \in Jobs, at'[k] = "waiting"
      PROVE  \E i \in 1..Len(pool') : pool'[i] = k
  <2>1. k # j /\ at[k] = "waiting"
    BY <1>0, <1>1, <1>2 DEF Goto, TypeOK
  <2>2. PICK i \in 1..Len(pool) : pool[i] = k
    BY <2>1 DEF Remembered
  <2>3. i # 1
    BY <1>1, <2>1, <2>2
  <2>4. i - 1 \in 1..Len(pool') /\ pool'[i - 1] = pool[i]
    BY <1>0, <1>1, <2>2, <2>3
  <2> QED BY <2>2, <2>4
<1>3. ASSUME NEW k \in Jobs, server = "serving", at'[k] = "cut"
      PROVE  db'.status[k] \notin Unfinished
  <2>1. at[k] = "cut"
    BY <1>0, <1>1, <1>3 DEF Goto, TypeOK
  <2> QED BY <1>0, <1>3, <2>1 DEF Remembered
<1> QED BY <1>0, <1>2, <1>3 DEF Remembered

LEMMA NextRemembered == IInv /\ Remembered /\ [Next]_vars => Remembered'
<1> SUFFICES ASSUME IInv, Remembered, [Next]_vars PROVE Remembered'
  OBVIOUS
<1>1. CASE \E j \in Jobs : Reserve(j) \/ Handler(j) \/ Worker(j)
  BY <1>1, JobRemembered
<1>2. CASE Pick
  BY <1>2, PickRemembered
<1>3. CASE Crash
  <2>1. /\ at' = [j \in Jobs |-> IF at[j] \in HasSlot THEN "cut" ELSE at[j]]
        /\ server' = "starting"
    BY <1>3 DEF Crash
  <2>2. \A j \in Jobs : at'[j] # "waiting"
    BY <2>1 DEF HasSlot, Served
  <2> QED BY <2>1, <2>2 DEF Remembered
<1>4. CASE \E j \in Jobs : SweepOne(j)
  BY <1>4 DEF SweepOne, Remembered
<1>5. CASE SweepCommit
  <2>1. \A j \in Jobs : db'.status[j] \notin Unfinished
    BY <1>5 DEF SweepCommit, IInv, SweepTracks, Unfinished
  <2>2. at' = at /\ pool' = pool
    BY <1>5 DEF SweepCommit
  <2> QED BY <2>1, <2>2 DEF Remembered
<1>6. CASE UNCHANGED vars
  BY <1>6 DEF vars, Remembered
<1> QED BY <1>1, <1>2, <1>3, <1>4, <1>5, <1>6 DEF Next, Startup

(* app/jobs/queue.py, app/workers/enhance.py, app/main.py: no charged job  *)
(* is forgotten, between any two steps and across crashes.                 *)
THEOREM NobodyIsForgotten == Spec => []SomebodyHasIt
<1>1. Spec => []Remembered
  BY Inductive, InitRemembered, NextRemembered, PTL DEF Spec
<1>2. ASSUME IInv, Remembered PROVE SomebodyHasIt
  <2> SUFFICES ASSUME NEW j \in Jobs, db.debits[j] > 0, db.status[j] \notin Settled
               PROVE  \/ server = "serving" /\ at[j] \in {"committed", "picked", "running"}
                      \/ server = "serving" /\ \E i \in 1..Len(pool) : pool[i] = j
                      \/ server = "starting" /\ (j \in stale \/ txn.status[j] \in Settled)
                      \/ Stranded(j)
    BY DEF SomebodyHasIt
  <2>1. /\ db \in Rows /\ at[j] \in Point /\ server \in {"serving", "starting"}
        /\ Consistent(db) /\ Fits(at[j], db.status[j]) /\ SweepTracks
    BY <1>2 DEF IInv, TypeOK, PointsFitRows
  <2>2. db.status[j] \in Unfinished
    BY <2>1 DEF Consistent, Rows, Status
  <2>3. CASE server = "starting"
    BY <2>1, <2>2, <2>3 DEF SweepTracks, Settled
  <2>4. CASE server = "serving"
    <3>1. at[j] # "cut" /\ (at[j] = "waiting" => \E i \in 1..Len(pool) : pool[i] = j)
      BY <1>2, <2>2, <2>4 DEF Remembered
    <3>2. at[j] \in {"committed", "waiting", "picked", "running",
                    "broken", "error", "releasing", "done"}
      BY <2>1, <2>2, <3>1
         DEF Fits, Point, Refused, HasSlot, Served, InHandler, InThread, Unfinished
    <3> QED BY <2>2, <2>4, <3>1, <3>2 DEF Stranded
  <2> QED BY <2>1, <2>3, <2>4
<1> QED BY <1>1, <1>2, Inductive, PTL

-----------------------------------------------------------------------------
(* The limits themselves. *)

(* No more jobs are in flight than the queue takes, in total and per       *)
(* account.                                                                *)
LimitsKept ==
    /\ Cardinality(Held) <= MaxQueuedJobs
    /\ \A u \in Users : Cardinality(HeldBy(u)) <= MaxQueuedJobsPerUser

CountersBounded ==
    inFlight <= MaxQueuedJobs /\ \A u \in Users : perUser[u] <= MaxQueuedJobsPerUser

(* app/jobs/queue.py: the check and the increment are one step, and no     *)
(* slot is given back that was not held.                                   *)
THEOREM LimitsAlwaysKept == Spec => []LimitsKept
<1>1. Init => CountersBounded
  BY LimitsAssumption DEF Init, CountersBounded
<1>2. ASSUME TypeOK, CountersBounded, [Next]_vars PROVE CountersBounded'
  <2>0. /\ inFlight \in Nat /\ perUser \in [Users -> Nat]
        /\ MaxQueuedJobs \in Nat /\ MaxQueuedJobsPerUser \in Nat
        /\ \A j \in Jobs : Owner[j] \in Users
    BY <1>2, LimitsAssumption, JobsAssumption DEF TypeOK
  <2>1. CASE UNCHANGED slots
    BY <1>2, <2>1 DEF CountersBounded, slots
  <2>2. ASSUME NEW j \in Jobs, Reserve(j), ~UNCHANGED slots PROVE CountersBounded'
    <3>1. /\ perUser[Owner[j]] < MaxQueuedJobsPerUser /\ inFlight < MaxQueuedJobs
          /\ inFlight' = inFlight + 1
          /\ perUser' = [perUser EXCEPT ![Owner[j]] = @ + 1]
      BY <2>0, <2>2 DEF Reserve, UserAtCap, QueueAtCap
    <3> QED BY <1>2, <2>0, <3>1 DEF CountersBounded
  <2>3. ASSUME NEW j \in Jobs, FreeSlot(j) PROVE CountersBounded'
    <3>1. /\ inFlight' <= inFlight
          /\ perUser' = [perUser EXCEPT ![Owner[j]] = IF @ > 1 THEN @ - 1 ELSE 0]
      BY <2>0, <2>3 DEF FreeSlot
    <3>2. \A u \in Users : perUser'[u] <= perUser[u] /\ perUser'[u] \in Nat
      BY <2>0, <3>1
    <3>3. inFlight' \in Nat
      BY <2>0, <2>3 DEF FreeSlot
    <3> QED BY <1>2, <2>0, <3>1, <3>2, <3>3 DEF CountersBounded
  <2>4. CASE Crash
    BY <2>0, <2>4 DEF Crash, CountersBounded
  <2> QED
    BY <1>2, <2>1, <2>2, <2>3, <2>4
       DEF Next, vars, Handler, Worker, Startup, Charge, ChargeShort, FlushFails,
           ChargeBreaks, GiveBack, Enqueue, Pick, Start, StartBreaks, Finish, FinishBreaks, Release, SweepOne,
           SweepCommit, slots
<1>3. IInv => TypeOK /\ SlotsExact
  BY DEF IInv
<1>4. SlotsExact /\ CountersBounded => LimitsKept
  BY DEF SlotsExact, CountersBounded, LimitsKept
<1> QED BY <1>1, <1>2, <1>3, <1>4, Inductive, PTL DEF Spec

-----------------------------------------------------------------------------
(* The counters implement the set of jobs in flight. *)

(* The two modules mean the same cardinality. *)
LEMMA SameCardinality ==
    ASSUME NEW S
    PROVE  AdmissionOfSlots!Cardinality(S) = Cardinality(S)
BY Zenon DEF Cardinality, AdmissionOfSlots!Cardinality

LEMMA AdmissionInit == Init => AdmissionOfSlots!Init
BY DEF Init, AdmissionOfSlots!Init, Held, HasSlot, Served, InHandler, InThread

LEMMA AdmissionStep ==
    IInv /\ [Next]_vars => [AdmissionOfSlots!Next]_Held
<1> SUFFICES ASSUME IInv, [Next]_vars PROVE AdmissionOfSlots!Next \/ Held' = Held
  OBVIOUS
<1> USE DEF HasSlot, Served, InHandler, InThread
<1>0. TypeOK /\ SlotsExact /\ PoolWaits /\ SweepTracks
  BY DEF IInv
<1>1. ASSUME NEW j \in Jobs, Reserve(j), Goto(j, "reserved") PROVE AdmissionOfSlots!Next
  <2>1. /\ at[j] = "new" /\ Owner[j] \in Users
        /\ inFlight < MaxQueuedJobs
        /\ perUser[Owner[j]] < MaxQueuedJobsPerUser
    <3>1. at'[j] = "reserved" /\ at[j] = "new"
      BY <1>0, <1>1 DEF Reserve, Goto, TypeOK
    <3>2. ~UserAtCap(Owner[j]) /\ ~QueueAtCap
      BY <1>0, <1>1, <3>1 DEF Reserve, Goto, TypeOK
    <3> QED BY <1>0, <3>1, <3>2, JobsAssumption, LimitsAssumption
            DEF UserAtCap, QueueAtCap, TypeOK
  <2>2. Held' = Held \cup {j} /\ j \notin Held
    BY <1>0, <1>1, <2>1 DEF Held, Goto, TypeOK
  <2>3. /\ Cardinality(Held) < MaxQueuedJobs
        /\ Cardinality(HeldBy(Owner[j])) < MaxQueuedJobsPerUser
    BY <1>0, <2>1 DEF SlotsExact
  <2>4. Cardinality(AdmissionOfSlots!HeldBy(Owner[j])) < MaxQueuedJobsPerUser
    BY <2>3 DEF AdmissionOfSlots!HeldBy, HeldBy
  <2>5. AdmissionOfSlots!Admit(j)
    BY <2>2, <2>3, <2>4, SameCardinality DEF AdmissionOfSlots!Admit
  <2> QED BY <2>5 DEF AdmissionOfSlots!Next
<1>2. ASSUME NEW j \in Jobs, NEW p \in Point, Goto(j, p),
             at[j] \in HasSlot, p \notin HasSlot
      PROVE  AdmissionOfSlots!Next
  <2>1. Held' = Held \ {j} /\ j \in Held
    BY <1>0, <1>2 DEF Held, Goto, TypeOK
  <2> QED BY <2>1 DEF AdmissionOfSlots!Next, AdmissionOfSlots!Leave
<1>3. ASSUME NEW j \in Jobs, NEW p \in Point, Goto(j, p),
             at[j] \in HasSlot <=> p \in HasSlot
      PROVE  Held' = Held
  BY <1>0, <1>3, SlotKept
<1>4. CASE \E j \in Jobs : Reserve(j)
  <2>1. PICK j \in Jobs : Reserve(j)
    BY <1>4
  <2>2. at[j] = "new" /\ (Goto(j, "limited") \/ Goto(j, "full") \/ Goto(j, "reserved"))
    BY <2>1 DEF Reserve
  <2>3. CASE Goto(j, "reserved")
    BY <1>1, <2>1, <2>3
  <2>4. CASE Goto(j, "limited") \/ Goto(j, "full")
    BY <1>3, <2>2, <2>4 DEF Point, Refused
  <2> QED BY <2>2, <2>3, <2>4
<1>5. CASE \E j \in Jobs : Handler(j) \/ Worker(j)
  <2>1. PICK j \in Jobs : Handler(j) \/ Worker(j)
    BY <1>5
  <2>2. CASE GiveBack(j)
    <3>1. /\ at[j] \in HasSlot
          /\ Goto(j, "unpaid") \/ Goto(j, "error") \/ Goto(j, "leaked")
      BY <2>2 DEF GiveBack
    <3> QED BY <1>2, <1>3, <3>1 DEF Point, Refused
  <2>3. CASE Release(j)
    BY <1>2, <2>3 DEF Release, Point
  <2>4. CASE \/ Charge(j) \/ ChargeShort(j) \/ FlushFails(j) \/ ChargeBreaks(j)
             \/ Enqueue(j) \/ Start(j) \/ StartBreaks(j) \/ Finish(j) \/ FinishBreaks(j)
    <3>1. /\ at[j] \in HasSlot
          /\ \E p \in HasSlot : Goto(j, p)
      BY <2>4 DEF Charge, ChargeShort, FlushFails, ChargeBreaks, Enqueue, Start, StartBreaks,
                  Finish, FinishBreaks
    <3> QED BY <1>3, <3>1 DEF Point
  <2> QED BY <2>1, <2>2, <2>3, <2>4 DEF Handler, Worker
<1>6. CASE Pick
  <2>1. pool[1] \in Jobs /\ at[pool[1]] = "waiting" /\ Goto(pool[1], "picked")
    BY <1>0, <1>6 DEF Pick, TypeOK, PoolWaits
  <2> QED BY <1>3, <2>1 DEF Point
<1>7. CASE Crash
  <2>1. Held' = {}
    BY <1>7 DEF Crash, Held
  <2> QED BY <2>1 DEF AdmissionOfSlots!Next, AdmissionOfSlots!Restart
<1>8. CASE Startup \/ UNCHANGED vars
  BY <1>8 DEF Startup, SweepOne, SweepCommit, vars, Held
<1> QED BY <1>4, <1>5, <1>6, <1>7, <1>8 DEF Next

(* app/jobs/queue.py: the limits of the configuration hold for the set of  *)
(* jobs in flight whatever the interleaving and wherever a crash falls.    *)
THEOREM AdmissionHolds == Spec => AdmissionRefined
<1> QED BY AdmissionInit, AdmissionStep, Inductive, PTL
        DEF Spec, AdmissionRefined, AdmissionOfSlots!Spec

-----------------------------------------------------------------------------
(* The rows implement the promised life of a job. *)

(* In consistent rows the status alone tells the outcome. *)
LEMMA OutcomeOfStatus ==
    ASSUME NEW d \in Rows, Consistent(d), NEW j \in Jobs
    PROVE  /\ d.status[j] = "none" => OutcomeIn(d, j) = "none"
           /\ d.status[j] \in Unfinished => OutcomeIn(d, j) = "charged"
           /\ d.status[j] = "completed" => OutcomeIn(d, j) = "delivered"
           /\ d.status[j] = "failed" => OutcomeIn(d, j) = "refunded"
BY DEF Consistent, OutcomeIn, Unfinished

(* Rows that agree on the statuses agree on the outcomes. *)
LEMMA SameOutcome ==
    ASSUME NEW d \in Rows, Consistent(d), NEW e \in Rows, Consistent(e), NEW j \in Jobs,
           d.status[j] = e.status[j] \/ {d.status[j], e.status[j]} \subseteq Unfinished
    PROVE  OutcomeIn(d, j) = OutcomeIn(e, j)
<1>1. d.status[j] \in Status /\ e.status[j] \in Status
  BY DEF Rows
<1>2. CASE {d.status[j], e.status[j]} \subseteq Unfinished
  BY <1>2, OutcomeOfStatus
<1>3. CASE d.status[j] = e.status[j]
  BY <1>1, <1>3, OutcomeOfStatus DEF Status, Settled
<1> QED BY <1>2, <1>3

LEMMA LifecycleInit == Init => Lifecycle!Init
BY DEF Init, InitialRows, OutcomeIn, Lifecycle!Init

LEMMA LifecycleStep ==
    IInv /\ IInv' /\ [Next]_vars
        => [Lifecycle!Next]_[j \in Jobs |-> OutcomeIn(db, j)]
<1> DEFINE out == [j \in Jobs |-> OutcomeIn(db, j)]
<1> SUFFICES ASSUME IInv, IInv', [Next]_vars PROVE Lifecycle!Next \/ UNCHANGED out
  OBVIOUS
<1>0. /\ db \in Rows /\ db' \in Rows /\ Consistent(db) /\ Consistent(db')
      /\ PointsFitRows /\ SweepTracks
  BY DEF IInv, TypeOK
<1>1. \A k \in Jobs :
        db'.status[k] = db.status[k] \/ {db.status[k], db'.status[k]} \subseteq Unfinished
          => OutcomeIn(db', k) = OutcomeIn(db, k)
  BY <1>0, SameOutcome
<1>2. CASE UNCHANGED db
  BY <1>2
<1>3. ASSUME NEW j \in Jobs, db.status[j] = "none", db' = Charged(db, j), CanPay(db, j)
      PROVE  Lifecycle!Next
  <2>1. db'.status = [db.status EXCEPT ![j] = "queued"]
    BY <1>0, <1>3, ChargedEffect
  <2>2. OutcomeIn(db, j) = "none" /\ OutcomeIn(db', j) = "charged"
    BY <1>0, <1>3, <2>1, OutcomeOfStatus DEF Rows, Unfinished
  <2>3. \A k \in Jobs \ {j} : OutcomeIn(db', k) = OutcomeIn(db, k)
    BY <1>0, <1>1, <2>1 DEF Rows
  <2>4. Lifecycle!Charge(j)
    BY <2>2, <2>3 DEF Lifecycle!Charge
  <2> QED BY <2>4 DEF Lifecycle!Next
<1>4. ASSUME NEW j \in Jobs, db.status[j] \in Unfinished, db' = SetStatus(db, j, "running")
      PROVE  UNCHANGED out
  <2>1. db'.status = [db.status EXCEPT ![j] = "running"]
    BY <1>0, <1>4, MoveEffect
  <2>2. \A k \in Jobs : OutcomeIn(db', k) = OutcomeIn(db, k)
    BY <1>0, <1>1, <1>4, <2>1 DEF Rows, Unfinished
  <2> QED BY <2>2
<1>5. ASSUME NEW j \in Jobs, db.status[j] \in Unfinished, db' = SetStatus(db, j, "completed")
      PROVE  Lifecycle!Next
  <2>1. db'.status = [db.status EXCEPT ![j] = "completed"]
    BY <1>0, <1>5, MoveEffect
  <2>2. OutcomeIn(db, j) = "charged" /\ OutcomeIn(db', j) = "delivered"
    BY <1>0, <1>5, <2>1, OutcomeOfStatus DEF Rows
  <2>3. \A k \in Jobs \ {j} : OutcomeIn(db', k) = OutcomeIn(db, k)
    BY <1>0, <1>1, <2>1 DEF Rows
  <2>4. Lifecycle!Deliver(j)
    BY <2>2, <2>3 DEF Lifecycle!Deliver
  <2> QED BY <2>4 DEF Lifecycle!Next
<1>6. ASSUME NEW S \in SUBSET Jobs, \A j \in S : db.status[j] \in Unfinished,
             \A k \in Jobs : db'.status[k] = IF k \in S THEN "failed" ELSE db.status[k]
      PROVE  Lifecycle!Next
  <2>1. \A j \in S : OutcomeIn(db, j) = "charged" /\ OutcomeIn(db', j) = "refunded"
    BY <1>0, <1>6, OutcomeOfStatus
  <2>2. \A k \in Jobs \ S : OutcomeIn(db', k) = OutcomeIn(db, k)
    BY <1>1, <1>6
  <2>3. Lifecycle!Refund(S)
    BY <2>1, <2>2 DEF Lifecycle!Refund
  <2> QED BY <2>3 DEF Lifecycle!Next
<1>7. CASE \E j \in Jobs : Reserve(j) \/ Handler(j)
  <2>1. PICK j \in Jobs : Reserve(j) \/ Handler(j)
    BY <1>7
  <2>2. CASE Charge(j) \/ ChargeBreaks(j)
    <3>1. db.status[j] = "none"
      BY <1>0, <2>2 DEF Charge, ChargeBreaks, PointsFitRows, Fits
    <3> QED BY <1>2, <1>3, <2>2, <3>1 DEF Charge, ChargeBreaks
  <2>3. CASE \/ Reserve(j) \/ ChargeShort(j) \/ FlushFails(j) \/ GiveBack(j)
             \/ Enqueue(j)
    BY <1>2, <2>3 DEF Reserve, ChargeShort, FlushFails, GiveBack, Enqueue
  <2> QED BY <2>1, <2>2, <2>3 DEF Handler
<1>8. CASE \E j \in Jobs : Worker(j)
  <2>1. PICK j \in Jobs : Worker(j)
    BY <1>8
  <2>2. CASE Release(j) \/ FinishBreaks(j)
    BY <1>2, <2>2 DEF Release, FinishBreaks
  <2>3. CASE Start(j) \/ StartBreaks(j) \/ Finish(j)
    <3>1. db.status[j] \in Unfinished
      BY <1>0, <2>3 DEF Start, StartBreaks, Finish, PointsFitRows, Fits, Unfinished
    <3>2. CASE db' = FailAndRefund(db, j)
      <4>1. db'.status = [db.status EXCEPT ![j] = "failed"]
        BY <1>0, <3>1, <3>2, FailAndRefundEffect
      <4>2. \A k \in Jobs : db'.status[k] = IF k \in {j} THEN "failed" ELSE db.status[k]
        BY <1>0, <4>1 DEF Rows
      <4> QED BY <1>6, <3>1, <4>2
    <3>3. \/ db' = db \/ db' = SetStatus(db, j, "running")
          \/ db' = SetStatus(db, j, "completed") \/ db' = FailAndRefund(db, j)
      BY <2>3 DEF Start, StartBreaks, Finish
    <3> QED BY <1>2, <1>4, <1>5, <3>1, <3>2, <3>3
  <2> QED BY <2>1, <2>2, <2>3 DEF Worker
<1>9. CASE SweepCommit
  <2>1. \A k \in Jobs : db'.status[k] = IF k \in Left(db) THEN "failed" ELSE db.status[k]
    BY <1>0, <1>9 DEF SweepCommit, SweepTracks, Left
  <2> QED BY <1>6, <2>1 DEF Left
<1>10. CASE Pick \/ Crash \/ (\E j \in Jobs : SweepOne(j)) \/ UNCHANGED vars
  BY <1>2, <1>10 DEF Pick, Crash, SweepOne, vars
<1> QED BY <1>7, <1>8, <1>9, <1>10 DEF Next, Startup

(* app/api/jobs.py, app/workers/enhance.py, app/main.py: every job that is *)
(* charged is charged once and ends delivered or refunded, never both,     *)
(* across every interleaving, failed commit and crash.                     *)
THEOREM LifecycleHolds == Spec => LifecycleRefined
<1> QED BY LifecycleInit, LifecycleStep, Inductive, PTL
        DEF Spec, LifecycleRefined, Lifecycle!Spec

=============================================================================
