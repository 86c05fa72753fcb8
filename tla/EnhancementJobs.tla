-------------------------- MODULE EnhancementJobs --------------------------
(***************************************************************************)
(* One server process turning POST /jobs requests into enhancement jobs:   *)
(* the request handler (app/api/jobs.py), the slot counters and the thread *)
(* pool (app/jobs/queue.py), the worker (app/workers/enhance.py), the      *)
(* credit movements (app/services/credits.py) and the sweep that runs when *)
(* the process starts (app/main.py).                                       *)
(*                                                                         *)
(* A member of Jobs is one POST /jobs request and the row it may create.   *)
(* The handler runs in a request thread, the worker in a pool thread; both *)
(* are one flow of control per job, at[j].  The database is shared by all  *)
(* of them and survives the process; each action that writes it is one     *)
(* committed transaction (the conditional UPDATE keeps the user's row      *)
(* locked until the commit, so no other transaction comes between).        *)
(***************************************************************************)
EXTENDS Naturals, FiniteSets, FiniteSetsExt, Sequences

CONSTANTS
    Users,               \* accounts
    Jobs,                \* POST /jobs requests, and the job rows they create
    Owner,               \* Owner[j]: the account that sends request j
    Cost,                \* Cost[j]: job_cost of the image that j enhances
    InitialCredits,      \* InitialCredits[u]: balance before any of the jobs
    MaxConcurrentJobs,   \* settings.max_concurrent_jobs: threads of the pool
    MaxQueuedJobs,       \* settings.max_queued_jobs
    MaxQueuedJobsPerUser,\* settings.max_queued_jobs_per_user
    MaxCrashes           \* bound on the crashes of the process

ASSUME JobsAssumption ==
    /\ IsFiniteSet(Jobs)
    /\ Owner \in [Jobs -> Users]
    /\ Cost \in [Jobs -> Nat \ {0}]   \* job_cost returns 1, 2, 4 or 8
    /\ InitialCredits \in [Users -> Nat]

ASSUME LimitsAssumption ==
    /\ MaxConcurrentJobs \in Nat \ {0}
    /\ MaxQueuedJobs \in Nat \ {0}
    /\ MaxQueuedJobsPerUser \in Nat \ {0}
    /\ MaxCrashes \in Nat

VARIABLES
    at,        \* at[j]: where the thread that serves j is
    inFlight,  \* queue._in_flight
    perUser,   \* queue._per_user; 0 stands for "no entry"
    pool,      \* jobs submitted to the executor and not yet taken by a thread
    db,        \* committed rows: users.credits, jobs.status, ledger rows per job
    server,    \* "serving" requests, or "starting": running the startup sweep
    txn,       \* the rows as the sweep's open transaction sees them
    stale,     \* the rows the sweep selected and has not handled yet
    crashes    \* crashes so far

vars == <<at, inFlight, perUser, pool, db, server, txn, stale, crashes>>

-----------------------------------------------------------------------------
(* Control points.  The answer a request ends with is part of its point:   *)
(* "limited" 429, "full" 503, "unpaid" 402, "error" 500, and "leaked" 500  *)
(* by a request that never gave its slot back.  "cut" means the process    *)
(* died while the slot was held.                                           *)

Refused    == {"limited", "full", "unpaid", "error"}
InHandler  == {"reserved", "committed", "short", "broken", "expired"}
InThread   == {"picked", "running", "releasing"}
Served     == InHandler \cup {"waiting"} \cup InThread
HasSlot    == Served \cup {"leaked"}
Point      == {"new", "done", "cut"} \cup Refused \cup HasSlot

Unfinished == {"queued", "running"}
Settled    == {"completed", "failed"}
Status     == {"none"} \cup Unfinished \cup Settled

Rows == [credits : [Users -> Nat],
         status  : [Jobs -> Status],   \* "none": no row
         debits  : [Jobs -> Nat],      \* ledger rows with reason job_debit
         refunds : [Jobs -> Nat]]      \* ledger rows with reason job_refund

InitialRows == [credits |-> InitialCredits,
                status  |-> [j \in Jobs |-> "none"],
                debits  |-> [j \in Jobs |-> 0],
                refunds |-> [j \in Jobs |-> 0]]

(* Outside the sweep txn means nothing; it is parked at one value. *)
NoTxn == InitialRows

(* A leaked slot is held too, as far as the counters go. *)
Held      == {j \in Jobs : at[j] \in HasSlot}
HeldBy(u) == {j \in Held : Owner[j] = u}
Busy      == {j \in Jobs : at[j] \in InThread}
Left_RunningOnly(d) == {j \in Jobs : d.status[j] = "running"}
Left(d)   == {j \in Jobs : d.status[j] \in Unfinished}

Goto(j, p) == at' = [at EXCEPT ![j] = p]

SetStatus(d, j, s) == [d EXCEPT !.status[j] = s]

-----------------------------------------------------------------------------
(* app/services/credits.py.  Here and below, a name with an underscore is  *)
(* the definition after it with a plausible bug in it: no action uses it,  *)
(* it is there to show which property would notice.                        *)

CanPay_Unchecked(d, j) == TRUE
CanPay(d, j) == d.credits[Owner[j]] >= Cost[j]

DebitForJob(d, j) ==
    [credits |-> [d.credits EXCEPT ![Owner[j]] = @ - Cost[j]],
     status  |-> d.status,
     debits  |-> [d.debits EXCEPT ![j] = @ + 1],
     refunds |-> d.refunds]

RefundJob_NoLedgerRow(d, j) == [d EXCEPT !.credits[Owner[j]] = @ + Cost[j]]
RefundJob(d, j) ==
    IF Cost[j] = 0 \/ d.refunds[j] > 0
    THEN d
    ELSE [credits |-> [d.credits EXCEPT ![Owner[j]] = @ + Cost[j]],
          status  |-> d.status,
          debits  |-> d.debits,
          refunds |-> [d.refunds EXCEPT ![j] = @ + 1]]

(* What every path that gives up on a job commits. *)
FailAndRefund_KeepCredits(d, j) == SetStatus(d, j, "failed")
FailAndRefund(d, j) == RefundJob(SetStatus(d, j, "failed"), j)

-----------------------------------------------------------------------------
Init ==
    /\ at = [j \in Jobs |-> "new"]
    /\ inFlight = 0
    /\ perUser = [u \in Users |-> 0]
    /\ pool = <<>>
    /\ db = InitialRows
    /\ server = "serving"
    /\ txn = NoTxn
    /\ stale = {}
    /\ crashes = 0

sweep == <<server, txn, stale, crashes>>
slots == <<inFlight, perUser>>

UserAtCap(u) == perUser[u] >= MaxQueuedJobsPerUser

QueueAtCap_Late == inFlight > MaxQueuedJobs
QueueAtCap == inFlight >= MaxQueuedJobs

(* queue.reserve: the account's own cap is looked at before the global one *)
Reserve(j) ==
    /\ server = "serving"
    /\ at[j] = "new"
    /\ \/ /\ UserAtCap(Owner[j])
          /\ Goto(j, "limited")
          /\ UNCHANGED slots
       \/ /\ ~UserAtCap(Owner[j]) /\ QueueAtCap
          /\ Goto(j, "full")
          /\ UNCHANGED slots
       \/ /\ ~UserAtCap(Owner[j]) /\ ~QueueAtCap
          /\ Goto(j, "reserved")
          /\ inFlight' = inFlight + 1
          /\ perUser' = [perUser EXCEPT ![Owner[j]] = @ + 1]
    /\ UNCHANGED <<pool, db, sweep>>

(* The bookkeeping of queue.release *)
FreeSlot(j) ==
    /\ inFlight' = IF inFlight > 0 THEN inFlight - 1 ELSE 0
    /\ perUser' = [perUser EXCEPT ![Owner[j]] = IF @ > 1 THEN @ - 1 ELSE 0]

Charged(d, j) == DebitForJob(SetStatus(d, j, "queued"), j)

(* Job row, debit and commit in one transaction. *)
Charge(j) ==
    /\ server = "serving"
    /\ at[j] = "reserved"
    /\ CanPay(db, j)
    /\ db' = Charged(db, j)
    /\ Goto(j, "committed")
    /\ UNCHANGED <<slots, pool, sweep>>

(* InsufficientCredits: the row flushed above is rolled back *)
ChargeShort_NoRollback(j) ==
    /\ server = "serving"
    /\ at[j] = "reserved"
    /\ ~CanPay(db, j)
    /\ db' = SetStatus(db, j, "queued")
    /\ Goto(j, "short")
    /\ UNCHANGED <<slots, pool, sweep>>
ChargeShort(j) ==
    /\ server = "serving"
    /\ at[j] = "reserved"
    /\ ~CanPay(db, j)
    /\ Goto(j, "short")
    /\ UNCHANGED <<slots, pool, db, sweep>>

(* The flush of the job's row fails, or the one that the commit begins     *)
(* with: the image was deleted since it was read, or the database is away. *)
(* The session rolls back, forgets what it has read of the account, and    *)
(* refuses to read it again.                                               *)
FlushFails(j) ==
    /\ server = "serving"
    /\ at[j] = "reserved"
    /\ Goto(j, "expired")
    /\ UNCHANGED <<slots, pool, db, sweep>>

(* The UPDATE or the COMMIT itself fails: nothing was written, or the      *)
(* commit was applied and only its answer was lost.  The account read at   *)
(* the start of the request is still at hand.                              *)
ChargeBreaks(j) ==
    /\ server = "serving"
    /\ at[j] = "reserved"
    /\ \/ UNCHANGED db
       \/ CanPay(db, j) /\ db' = Charged(db, j)
    /\ Goto(j, "broken")
    /\ UNCHANGED <<slots, pool, sweep>>

(* "except BaseException: release(user.id), raise".  user.id comes before  *)
(* the release: an account the session has forgotten is read again, which  *)
(* fails after a failed flush, and may fail after the rollback of a 402.   *)
GiveBack_OnlyOnError(j) ==
    /\ server = "serving"
    /\ \/ at[j] = "broken" /\ FreeSlot(j) /\ Goto(j, "error")
       \/ at[j] = "short" /\ UNCHANGED slots /\ Goto(j, "unpaid")
       \/ at[j] = "expired" /\ UNCHANGED slots /\ Goto(j, "leaked")
    /\ UNCHANGED <<pool, db, sweep>>
GiveBack(j) ==
    /\ server = "serving"
    /\ \/ at[j] = "broken" /\ FreeSlot(j) /\ Goto(j, "error")
       \/ at[j] = "short" /\ FreeSlot(j) /\ Goto(j, "unpaid")
       \/ at[j] \in {"short", "expired"} /\ UNCHANGED slots /\ Goto(j, "leaked")
    /\ UNCHANGED <<pool, db, sweep>>

Enqueue_Dropped(j) ==
    /\ server = "serving"
    /\ at[j] = "committed"
    /\ Goto(j, "waiting")
    /\ UNCHANGED <<slots, pool, db, sweep>>
Enqueue(j) ==
    /\ server = "serving"
    /\ at[j] = "committed"
    /\ pool' = Append(pool, j)
    /\ Goto(j, "waiting")
    /\ UNCHANGED <<slots, db, sweep>>

(* A thread of the executor takes the oldest submission. *)
Pick ==
    /\ server = "serving"
    /\ pool # <<>>
    /\ Cardinality(Busy) < MaxConcurrentJobs
    /\ Goto(Head(pool), "picked")
    /\ pool' = Tail(pool)
    /\ UNCHANGED <<slots, db, sweep>>

Start(j) ==
    /\ server = "serving"
    /\ at[j] = "picked"
    /\ db' = SetStatus(db, j, "running")
    /\ Goto(j, "running")
    /\ UNCHANGED <<slots, pool, sweep>>

(* The database fails before the worker's own handler is in place: the     *)
(* exception reaches _run_and_release, whether or not the commit applied.  *)
StartBreaks(j) ==
    /\ server = "serving"
    /\ at[j] = "picked"
    /\ db' \in {db, SetStatus(db, j, "running")}
    /\ Goto(j, "releasing")
    /\ UNCHANGED <<slots, pool, sweep>>

(* The pipeline ends and its outcome is committed. *)
Finish(j) ==
    /\ server = "serving"
    /\ at[j] = "running"
    /\ \/ db' = SetStatus(db, j, "completed")
       \/ db' = FailAndRefund(db, j)
    /\ Goto(j, "releasing")
    /\ UNCHANGED <<slots, pool, sweep>>

(* The last commit fails: the exception is logged by _run_and_release and  *)
(* the row keeps saying "running".                                         *)
FinishBreaks(j) ==
    /\ server = "serving"
    /\ at[j] = "running"
    /\ Goto(j, "releasing")
    /\ UNCHANGED <<slots, pool, db, sweep>>

(* the "finally" of _run_and_release *)
Release_OnSuccess(j) ==
    /\ server = "serving"
    /\ at[j] = "releasing"
    /\ db.status[j] = "completed"
    /\ FreeSlot(j)
    /\ Goto(j, "done")
    /\ UNCHANGED <<pool, db, sweep>>
Release(j) ==
    /\ server = "serving"
    /\ at[j] = "releasing"
    /\ FreeSlot(j)
    /\ Goto(j, "done")
    /\ UNCHANGED <<pool, db, sweep>>

-----------------------------------------------------------------------------
(* The process dies at any point, the sweep included: everything in memory *)
(* and the sweep's open transaction are gone, the committed rows stay.     *)
(* The container is restarted and selects what the last life left behind.  *)
Crash ==
    /\ crashes < MaxCrashes
    /\ crashes' = crashes + 1
    /\ at' = [j \in Jobs |-> IF at[j] \in HasSlot THEN "cut" ELSE at[j]]
    /\ inFlight' = 0
    /\ perUser' = [u \in Users |-> 0]
    /\ pool' = <<>>
    /\ server' = "starting"
    /\ txn' = db
    /\ stale' = Left(db)
    /\ UNCHANGED db

SweepOne(j) ==
    /\ server = "starting"
    /\ j \in stale
    /\ txn' = FailAndRefund(txn, j)
    /\ stale' = stale \ {j}
    /\ UNCHANGED <<at, slots, pool, db, server, crashes>>

SweepCommit ==
    /\ server = "starting"
    /\ stale = {}
    /\ db' = txn
    /\ server' = "serving"
    /\ txn' = NoTxn
    /\ UNCHANGED <<at, slots, pool, stale, crashes>>

-----------------------------------------------------------------------------
Handler(j) ==
    \/ Charge(j) \/ ChargeShort(j) \/ FlushFails(j) \/ ChargeBreaks(j)
    \/ GiveBack(j) \/ Enqueue(j)
Worker(j)  == Start(j) \/ StartBreaks(j) \/ Finish(j) \/ FinishBreaks(j) \/ Release(j)
Startup    == SweepCommit \/ \E j \in Jobs : SweepOne(j)

Next ==
    \/ \E j \in Jobs : Reserve(j) \/ Handler(j) \/ Worker(j)
    \/ Pick
    \/ Crash
    \/ Startup

(* Threads that can run are run; the pipeline ends (every provider call    *)
(* has a deadline); a dead container is restarted.  No request has to      *)
(* arrive and nothing has to crash.                                        *)
Fairness ==
    /\ \A j \in Jobs : WF_vars(Handler(j)) /\ WF_vars(Worker(j))
    /\ WF_vars(Pick)
    /\ WF_vars(Startup)

Spec == Init /\ [][Next]_vars
FairSpec == Spec /\ Fairness

-----------------------------------------------------------------------------
TypeOK ==
    /\ at \in [Jobs -> Point]
    /\ inFlight \in Nat
    /\ perUser \in [Users -> Nat]
    /\ pool \in Seq(Jobs)
    /\ db \in Rows
    /\ server \in {"serving", "starting"}
    /\ txn \in Rows
    /\ stale \in SUBSET Jobs
    /\ crashes \in Nat

(* The counters of app/jobs/queue.py count exactly the jobs on their way   *)
(* and the requests whose handler failed before queue.release, in total    *)
(* and per account: no other path through the handler, the pool or a crash *)
(* leaves a slot taken, and none gives one back twice.                     *)
SlotsExact ==
    /\ inFlight = Cardinality(Held)
    /\ \A u \in Users : perUser[u] = Cardinality(HeldBy(u))

(* Read as a set of jobs in flight, the two counters refuse and admit      *)
(* exactly as the limits of app/core/config.py say.                        *)
AdmissionOfSlots == INSTANCE Admission WITH held <- Held
AdmissionRefined == AdmissionOfSlots!Spec

(* What the rows say became of a job and of the credits it was charged.    *)
OutcomeIn(d, j) ==
    CASE d.status[j] = "none" /\ d.debits[j] = 0 /\ d.refunds[j] = 0 -> "none"
      [] d.status[j] \in Unfinished /\ d.debits[j] = 1 /\ d.refunds[j] = 0 -> "charged"
      [] d.status[j] = "completed" /\ d.debits[j] = 1 /\ d.refunds[j] = 0 -> "delivered"
      [] d.status[j] = "failed" /\ d.debits[j] = 1 /\ d.refunds[j] = 1 -> "refunded"
      [] OTHER -> "corrupt"

(* Debits, refunds and statuses move together: every job is charged once,  *)
(* then delivered or refunded, never both, and the outcome is final,       *)
(* whatever crashes, lost answers and failed commits come between.         *)
Lifecycle == INSTANCE JobLifecycle WITH outcome <- [j \in Jobs |-> OutcomeIn(db, j)]
LifecycleRefined == Lifecycle!Spec

(* The job path neither mints nor loses credits: an account's balance plus *)
(* what its jobs were charged is what it started with plus what they gave  *)
(* back, in the committed rows and in those the startup sweep is about to  *)
(* commit, and it never goes below zero.  (The other writers of the        *)
(* balance are not in this module.)                                        *)
JobsOf(u)   == {j \in Jobs : Owner[j] = u}
Debited(d)  == [j \in Jobs |-> Cost[j] * d.debits[j]]
Refunded(d) == [j \in Jobs |-> Cost[j] * d.refunds[j]]
Balanced(d) ==
    \A u \in Users :
        /\ d.credits[u] >= 0
        /\ d.credits[u] + SumFunctionOnSet(Debited(d), JobsOf(u))
              = InitialCredits[u] + SumFunctionOnSet(Refunded(d), JobsOf(u))
CreditsConserved == Balanced(db) /\ (server = "starting" => Balanced(txn))

(* "a job the queue would refuse must not cost anyone credits"             *)
(* (app/jobs/queue.py, reserve), and neither does one the account cannot   *)
(* pay for, nor one whose flush failed: what is rolled back leaves no row.  *)
RefusalIsFree ==
    \A j \in Jobs :
        at[j] \in {"limited", "full", "short", "unpaid", "expired", "leaked"} =>
            db.status[j] = "none" /\ db.debits[j] = 0

(* When the process starts serving, no row of an earlier life is left      *)
(* waiting for a thread that no longer exists.                             *)
SweepLeavesNothing ==
    [][server = "starting" /\ server' = "serving" =>
        \A j \in Jobs : db'.status[j] \notin Unfinished]_vars

(* An unfinished row nothing in this process will finish: the worker or    *)
(* the handler saw the database fail.  Only a restart settles it.          *)
Stranded(j) ==
    /\ db.status[j] \in Unfinished
    /\ server = "serving"
    /\ at[j] \in {"broken", "error", "releasing", "done"}

(* Whoever holds a slot gives it back, or the process dies, or the request *)
(* was one that failed before its job was charged: a job that was charged  *)
(* always gives its slot back.                                             *)
SlotsComeBack ==
    \A j \in Jobs :
        at[j] \in Served ~>
            at[j] \notin HasSlot \/ (at[j] = "leaked" /\ db.debits[j] = 0)

(* A charged job is delivered or refunded in the end, across crashes too,  *)
(* unless the database failed under the transaction that says so.          *)
ChargedJobSettles ==
    \A j \in Jobs :
        db.debits[j] > 0 ~> db.status[j] \in Settled \/ Stranded(j)

-----------------------------------------------------------------------------
(* The inductive strengthening the proofs of EnhancementJobsProofs use.    *)

(* A row was debited once, and refunded exactly when it says "failed". *)
Consistent(d) ==
    \A j \in Jobs :
        /\ d.debits[j] = IF d.status[j] = "none" THEN 0 ELSE 1
        /\ d.refunds[j] = IF d.status[j] = "failed" THEN 1 ELSE 0

(* What a thread may conclude about the row from where it stands. *)
Fits(p, s) ==
    /\ p \in {"new", "reserved", "limited", "full", "short", "unpaid",
                "expired", "leaked"} => s = "none"
    /\ p \in {"committed", "waiting", "picked"} => s = "queued"
    /\ p = "running" => s = "running"
    /\ p \in {"releasing", "done"} => s # "none"

PointsFitRows == \A j \in Jobs : Fits(at[j], db.status[j])

(* The pool holds waiting jobs, none of them twice. *)
PoolWaits ==
    /\ \A i \in 1..Len(pool) : at[pool[i]] = "waiting"
    /\ \A i, k \in 1..Len(pool) : pool[i] = pool[k] => i = k

(* How far the sweep's transaction is from the committed rows. *)
SweepTracks ==
    server = "starting" =>
        /\ Held = {}
        /\ Consistent(txn)
        /\ \A j \in Jobs :
              txn.status[j] = IF db.status[j] \in Unfinished /\ j \notin stale
                              THEN "failed" ELSE db.status[j]
        /\ stale \subseteq Left(db)

(* Everything above at once, about any state the program reaches. *)
IInv ==
    /\ TypeOK
    /\ SlotsExact
    /\ Consistent(db)
    /\ PointsFitRows
    /\ PoolWaits
    /\ SweepTracks

=============================================================================
