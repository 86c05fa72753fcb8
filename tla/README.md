# A TLA+ model of superscalerai

superscalerai is a web application that enhances pictures for credits: people
register, subscribe to a plan through Paddle, upload an image, and pay credits
for a job that runs the image through models at Replicate. This directory holds
TLA+ modules of the parts whose correctness depends on the order of things:
money, queue slots, subscriptions, sessions, rate limits, the rows and files of
pictures, and the stages of a job with its calls to Replicate. TLC checks them
on small instances; TLAPS proves every safety property that a run checks, for
every value of the constants. Paths below are relative to `src/`.

`PROJECT.json` lists the components, the runs, which definition translates which
lines of the source (`map`), the hazards and the properties that cover them,
the mutants, the findings and the theorems.

1. [The system](#1-the-system)
2. [How the modules correspond to the code](#2-how-the-modules-correspond-to-the-code)
3. [What the runs check](#3-what-the-runs-check)
4. [Bounds](#4-bounds)
5. [Fairness](#5-fairness)
6. [What is proved](#6-what-is-proved)
7. [Where the code and its documents disagree](#7-where-the-code-and-its-documents-disagree)
8. [Histories worth knowing](#8-histories-worth-knowing)
9. [What is not modelled](#9-what-is-not-modelled)
10. [Plan](#10-plan)
11. [Running it](#11-running-it)

## 1. The system

### How it is deployed, and what that means for a model

One container runs one uvicorn process with one worker (`Dockerfile:45`). In it:

- `def` handlers run in the threads of Starlette's pool, so any number of
  requests of one account interleave statement by statement;
- the Paddle webhook is an `async def` that calls synchronous code: webhooks are
  handled on the event loop, **one at a time**, but interleave with the handlers
  in threads;
- jobs run in a `ThreadPoolExecutor` of `MAX_CONCURRENT_JOBS` threads (4 by
  default, 1 in `docker-compose.yml`), with an in-memory queue that a crash
  forgets;
- the database is Postgres at READ COMMITTED. Sessions are made with
  `expire_on_commit=False`, autobegin a transaction, and at the commit write the
  columns whose value differs from the one they loaded. Nothing locks or
  versions a row: a commit does not notice that the row has changed since;
- files live in a local or S3 storage, outside of any transaction.

### Inventory

| Component | State it keeps | Operations | What makes it correct |
|---|---|---|---|
| job queue (`app/jobs/queue.py`) | `_in_flight`, `_per_user`, the executor's queue | `reserve`, `release`, `enqueue_enhancement`, `_run_and_release` | never above its limits; no slot given back twice, and none lost but by a handler that fails before `release` (section 8) |
| jobs API (`app/api/jobs.py`) | rows of `jobs` | `create_job` | a refusal costs nothing; a charged job is queued |
| job credits (`app/services/credits.py`) | `users.credits`, `credit_ledger` | `debit_for_job`, `refund_job` | one debit; delivered or refunded, never both |
| worker (`app/workers/enhance.py`) | `jobs.status`, `images.enhanced_path` | `run_enhancement` | a job ends; a failure is refunded |
| startup sweep (`app/main.py`) | rows a dead process left | fail and refund each, one commit | nothing of an earlier life is left unfinished |
| billing service (`app/services/billing.py`) | plan columns of `users`, `payments` | `apply_renewal`, `expire_subscription`, calls to Paddle | each charge settled once; a whole period resets the balance, a part of one adds to it |
| billing API (`app/api/billing.py`) | the same | `change_plan`, `cancel_plan`, `resume_plan`, the webhooks | the row says what Paddle does |
| Paddle (external) | subscriptions, charges, undelivered webhooks | charge, end, deliver until acknowledged | — |
| account deletion (`app/services/account.py`) | everything the account has | `delete_account`, `remove_files` | nothing revives it, nothing bills it, its files are gone |
| login (`app/auth/`) | `users.password_hash`, `auth_sessions`, `password_resets`, `email_verifications` | register, login, logout, forgot, reset, verify, resend, delete | a new password revokes the old one's sessions; a link taken away stays so; the newest confirmation link works; the bonus is paid once |
| images, downloads and storage (`app/api/images.py`, `app/api/download.py`, `app/services/storage.py`, `app/pipeline/stages/exporter.py`) | rows of `images`, files | upload, delete, export, download | no row points at a missing file; nothing deleted comes back |
| database (`app/database/`) | the tables | sessions | only changed columns are written |
| rate limiting (`app/services/ratelimit.py`, `app/api/ratelimit.py`) | hits per key | `check`, `clear`, `_prune` | at most the limit in any window; an honest Retry-After; clients that never come back are forgotten |
| Replicate provider (`app/providers/replicate.py`) | — (a prediction at Replicate) | create with retries, poll, time out, cancel | ends in bounded time; a run goes on unwatched only for a cause |
| pipeline (`app/pipeline/`) | the image, its context and plan, in memory | analyze, caption and OCR, plan, upscale, enhance regions, export | what is optional never fails a job; faces and texts survive the generative pass |
| galleries, pages, email, configuration, request bodies, scripts | none shared | reads | — |

How they interact: `create_job` reserves a slot, then writes the job's row and
the debit in one transaction, then hands the job to the executor. The worker
commits "running", runs the pipeline (which writes the result's files), and
commits "completed", or "failed" with the refund. Whatever ends the thread, the
slot is released in a `finally`. After a crash the memory is gone; the sweep
settles the rows before the first request is served. Apart from that, six pieces
of code write the row of `users`: job debits and refunds by relative updates,
and `apply_renewal`, `expire_subscription`, `grant_signup_bonus` and
`delete_account` (and the plan requests) by absolute values computed from the
copy their session loaded. The plan requests and the deletion call Paddle
between the load and the commit, up to 15 seconds.

The hard behaviours are therefore: slots across failing paths and crashes;
transactions that overlap and write from stale copies; webhooks that come late,
again, or in another order, while the owner is doing something else; reads that
are acted on after a slow step (Argon2, Paddle, a wait for a lock); rows and
files without a transaction over both; calls to a service that may be throttled,
lose an answer, or never end. `PROJECT.json` has them one by one under `hazards`.

## 2. How the modules correspond to the code

| Module | Models | Lines of |
|---|---|---|
| `EnhancementJobs` | one server process turning requests into jobs, with slots, threads, money, crashes and the sweep | `jobs/queue.py`, `api/jobs.py`, `workers/enhance.py`, `services/credits.py`, `main.py` |
| `JobLifecycle` | abstract: a job is charged once, then delivered or refunded, finally | the promise of the above |
| `Admission` | abstract: the jobs in flight are a set bounded in total and per account | the promise of `jobs/queue.py` |
| `AccountCredits` | one account's row and everything that writes its credits | `services/credits.py`, `services/billing.py`, `auth/service.py`, `services/account.py` |
| `PaddleCharges` | what a Paddle transaction bought: the plan, and the share of a month | `services/billing.py`, `api/billing.py` |
| `Subscriptions` | one account's plan columns, Paddle, webhooks and the owner's requests | `api/billing.py`, `services/billing.py`, `services/account.py` |
| `LoginSessions` | one account's password, sessions, and links of both kinds | `auth/router.py`, `auth/service.py`, `services/account.py` |
| `ImageStore` | rows of images and jobs against files | `api/images.py`, `api/download.py`, `services/storage.py`, `workers/enhance.py`, `pipeline/stages/exporter.py`, `services/account.py`, `main.py` |
| `Predictions` | runs of models at Replicate, several at once | `providers/replicate.py` |
| `EnhancementPipeline` | one job through the stages; extends `Predictions` | `pipeline/`, `workers/enhance.py` |
| `RateLimiter` | the sliding windows under threads that wait for their lock | `services/ratelimit.py`, `api/ratelimit.py`, `auth/router.py` |
| `<M>Proofs` | theorems about `<M>` | |
| `SumLemmas` | what the proofs about credits need to know of finite sums | |
| `MC<M>` | instances of `<M>` for TLC | |

A name with an underscore, such as `CanPay_Unchecked`, is the definition after it
with a plausible bug in it. No action uses it: it exists so that a mutant run can
show which property notices (`mutants` in `PROJECT.json`).

**EnhancementJobs.** `at[j]` is the program counter of the thread that serves
request `j`: the handler's thread until `Enqueue`, a pool thread from `Pick` on.
`inFlight`, `perUser` are the module variables of `queue.py`; `pool` is the
executor's queue; `db` is what is committed, with the number of ledger rows per
job and reason. Each action that changes `db` is one transaction: the
conditional `UPDATE` of `debit_for_job` keeps the user's row locked until the
commit. `Reserve` has the three ends of `reserve`, `Charge` / `ChargeShort` /
`FlushFails` / `ChargeBreaks` the ends of the transaction (a broken one may have
been applied although its answer was lost), `GiveBack` the `except
BaseException`, which reads `user.id` before it releases: after a failed flush
(`FlushFails`) it cannot, after a rollback it may fail to, and the request ends
at "leaked" with its slot still taken. `Start`,
`Finish` and their `…Breaks` the commits of `run_enhancement`, `Release` the
`finally`. `Crash` empties everything in memory; `SweepOne` and `SweepCommit`
are the startup sweep, whose own transaction (`txn`) a second crash discards.

**AccountCredits.** `row` is the committed row (and the `used_at` of the
account's confirmation link); `copy[s]` is what session `s` loaded; `Flush` is
the ORM's commit. `Debit`, `Refund` are the relative updates, one action each.
The other writers are two actions: one that loads (`ReceiveCharge`,
`ReceiveCanceled`, `OpenLink`, `AskDeletion`) and one that commits (`SettleCharge`,
`ExpireSubscription`, `Confirm`, `DeleteAccount`), and may be abandoned in
between. `ledger.sum` is the sum of the deltas each writer records, as it sees
them. `overlapped` is a history variable: has a commit ever met a row that
changed after it was loaded? There is one webhook session, since the event
loop handles one at a time. What a charge grants is not an input: `Transaction[t]`
is what the webhook says (line items, some of other apps; a rate or none; a
period or none; the origin), and **PaddleCharges** makes of it what
`plan_in_transaction`, `proration_rate` and `apply_renewal` do, to the rounding.
Shares are exact fractions, and periods whole days, so that the 27.5 days of
`FULL_PERIOD_DAYS` become "more than 27"; a rate is in percent.

**Subscriptions.** `paddle[s]` is the truth at Paddle (what the next renewal
bills, whether a cancellation is scheduled), `row` what the account's row
believes. A request is asked for (`Ask…`, with the refusals of the handler as
guards), applied by Paddle (`Apply`) and saved (`Save`), or given up at any
point, Paddle having acted or not (`GiveUp`). Webhooks wait in `events`; with
`Unordered` they are delivered in any order and again after an acknowledgement
that got lost. `IsOurs` is the search for the account in
`_handle_transaction_completed` and `_handle_subscription_canceled`. `trouble`
is a history variable: the first thing that went other than one step after
another (a stale copy, a lost answer, a late webhook, a second checkout, a
request that crossed news of Paddle's, a one-off sale). A one-off sale (`OneOff`)
is a transaction with our tag and no `subscription_id`: `IsOurs` accepts it on its
claim, and `Renewed` stamps its plan and keeps whatever link there is, as
`test_transaction_without_a_subscription_keeps_the_link` says.

**LoginSessions.** Requests read (`Ask…`), and commit later. Passwords stand for
their hashes. `Resets` and `Confirms` are the links of `password_resets` and
`email_verifications`: a request for a link of the second kind deletes the rows
it sees and inserts its own, one of the first kind only inserts. A deletion, a
reset and a new confirmation link remove rows by one DELETE per table
(`DropSessions`, `DropResets`, `DropConfirms`), each an action of its own, in the
order of the code; each notes in `drops` the rows that are committed when it
runs, `seen` says which tables have been through, and the rows go for the others
when the request commits (`Delete`, `Reset`, `Resend`). Other requests may commit
in between, and what they insert stays. A reset has flushed the new hash before
its first DELETE, so that nobody else can write the row of `users` until it is
over (`Locked`). The other locks, which only make a statement wait or end a
request, are left out: the model has every history they allow, and more.
`proof[c]` is a history variable: the hash that the request that opened session
`c` had read; so are `newest`, `uses`, `voided` and `slipped` (the sessions
opened with a hash that had been replaced, or behind the DELETE of another
request). An erased account's session that has slipped is of no use to anyone:
`user_from_token` turns away whoever's account has a `deleted_at`.

**ImageStore.** Uploads, workers, deletions and downloads take one action per
statement that others may come between: `PutFile`, `InsertImage`; `LoadJob`,
`LoadImage`, `Start`, `ReadOriginal`, `Export`, `Complete` or `FailJob`;
`FindImage`, `CheckActive` (or `FindAll` for the account), `Gather`,
`RemoveRows`, `RemoveFile` per file; `ReadRow` and `Serve`. Foreign keys refuse a
removal that would leave a job without its image. The storage is a set of keys:
`Put`, `Drop` and `Opens` are the operations that `LocalStorage` and `S3Storage`
share. `owed` and `erased` are history variables.

**Predictions** and **EnhancementPipeline.** `call[c]` is a call of
`ReplicateProvider.run`, `remote[c]` the prediction it may have created, which
goes on whether or not anybody watches. Every way out of `run` and
`_create_with_retry` is an action or a disjunct (`Throttled`, `Refused`,
`LosesAnswer`, `Accepted`, `Poll`, `GiveUp`), and `Over` names them. A stage
starts its calls and looks at how they ended: `StartCaptioner`,
`CaptionerEnds`, `CaptionerFails` for the two calls that run side by side;
`StartUpscaler`, `UpscalerEnds`; `StartPatch`, `PatchEnds` per text;
`StartFace`, `PassEnds` per face, with the identity gate's retry. `Analyze` and
the stages of pure image work (preprocessor, post-processor) may do anything
their callers can tell apart: find any faces and texts, or raise (`Breaks`). `Breaks` is also what becomes of
the work around a call that no `try` covers: a text region whose side comes out
under 40 pixels makes `feathered_mask` raise (`local_enhancers.py:39-44`), and
an OCR prediction without an `output` raises before its parse
(`captioner.py:60`). `OptionalNeverFails` is about the calls and the exits that
the code does cover; it does not say that these two cannot fail a job.
`completed` is the pipeline's `Finish` of `EnhancementJobs`, and `failed` its
failure; `Cut` is its `Crash`.

**RateLimiter.** `admitted[k]` is every hit recorded since `k` was last cleared,
with the time that was read (`stamp`) and the time it was recorded (`at`); the
deque is its tail after the first `gone[k]`. `ReadClock` is the line before the
lock, `Check` all that is under it: prune, pop, refuse or record. `Delay` is the
longest a thread is kept between the two. No such bound is in the code; the
model makes it a parameter, and says what the limit is worth with it. The
limits are positive, as configured (with a limit of zero `check` would fail on an
empty deque), and `rate_limit_enabled` is on.

## 3. What the runs check

Passing runs:

- **jobs_safety** — every interleaving of four requests of two accounts, with a
  database that may fail under any transaction and two crashes (the second may
  hit the sweep). The counters count the jobs in flight and the
  requests whose handler lost its slot, no more and no less (`SlotsExact`), and
  implement `Admission`; money implements `JobLifecycle`; an account's balance
  plus its unrefunded debits is what it started with, in the committed rows and in
  those the sweep is about to commit (`CreditsConserved`); a
  refusal is free, and so is a lost slot (`RefusalIsFree`); a process that starts
  serving has settled all it found.
- **jobs_liveness** — two threads, one crash: every slot comes back
  (`SlotsComeBack`) but the one of a handler that fails before `release`, and a charged job settles unless the database failed under
  the transaction that would say so (`ChargedJobSettles`). The exception is
  real: see `Stranded` and section 8.
- **credits_races** — an account under all its writers. Absolute writes do lose
  updates (section 7); what holds whatever overlaps is that the balance is never
  negative, a charge has at most one payment, no late commit revives a deleted
  account, a used link or an unproven address, and a deleted account gains
  nothing but by a charge that Paddle settles for it. And every drift
  needs an overlap: `AgreeUnlessOverlapped`. The credits ever granted are the
  bonus and what was paid for (`CreditsArePaidFor`): a plan's price for the days
  of a partial period, to the credit, whatever fields the webhook lacks.
- **subs_checkouts** — two checkouts of one account among three plans, one-off
  sales, its requests, webhooks in any order and repeated. A claim in `custom_data` never repoints an account
  that rides a subscription (`NoRepoint`); an account loses its plan only when
  the very subscription it rides has ended (`PlanLostOnlyWhenEnded`); whenever
  nothing is in flight, no step crossed another and nothing was sold without a
  subscription, the row is what Paddle does,
  and a deleted account is not billed (`AgreesAtRest`).
- **subs_delivery** — webhooks in order until acknowledged, handlers that fail
  now and then: every payment for the subscription the row rides, or for none, is
  settled, and every ended subscription forgotten.
- **logins** — logins, resets through two links, confirmations through three,
  requests for links of both kinds and a deletion, two at a time and statement by statement. A
  reset or a deletion revokes every session but those inserted behind its DELETE
  (`RevokedUnlessSlipped`); a link taken out of use by a reset, a newer link or
  the deletion works no more, even if its request had passed every check
  (`VoidedNeverWorks`); the confirmation link inserted last works, however many
  are asked for at once (`NewestWorks`); and a deleted account gets a password
  only through a reset link inserted after the deletion (`ErasedUnlessLate`).
- **images** — an upload, two jobs of the image, two deletions and a download at
  once, two failures or restarts: a stored image always has its files
  (`RowsHaveFiles`); an active job is removed with its image only if it was
  created after the deletion had asked (`ActiveJobsKept`); a download that has
  read a row and finds no file was overtaken by a deletion of the image, not by a
  second result, a failure or a restart (`MissingForCause`); and what is deleted
  never comes back, although a worker may be finishing it.
- **pipeline** — one job through all stages: what only improves a picture never
  fails the job (`OptionalNeverFails`), and in a finished picture every face is
  repaired or was left alone for a reason (`FacesSurvive`), the most similar face
  measured is the one kept (`IdentityGated`), and exactly the texts of the last
  source are put back (`TextsSurvive`). A prediction is left running only by a
  lost answer or a crash (`UnwatchedForCause`). The job ends even if Replicate
  never settles anything (`AlwaysEnds`).
- **limiter** — two logins at once, each checked by address and then by email,
  while time passes: of the hits admitted on a key, one and the limit-th after it
  are a window apart, less `Delay` (`WindowHolds`); the wait a refused client is
  told is positive and never much longer than the window (`RetryHonest`); and
  after each check every key still known was hit within a prune interval and a
  window (`ForgetsOneOffs`).

`IInv` in **subs_checkouts** and **images** is the inductive invariant of the
proofs, their types included. The types of `LoginSessions` and `RateLimiter` are
part of theirs as well, and proved rather than run.

Violations (each checks one sentence of the repository's documents; section 7):
**credits_ledger**, **subs_deleted_billed**, **images_erased**.

Every property of a passing run has a mutant: a change to one mapped definition
that a plausible bug would make, under which TLC finds that property violated.

Deadlock is not checked in any run: every model may stop (all requests
answered, the bounds used up). That threads do not wait on each other forever is
what `SlotsComeBack`, `ChargedJobSettles` and `AlwaysEnds` say.

## 4. Bounds

| Run | Instance | Why it is enough for the cases of interest |
|---|---|---|
| jobs_safety | Alice: 3 requests of cost 4, 2, 2 with 6 credits; Bob: 1 of cost 2 with 2. 2 slots, 2 per account, 1 thread, `MaxCrashes = 2` | the account's limit, the global limit and the unpaid refusal all happen; jobs wait in the pool; a crash hits the sweep of another |
| jobs_liveness | 3 requests, 2 slots, 2 threads, 1 crash | two workers at once; a queue at its limit |
| credits_* | 2 jobs (1 and 4 credits), a first payment (3), an upgrade to 6 at 50 %, one that nothing measures, a transaction of another app, a bonus of 4 by a link opened twice, one deletion | every way to find a share is taken; the bonus pays one job but not both; the prorated grant is a half that rounds to even; all pairs of writers overlap |
| subs_checkouts | 2 subscriptions, 3 plans, 1 request at a time, `MaxCharges = 2`, unordered | a checkout beside another, a one-off sale beside or without one, a late or repeated charge of an ended one, changes of plan both ways |
| subs_delivery | 1 subscription, 3 plans, `MaxCharges = 2`, in order | upgrade, downgrade, a pending change and its undoing |
| logins | 2 requests at a time, 2 cookies, 2 reset and 3 confirmation links, 2 passwords | two links in use at once; two resends at once beside an older link; a session opened between the DELETE and the commit of another request, while the one before is being revoked (tokens are used again); every property is about the overlap of two requests (the proofs are for any number) |
| images | 1 image, 2 jobs, 2 deletions, 1 download, `MaxFailures = 2` | two results of an image, two deletions of it, a download or a restart amid either |
| pipeline | a close-up and a small face, two texts, three presets with their own and other creativities, 2 attempts, a deadline of 2 polls, three similarities (two below the floor) | both sides of the creativity cutover; a retry that is better, worse or not measurable; every end of every call |
| limiter | 2 threads, 2 keys, limit 2, window 3, prune every 1, `Delay` 1, `MaxClock = 4` | hits recorded out of order; a prune amid a window; a hit that leaves the window before another is admitted |

The violation runs use the same or smaller instances. Nothing else is bounded:
`MaxCrashes`, `MaxCharges`, `MaxFailures` and `MaxClock` are guards of `Crash`,
`Charged` (and so of `Pay`, `Renew` and `OneOff`), the failing actions and `Tick`; all other sets are finite because requests, jobs and links
are. Symmetry is declared over interchangeable model values only, and in no run
that checks liveness.

The theorems of section 6 do not depend on any of these numbers.

## 5. Fairness

`EnhancementJobs!Fairness`: weak fairness of each job's handler and worker, of
`Pick` and of the startup. Threads are scheduled by the operating system and no
lock is held across a wait; the executor takes submissions in order whenever a
thread is free; the pipeline ends because each prediction is polled up to
`prediction_timeout_seconds` and each HTTP call has a timeout; the container's
restart policy starts a dead process again. No request has to arrive
(`Reserve`), and nothing has to crash.

`Subscriptions!Delivery`: weak fairness of receiving a webhook, since Paddle
repeats one until it is acknowledged, and strong fairness of the handler's
commit: it may fail any number of times (`AbandonHook`), but not every time.
Nothing is assumed of the owner, of renewals, or of the end of a period.

`EnhancementPipeline!Fairness`: weak fairness of the stages, and of each call's own
steps: the worker's thread runs, and each HTTP request it makes has a timeout
(`providers/replicate.py:26-30`). Nothing is assumed of Replicate: a prediction
may never settle, an answer may never come.

The other modules promise nothing that must happen.

## 6. What is proved

Each proof module has the same shape. `IInv` is the strengthening under "The
inductive strengthening" at the end of the module it is about: `Init => IInv`
and `IInv /\ [Next]_vars => IInv'` (one lemma per action or group of actions),
combined by temporal logic into `Inductive`. State properties follow from
`IInv`; action properties from `IInv` and a case split over the writers.
TLC agrees with each `IInv` on the instance of its run.

- **SumLemmas** — what `SumFunctionOnSet` of the community modules does to a finite
  set: it exists (the definition chooses a function that satisfies a recursion),
  it is a number, any element may be taken first, changing one value changes the
  sum by the difference, and sums add up term by term. The library's induction
  theorems are of no use to the provers here, so each lemma argues by a smallest
  counterexample: among the subsets for which it fails there is one that no other
  is a proper subset of (`SmallestSubset`, from the well-foundedness of the
  natural numbers, applied to cardinalities).
- **EnhancementJobsProofs** — from `JobsAssumption` (a finite set of jobs, each
  with an owner and a positive cost) and `LimitsAssumption` (positive limits).
  Type correctness; `SlotsExact`; `RefusalIsFree`; `SweepLeavesNothing`; and both
  refinements, `AdmissionRefined` and `LifecycleRefined`: initial states map to
  initial states and each step to a step or a stutter. `SlotsExact` alone is
  not inductive: a release that decrements a counter needs the job to be counted
  in it, and a picked job must hold a slot and be in the pool only once
  (`PoolWaits`); the money needs what a thread may conclude about the row from
  where it stands (`PointsFitRows`), and how far the sweep's transaction is from
  the committed rows (`SweepTracks`). Each `release` removes one member of a
  finite set, which is where the cardinality lemmas come in.

  `CreditsAlwaysConserved` is proved next to `IInv`: a transaction changes the
  debit or the refund of one job and its owner's balance by the same cost
  (`OneJobMoves`, from `SumChange`), because a row is debited once and refunded
  only when it fails (`Consistent`). The sweep works on rows of its own, so that
  they have to balance as well. Three more theorems say what follows for an
  account, for an operator and for a job, and go beyond what the runs check:
  - `AlwaysPaysForItsJobs`: at every moment an account has paid the price of its
    jobs that are delivered or on their way, and of no other;
  - `LimitsAlwaysKept`: the jobs in flight never outnumber `max_queued_jobs`, nor
    those of an account its own limit;
  - `NobodyIsForgotten`, the safety half of `ChargedJobSettles`: a job that was
    charged and is not settled is with the thread that serves it, in the pool or
    among the rows the sweep has still to settle, or `Stranded`. It needs that a
    waiting job is in the pool, and that a job whose process died was settled
    before the next process served (`Remembered`).
- **AccountCreditsProofs** — from `CreditsAssumption`. The balance is never
  negative, although it is written from stale copies: the conditional debit
  compares with the row, and every absolute write is of a natural number. The
  rest is `SettledAtMostOnce`, `DriftNeedsOverlap`, `FlagsNeverUndone` and
  `DeletedStaysPoor`. `AgreeUnlessOverlapped` needs that a bonus on the ledger
  comes with a proven address (`BonusForProof`), and `ChargeSettledOnce` that the
  one webhook session settles what it found unsettled (`WebhookAlone`). For
  `PaddleCharges` the lemmas are that the plan found is one of ours and that a
  rounded grant is a natural number. `NothingUnpaid` (`CreditsArePaidFor`) also
  needs `PaddleAssumption`: a rate or a period stands for no more of a month than
  was paid for. The arithmetic is `GrantIsPaidFor`: however the share is found, the
  rounded grant is no more than the days that were paid for are worth, rounded
  up, and no more than the whole allowance. The rest is a sum over the charges
  collected (`SumAdd`), to which a commit adds at most one.
- **SubscriptionsProofs** — from `SubscriptionsAssumption`. `NeverRepointed` and
  `PlanLostForCause`, for any number of subscriptions, requests and charges, and
  any order of delivery. Both rest on `HookSeesRow`: between the load and the
  commit of a webhook, requests may change pending and cancellation marks, but
  only a deletion can take plan and link away; and on `EventsTrue`: Paddle
  reports an end only when it has ended. These are parts of `BaseInv`, which is
  inductive alone.

  `AgreementAtRest` (`AgreesAtRest`) is about a row that nothing is about to
  change, and has to be carried through every state in which something is. Its
  invariant, `Agreement`, is claimed as long as `trouble` is "none", which once it
  is over never comes back (`TroubleStays`), and says: at most one subscription is
  live, and the row rides it when a request is about to write (`OneLive`, `RidesLive`); the
  webhooks not yet acknowledged are at most one end, first, and then charges of
  the live subscription (`QueueFits`), of which the head is handled (`HookFits`);
  Paddle has acted for at most one request that has not saved it (`AppliedAlone`),
  and what it did is what that request wants to write (`WriterFits`); a deleted
  account rides nothing (`DeletedIsFree`). What ties these to the row is `Settles`: what the row,
  the queue and the unsaved answer will together come to is what Paddle does.
  Each action has a lemma that it keeps `Agreement` or notes a trouble (a one-off
  sale always does, so that the queue of `QueueFits` has none); when
  everything is at rest there is nothing left to add, and `Settles` is
  `AgreesAtRest`.

  Two theorems are the safety halves of what the fair run checks:
  - `PaymentsKept`, of `PaidIsSettled`: the webhook of a payment for the subscription
    the row rides, one that its checkout claims for a row that rides none, or a
    one-off sale (`IsOurs`), stays in the queue, whatever else is delivered, answered with an
    error or delivered again, until the charge is settled;
  - `EndedWillBeTold`, of `EndedIsForgotten`: while webhooks come in order, a row
    that rides a subscription which has ended has the webhook of that end still
    coming. What it needs is `EndFollowsCharges`: a charge could make the row ride
    the subscription again, so no charge of it may come after its end. It holds
    whatever other trouble there is.
- **LoginSessionsProofs** — from `LoginAssumption`. `OldSessionsRevoked`,
  `VoidedStaysVoid`, `NewestLinkWorks` and `ErasedStaysErased`, for any number of
  requests, links and passwords, with the DELETEs of the handlers as steps of
  their own. `RevokedUnlessSlipped` needs that whatever is open and was not found
  by a DELETE has slipped (`UnseenSlip`). `VoidedNeverWorks` needs that a reset,
  once it has written, keeps its link until it commits (`LockHeld`): one reset at
  a time has, and no deletion commits meanwhile. `NewestWorks` needs that a request
  deletes only links it has seen (`DropsSent`), and so never one that is inserted
  later.
- **ImageStoreProofs** — from `StoreAssumption`. `RowsAlwaysHaveFiles`,
  `ActiveJobsAreKept`, `MissingIsDeleted` and `DeletionIsFinal`, for any number of
  images, jobs, deletions, downloads and failures. The invariant says what
  protects a file from a deletion that is about to remove it: the files a
  deletion has collected belong to images whose rows are gone by the time it
  removes them, and to workers that are over (`RemovesTheDead`), and a result
  belongs to a job of the image itself (`ResultIsOwn`). A job that a deletion has
  found settled has no worker that could start it again (`AskedAreOver`), and
  what a download has read is there as long as its image
  (`DownloadsHaveFiles`).
- **EnhancementPipelineProofs** — from the assumptions of `Predictions` and
  `EnhancementPipeline`: every safety property of the run, for any faces, texts,
  requests, attempts, deadline and similarities. What a stage may conclude rests
  on `StageWaits`: a call is under way only while its stage waits for it, one
  region at a time; `PlanFollowed` and `GateKept` say how far a stage has got.

  Two theorems are the safety half of `AlwaysEnds`. `JobsCannotLoop`: every step
  of a job, of its calls, of Replicate or of a crash moves something forward, and
  none moves anything back, where what can move is bounded: the stages (`RankOf`,
  0 to 7), each call from begun to over with `CreateAttempts` attempts and
  `Deadline` polls on the way (`Onward`), each prediction (`RemoteRank`), each text
  and the two passes of each face. A job therefore takes a bounded number of
  steps, whatever Replicate does. `StagesWaitForCalls`: a stage that waits has
  begun the call it waits for. That the step a job can take is then taken is what
  fairness adds, and stays with TLC.
- **RateLimiterProofs** — from `LimiterAssumption`, in particular that `Delay` is
  shorter than the windows: `LimitKept`, `RetryIsHonest` and `OneOffsForgotten`,
  for any threads, keys, limits, windows and time. The invariant orders the hits
  by the time they were recorded, ties each to the time that was read, and says
  that whatever was dropped had left its window, or nearly so (`DroppedLate`),
  which is what makes a window survive a pruning and hits out of order.

Only model-checked: liveness (`SlotsComeBack`, `ChargedJobSettles`,
`EndedIsForgotten`, `PaidIsSettled`, `AlwaysEnds`), which is beyond what the prover
handles: it has no rule for `ENABLED`, so a fairness assumption cannot be used.
Theorems state what of them is safety: `SlotsAlwaysExact` and `NobodyIsForgotten`
for the first two, `EndedWillBeTold`, `PaymentsKept`, and `JobsCannotLoop` with
`StagesWaitForCalls` for the others. Every other property of a passing run is
stated by a theorem.

## 7. Where the code and its documents disagree

The three findings in `PROJECT.json`, each with the run that shows it:

1. **The balance is not always the sum of the ledger** (`credits_ledger`).
   `models.py:131` says both are always written together, and they are, but the
   balance absolutely and the ledger by a delta, from a copy. A confirmation and
   a charge that overlap leave the two different, and nothing repairs them.
2. **A deleted account can be billed** (`subs_deleted_billed`). The deletion
   cancels the subscription its row tracks. One that is paid in a checkout that
   was open meanwhile is not canceled, and its webhook stamps the plan on the
   deleted row.
3. **Deleting does not erase every file** (`images_erased`). Files are found
   through rows, and an image's row points to its last result only. (Every job's
   `metadata.json` stays as well; the model leaves it out.)

## 8. Histories worth knowing

These are behaviours of the models, and of the code, beside the findings. They are
the reason for a hypothesis in a property above. Some contradict a sentence of
the repository, which is then quoted.

- **A refused or failed request can lose its slot** (`"leaked"`, in `SlotsExact`
  and `SlotsComeBack`). When the flush of the job's row fails (`api/jobs.py:83`,
  or the one that the commit begins with), the session rolls back, forgets the
  account it had loaded, and refuses to read it again; one way there is that the
  image was deleted since line 50. `queue.release(user.id)` (line 92) then raises
  while it evaluates its argument. After the explicit rollback of a 402 (line 88)
  the read is a new SELECT, which may fail as well. The slot stays taken until the
  process restarts, although the comment on line 92 says "nothing reached the pool,
  nothing will release it", and `jobs/queue.py` calls its counter "reserved but
  not yet finished". The job was not charged (`RefusalIsFree`).
- **A sale without a subscription** (`"oneoff"` in `AgreesAtRest`) stamps its plan
  on the account it claims: on one that rides no subscription, a plan that nothing
  will renew or end; on one that does, a plan other than the one Paddle renews,
  with `plan_cancels_at` and `plan_pending` wiped. The next renewal sets plan and
  credits right; a wiped cancellation still happens.

- **A late charge revives an ended subscription** (`trouble = "late"` in
  `AgreesAtRest`). A checkout is paid, the subscription ends, and Paddle delivers
  the end first. It is ignored, since the account does not track the subscription
  yet. The charge comes after, with the claim of the checkout: the account gets
  plan, credits and the link to a subscription that has ended, and no webhook
  will ever take them away. With the two in order this does not happen.
- **A renewal wipes a cancellation** (`"crossed"`). Paddle renews; before the
  webhook is handled the owner cancels, Paddle schedules it, and the row says so.
  Then the charge is handled: `apply_renewal` sets `plan_cancels_at` to NULL
  ("a settled charge means the plan is live"). Paddle will end the subscription,
  the page does not show it, and the owner may cancel again. The same crossing
  wipes a pending downgrade.
- **An answer of Paddle's that is lost** (`"lost"`) leaves Paddle changed and
  the row not. A cancellation can be asked for again; a downgrade too, because it
  is compared with the row's pending plan.
- **A job can be stranded** (`Stranded` in `ChargedJobSettles`). When the
  database fails under the worker's last commit, or under the handler's after it
  was applied, the row stays queued or running and nobody's thread has it. The
  next restart's sweep refunds it; without a restart, nothing does.
- **A session can survive a reset of its password** (`slipped` in
  `RevokedUnlessSlipped`). A login that had verified the old hash inserts its
  session after the reset has removed all others, and so does a confirmation
  whose link was opened before. `web/templates/privacy.html` says that a reset
  revokes sessions "all at once"; that is true of those that exist when its DELETE
  runs. A deletion leaves such a session as well, which nobody can use, since
  `user_from_token` looks at `deleted_at`.
- **A reset link may be used twice**, by two requests that both found it unused:
  both set a password, the later one stays. (`uses` counts them.)
  `models.py:69` calls the token "Single-use", and `models.py:84` that of a
  confirmation, for which the same goes.
- **A reset link may outlive its account**: it is asked for before the deletion
  and inserted after. It sets a password on the deleted row, which nobody can
  log in to: its address is scrubbed.
- **Two confirmations at once** can both pay the bonus: both see an unproven
  address. Both write the same balance, so that the ledger has two rows and the
  account one bonus, another form of finding 1. `auth/service.py:111-112` says that
  "a double-clicked link can't pay twice"; twice in a row it cannot.
- **Two requests for a confirmation link leave two links**: each deletes what it
  sees, and neither sees the other's. The newest works, as the comment says, and
  so does the other.
- **A job may be created while its image is being deleted**, between the check for
  active jobs and the search for those to remove (`api/images.py:130-138`). It is
  removed with the image while it is queued; its debit stays, and its worker finds
  no row to refund.
- **A retry can cost a job that had succeeded**: a face that drifted is tried
  again, and if the second call fails, the whole job fails, although the first
  result was at hand.
- **A prediction that nobody watches is paid for.** A poll without an answer (or
  with one that has no `status`) ends the job at once; only the deadline cancels.
  A cancellation that Replicate refuses is not noticed either.
- **The window of the limiter is as long as the configured one, less the wait for
  its lock**, since a hit carries the time that was read before the wait.

## 9. What is not modelled

- **Expiry of sessions and links**: only takes them out of use earlier.
- **Locks other than the one on the row of `users`** in `LoginSessions`: to wait for
  one only delays a statement, and a deadlock ends a request, which may end anyway.
- **Prices, sizes, formats, signatures, the cap on a request's body**: functions
  of one request that refuse it before anything changes. `job_cost`'s result is
  `Cost[j]`.
- **Pixels**: what the analysis finds and measures is chosen, and the work on an
  image succeeds or raises, on a small text region too (section 2).
- **Pages, email, galleries**: they read, or send; the pages poll the APIs that
  the modules model. The one thing the browser adds is the checkout's
  `custom_data`.
- **Configuration**: read once; its limits are constants. The gate that refuses
  an unsafe production configuration runs before anything else does.
- **How an address becomes a limiter's key**, and `reset()`, which only tests use.
- **Migrations and scripts**: run once, alone.
- **More than one account in AccountCredits, Subscriptions, LoginSessions and
  ImageStore**: their rows share nothing, but for the search for an account by
  subscription id, which a single account with several subscriptions exercises.
- **Honesty of Paddle**: `PaddleAssumption` of `AccountCredits` says that rates and
  periods are those of the days that were paid for. A transaction that lies about
  them is granted as it says.

## 10. Plan

Done so far, in this order: `EnhancementJobs` with `JobLifecycle` and
`Admission`, `AccountCredits`, `Subscriptions`, `LoginSessions`, `ImageStore`,
then `Predictions` and `EnhancementPipeline`, `RateLimiter`, `PaddleCharges`, the
confirmation links of `LoginSessions` and the downloads of `ImageStore`, each with
its run and, where the prover reaches, its proofs.

Then the properties that were only checked: `CreditsConserved`,
`CreditsArePaidFor` and `AgreesAtRest`, on the lemmas of `SumLemmas`, and what the
first one means for an account and a job.

After that what the liveness properties have of safety: `NobodyIsForgotten`,
`PaymentsKept`, `EndedWillBeTold`, `JobsCannotLoop` and `StagesWaitForCalls`.

To prove more: that `AdmissionRefined` and `LimitsAlwaysKept` survive a composed
module, once there is one (below).

To model more: `job_cost` and the body limit against reference definitions;
the pipeline's `completed` and `failed` as the steps that `EnhancementJobs`
takes, in one composed module.

## 11. Running it

    tlc -workers 2 -config MCEnhancementJobs.cfg MCEnhancementJobs
    tlapm EnhancementJobsProofs.tla

and so on for the other modules; `PROJECT.json` names the module and the
configuration of every run. The largest run (`credits_races`) has some
3,074,000 states and takes about two minutes; `subs_checkouts` has 1,315,000,
`images` 1,095,000, `logins` 804,000 (its symmetry costs most of two minutes),
`jobs_safety` 728,000, `pipeline` 382,000 and `limiter` 260,000, some one minute
or less each.
