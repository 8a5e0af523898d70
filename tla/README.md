# A verification of the SVIX platform

The repository is a volatility-index platform for the semiconductor sector. It collects
option quotes of six symbols, derives constant-maturity volatilities from them, and keeps
an intraday series, a historical series and an archive. It exists twice: as the original
Python backend (`backend/`), kept as the reference for the mathematics and for regression
tests, of which the SDK bridge to two brokers runs in production; and as the Go services
(`go/`) that replaced the rest (`docs/go-migration.md`). All paths below are relative to the
repository root.

This directory holds TLA+ modules of the parts in which several requests, the database and
the clock meet, TLC configurations that check them on small instances, and proofs checked
by TLAPS that hold for every value of the constants.

    tlasany M.tla                       parse
    tlc -workers 2 -config X.cfg MCM    model-check (module and configuration as in section 3)
    tlapm M.tla                         prove (JobQueueProofs, CollectionProofs,
                                        RollupProofs, HistoryProofs,
                                        ObservationProofs, BridgeProofs,
                                        SessionsProofs, CustomIndexProofs)

Which text a module translates:

| Module | Translates |
|---|---|
| `JobQueue`, `JobBoard`, `Collection` | Go: the queue of historical jobs and the scheduling of collections, where locks were added |
| `History`, `Observation`, `Rollup`, `CustomIndex`, `Sessions` | Python reference: calculation, observations, maintenance, custom index, sign-in |
| `Bridge` | Python in production: the SDK bridge, with the provider clients |

So `JobQueue` and `History` are two answers to one problem: Go's queue has a session lock and
is proved to have one worker; Python's has none, and `History` shows what still holds.

## 1. The system

    svix-runtime -- starts, in this order, and stops in the reverse one:
      postgres, initialize (migrations, at most 90 s), svix-engine, sdk-bridge (full
      edition), svix-scheduler, nginx.  The exit of one child stops them all.

    svix-scheduler -- three loops, each posting one request at a time:
      market every 10 s, jobs every 5 s, maintenance every 15 s (timeouts 45 min, 6 h, 2 h)
             | HTTP
             v
    svix-engine (Go)                        FastAPI backend (Python reference)
      Collect, Observation, History           collect_market_data_task, calculate_observation
      PendingJob, runJob, Backfill            run_pending_job, run_historical_calculation_task
      Maintenance, maintainSQL                run_maintenance, run_data_maintenance
      /api/...                                /api/...
             | SQL            | HTTP                 | SQL
             v                v                      v
    PostgreSQL          sdk-bridge (Python)     PostgreSQL
                          IBKR, Futu

In Go one goroutine serves a request and requests meet only in PostgreSQL, through rows,
*session locks* (`pg_try_advisory_lock`, held by one pooled connection) and *transaction
locks*. In Python one process serves all requests: `async def` handlers run on the event loop
and interleave only where they await something that suspends; `def` handlers and tasks run in
a thread pool, each with a database session of its own, and interleave at every query and
commit. The scheduler never overlaps two posts of one loop, but a server is still unwinding a
post that timed out when the next one arrives.

### Components

| Component (sources) | State | Operations | What is hard, and what must hold |
|---|---|---|---|
| **Historical job queue** `go/internal/api/jobs.go`, `go/internal/service/tasks.go` | `calculation_jobs`; locks `svix_historical_job`, `svix_job_configuration` | create, retry; recover, claim, run in stages, record result or failure | Racing creations and retries, recovery of abandoned jobs, failures recorded late. One worker at a time, no job requeued while it runs, no duplicate, no result lost, every job settles. |
| **Live collection** `go/internal/service/tasks.go` (`Collect`) | `market_collection_runs`; lock `svix_market_collection` | skip, mark stale, start, save, fail | Decisions taken with an old clock reading. Runs keep the interval, the rate limit and the backoff; abandoned runs are closed. |
| **Historical calculation** `backend/app/api/jobs_routes.py`, `services/calculation_service.py`, `scheduler/tasks.py`, `services/alpaca_history.py`, `services/svix_calculator.py` | `calculation_jobs`, `option_snapshot`, `stock_snapshot`, `svix_history` | create, retry, poll, backfill in parts, calculate dates, finish; recover at start | No lock: one job may be executed twice. Bars are stored once, COMPLETED leaves no date out, every job settles. |
| **Intraday observations** `backend/app/services/svix_observation.py`, `scheduler/tasks.py` | `svix_asset_observations`, `svix_observations`, `calculation_status` of the run | observe a batch | Rows that reuse rows of earlier batches. A cached input dies in time and can be traced, the status tells what was committed. |
| **Maintenance** `backend/app/services/data_lifecycle.py`, `scheduler/runner.py` | `svix_daily`, `custom_index_daily`, detailed rows, `option_snapshot`, `data_maintenance_runs`, settings | fold, delete in batches, clean up quotes, finish | Many commits against concurrent writers, and a crash between any two. Daily rows are exact, nothing else is folded twice or lost, quotes are deleted only when covered. |
| **SDK bridge** `backend/app/bridge.py`, `api/provider_bridge.py`, `services/market_collector.py`, `data/providers/` | clients, threads, gateway sessions and subscriptions, the summary | collect, status | Blocking calls that are given up and go on. Subscriptions and sessions are given back, the summary is what was stored. |
| **Sign-in** `backend/app/auth/` | `admin_security`, `sessions`, the browsers' cookies | login, MFA setup and verification, refresh, logout | Tabs that share a cookie, answers that come late or never. A token is exchanged once, a setup never locks the owner out. |
| **Custom index, symbol directory** `backend/app/api/custom_index.py`, `services/custom_index.py`, `services/symbol_directory.py` | `custom_indices`, versions, `custom_index_history`; the cached directory | save, look up, calculate | A configuration saved while it is calculated; several requests at an expired directory. |
| **Scheduler** `go/cmd/svix-scheduler/main.go` | none | three loops | Overlap after a timeout. It is the fairness of the modules. |
| **Startup** `go/cmd/svix-runtime/main.go`, `go/internal/database/migrations.go` | `alembic_version`, a marker file, child processes | start, migrate, stop | No engine before the migrations, revisions applied once and in order. |
| **Providers** `go/internal/api/provider.go`, `backend/app/api/provider.py` | `provider_credentials` | configure, enable | At most one enabled. |
| **Settings** `go/internal/api/settings.go`, `backend/app/api/settings_routes.py` | `system_settings` | lifecycle, refresh interval, request maintenance | The request flag races the run that takes it off. |
| **Market calendar** `go/internal/market/calendar.go`, `backend/app/scheduler/market_hours.py` | embedded table 2020-2040 | current session | Boundaries of sessions and half days. |
| **Calculation engine** `go/internal/engine/*.go`, `backend/app/svix/` | none | variance, constant maturity, index | Floating-point formulas. |
| **Go observations, history, maintenance, Alpaca, sign-in, custom index, pool** | the same tables | the same | Production versions of the Python components, with locks and single transactions added. |
| **Read API**, **frontend**, **packaging** | caches only | queries, build | Read or reproduce what the parts above decide. |

`PROJECT.json` lists the components with their status, and the hazards of the code line by
line, each with the properties that cover it or the reason none does.

## 2. How the code is modelled

One step is one SQL statement or the commit of one transaction, with the code up to the next
one, where handlers run in threads or goroutines; what happens up to the next await that
suspends, where they run on an event loop. Tables and locks are the shared variables; where a
request stands (`pc`, `at`, `calc`), and what it has read and carries along, are variables
indexed by the request.

Faults have a bound each: `Crash` or `Restart` (the process ends; open transactions roll back,
rows stay), a statement that fails, an answer that is lost after its commit
(`...Unacknowledged`), in Go `LoseSession` (PostgreSQL ends the session that holds a lock
while its request works on through other connections), in `Bridge` a call that never returns,
in `Sessions` a request or answer that never arrives. Variables marked ghost or history
variable are read by properties only.

### JobQueue, JobBoard

`JobQueue` is the table `calculation_jobs` with the handlers of `/api/jobs` (`Clients`) and
the requests inside `PendingJob` (`Workers`).

| Code | Action |
|---|---|
| `create`: BeginTx; lock and duplicate query; INSERT and commit; 409 or rollback | `CreateBegin`, `CreateCheck`, `CreateCommit`, `CreateRollback` |
| retry: read and status test; conditional UPDATE | `RetryRead`, `RetryUpdate` |
| `lock`, `unlock` | `TryLock`, `Unlock` |
| `PendingJob`: recovery; claim; nothing to do; an error | `Requeue`, `Claim`, `ClaimUnacknowledged`, `NothingPending`, `Abort` |
| `runJob`: stages 15 and 85 around the download, result, error | `BeginDownload`, `EndDownload`, `Finish`, `FinishUnacknowledged`, `Fails` |
| recording of the error under a context of its own | `RecordFailure`, `LoseFailure` |

`created_at = now()` is the time at which the transaction *began*, so jobs can be older than
jobs inserted before them; `begun` is that clock. The dates and the frequency of a job are
one model value, its range. `JobBoard` is what the queue promises: a job is absent, queued
or settled, at most one is being worked on, and only while it is queued. The refinement
mapping takes "being worked on" from a worker and the row together: a worker executes the job
*and* its row says RUNNING. `JobBoard` has one step a naive specification would not have,
`SettleLate`: a worker whose result was committed without an answer records a failure after
the user has retried the job, and the retry is swallowed.

### Collection

`Collect` up to the UPDATE that finishes its run. A worker reads the clock when it arrives
(`seen`) and uses that reading for all its decisions, however much later it wins the lock; the
setting (`chosen`) is read under the lock. Times are minutes; windows of a fixed length at a
fixed distance stand for the calendar. `NextDue` is the decision of the code, backoff and rate
limit included; the failures in a row are counted over the runs of the session, as the query
does, and `resume` is `finished_at + retry_after_seconds`. COMPLETED stands for COMPLETED and
PARTIAL, which no decision of `Collect` tells apart.

### History

The Python queue. `Threads` are requests served by the thread pool: a `Poll` of the scheduler,
a create, a retry, a direct calculation. `BeginJob` commits RUNNING for whatever `Poll` has
read, without a test, so two threads may execute one job (`doubled`), and a retry may reset a
job that is being executed. The backfill goes through `parts`, stocks first and then one
window after the other: `Fetch` downloads and compares with the stored bars, `Save` commits the
rows and `Report` the progress. Stock bars are asked for from `Lookback` days before the range
on (420 in the code), so ranges overlap that have no day in common. `CalculateDate` takes one
date; `Incoherent` is `_quote_identity` raising
outside the handler that skips a date; `StoreResults` is the single commit, which `Conflict`
fails when another session has inserted a timestamp meanwhile. The commit of the failure handler
may fail too: the job is then RUNNING with nobody to execute it (`abandoned`), until a restart.
`Restart` ends all threads and recovers RUNNING jobs. There is one symbol; a day is also a month
window with one bar. Retention deletes nothing here; it is the subject of `Rollup`.

### Observation

What happens to a finished batch. `Finish` is the commit that closes a run; `Record` is
`calculate_observation`, which commits its rows together. A symbol's quotes are told apart by
the minute they were taken (`market` is the exchange). `Current` is `_calculate_asset`;
`AssetRow` the choice between the batch's own quotes, an earlier row (`Earlier`), and nothing;
`Available` is `_component` with the gates on the index; `FinalStatus` the status at the end.
Whether a correlation matrix is usable is left open, and weights are hundredths. A collection
may finish beside a batch that is not observed yet, at most `MaxOverlaps` times.

### Rollup

`run_data_maintenance` against calculations that store history. `Fold` commits the daily rows
of a table, `Delete` one batch of ids, `DeleteQuotes` one batch of a day's quotes; an error or a
crash may come between any two. A calculation reads the row it is going to replace, and accepts
or refuses its own, in `Calculate`; `Store` commits that decision later, and cannot if the row
was deleted, or another inserted, meanwhile (`AsRead`; `inserts` tells a row from one that was
put back in its place). An UPDATE writes the columns that differ from what was read (`Updated`).
A daily row is a record of the fields the merge treats differently:
open, high, low, close, a flag that goes with the close, the number of samples and the two
timestamps. `log`, `accepted`, `raced`, `again` and `cut` are ghosts: what each fold committed,
what was stored for a time, whether a row was updated between its fold and its deletion, how
often it was left between the two, and which days have lost quotes. Quotes are told apart by their day. One provider, one
custom index; one maintenance at a time, because the scheduler waits for its answer.

### CustomIndex

Requests that save the configuration (`Clients`) and calculations (`Calculators`). `Look`,
`Acquire`, `Fetched` and `FetchFails` are `lookup_symbol` with its lock and the second look at
the expiry. The components are looked up one after the other (`LookUp`): while the directory is
fresh that suspends nowhere, and the rest of the handler follows in the same step (`Decide`, with
the versions in `Persist`); if it expires after some were found (`Lapse`), the others (`left`)
queue for the lock again and may meet another directory. A calculation reads the symbols
(`Begin`, `List`), then the definition (`Define`, `LoadVersion`), each with one query for the index
and its enabled flag and one for the last version, then
calculates and reads the row it is going to replace (`Calculate`), then commits. A value is
represented by what it was calculated from. An UPDATE sets only the columns that differ from
what was read (`Updated`), as the mapper of the code emits it.

### Sessions

Handlers await nothing and are one step each; what interleaves are the requests of several
tabs that share their browser's cookie, and the answers (`asked` holds a request, then its
answer). `Grant` is `_token_response`; `Refresh` deletes the old row in the same commit. A
refused refresh is raised as an exception whose response lacks the cookie that was cleared in
the other response object, so the browser keeps its cookie; so is one for want of an active
administrator. A cookie lives as long as its row, counted from the arrival of the answer: `Forget`
drops one whose row is not `live` any more, and then the expired row has nobody left to present
it. No job deletes such rows, so what a browser leaves behind is asked of `live` rows. `tidy` holds the browsers that
have so far gone one step after the other.

### Bridge

One collection and one status check, each with a client. A request asks for one thing at a
time (`at`) under a timeout; `calls` are the calls handed to threads, awaited or given up.
IBKR's client has one thread, Futu's uses the default pool, Alpaca's calls are awaits that stop
when cancelled: `Starts`, `GivenUp`, `Immediate`. `Outcomes` says how a call may end, or it may
run for ever; a disconnection may raise, which both callers catch and log, and leaves the session
open. `Effects` is what the end of a call does at the gateway: subscriptions are cancelled however
the call ends, but Futu's client logs an exception of `unsubscribe` and never looks at its return
code, so a cancellation may fail (`Uncancelled`) and the subscription stays until its context is
closed; `kept` records those. The collection's summary is written step by step as the code does,
and the rows after it: `SaveStock` for the stock half, `KeepQuotes`, `LoseQuotes` (a savepoint that
cannot be released), `Refuse`, `RefuseWithin` (a symbol without rows whose empty savepoint cannot
be released counts as failed twice), `Break`.

## 3. What is checked

| Run | Question | Properties | States |
|---|---|---|---|
| `queue` (`MCJobQueue.cfg`) | Do the lock, the status tests and the configuration lock keep the queue safe, and is it the job board? | `OneWorker`, `ClaimHeld`, `ProgressAgrees`, `NoDuplicateWithoutRetry`, `ResultsNotRequeued`, `ImplementsBoard`, `TypeOK` | 357 000 |
| `queue_live` (`MCJobQueueLive.cfg`) | Does every job settle, lost sessions included? | `EveryJobSettles` | |
| `queue_lock_lost` (`MCJobQueueLost.cfg`) | Does the lock prove that nobody executes an abandoned job? | `LockProvesAbandoned`: **violated** | |
| `collection` (`MCCollection.cfg`) | Do overlapping requests keep the pace and the backoff? | `Paced`, `BacksOff`, `RunningIsLast`, `TypeOK` | 1.9 million |
| `collection_live` (`MCCollectionLive.cfg`) | Is an abandoned run closed? | `AbandonedRunsClose` | |
| `history` (`MCHistory.cfg`) | What holds of jobs, bars and results though nothing is locked? | `NoDuplicateBars`, `ExecutionAgrees`, `CompletedIsComplete`, `JobsSettle`, `TypeOK` | 501 000 |
| `observation` (`MCObservation.cfg`) | Do cached inputs die, can they be traced, does `calculation_status` tell the truth? | `InputLifetime`, `CachedRowsAreTraceable`, `CalculationAgrees`, `TypeOK` | 405 000 |
| `rollup` (`MCRollup.cfg`) | Is a daily row exact, and what can be folded twice, lost or uncovered? | `DailyIsAggregate`, `FoldedOncePerWrite`, `SamplesSurvive`, `DeletedQuotesAreCovered`, `TypeOK` | 642 000 |
| `rollup_twice` (`MCRollupTwice.cfg`) | Can an interrupted maintenance be repeated? | `RepeatCountsNothingTwice`: **violated** | |
| `custom_index` (`MCCustomIndex.cfg`) | Is the directory downloaded once, and do stored rows meet the version they are under? | `OneFetchPerExpiry`, `RowsMeetTheirVersion`, `HonestRows`, `TypeOK` | 974 000 |
| `sessions` (`MCSessions.cfg`) | Do racing tabs and lost answers break the chain of tokens or the second factor? | `RotatedOnce`, `CodesStillWork`, `NothingLeftBehind`, `TypeOK` | 1.8 million |
| `bridge` (`MCBridge.cfg`) | Is everything given back, and is the summary true, when calls are given up? | `SubscriptionsHeld`, `SessionReleased`, `SummaryAgrees`, `CollectionAnswered`, `TypeOK` | 167 000 |

Every property has a mutant in its module, an operator marked "Bug:" just before the
definition it changes: with it in place TLC finds the property violated, so none of them
holds because the model leaves the interesting part out.

### Exclusions

The code has behaviours that the obvious form of some properties forbids. They are in the
models, and the properties name them one by one, so that everything else is still checked:

* `SamplesSurvive`: a row updated between its fold and its deletion is deleted with the new
  value (ids are read before the fold).
* `FoldedOncePerWrite`: a row left between fold and deletion by an interruption is folded once
  more; `RepeatCountsNothingTwice` states what the documentation promises instead.
* `InputLifetime`: not after a collection that finished beside an unobserved batch.
* `NoDuplicateBars`: two executions that prepared one bar at once store it twice; no
  constraint forbids it. `ExecutionAgrees` and `ResultsStand`: not for jobs executed
  twice. `ExecutionAgrees` and `JobsSettle`: a job whose failure could not be recorded says
  RUNNING until the process is restarted.
* `OneFetchPerExpiry`: a download that fails while there is no directory at all is repeated by
  the next request; one that fails later is not, before the last directory expires once more.
* `HonestRows`: not for a row that two calculations updated at once; an UPDATE leaves out the
  columns its session did not change, so an estimate can end under the mark of a real value.
  Without this exclusion TLC finds the violation.
* `SubscriptionsHeld`: with Futu a subscription whose cancellation failed outlives its call. It
  ends with its session: whatever is subscribed belongs to a session that is open.
* `SessionReleased`: with Futu a connection given up can come up after the disconnection and
  its session stays; and a disconnection that was given up before it ran, or that raises,
  releases nothing.
* `SummaryAgrees`: the counters (not the statuses) are too high when a savepoint cannot be
  released, because they are written before; they are never too low.
* `NothingLeftBehind`: lost answers, overlapping requests and a second sign-in leave live rows
  nobody can present, until they expire. Expired rows that no cookie holds stay for ever.

### Bounds

* **Queue.** Two workers are enough for one to recover the job of another, two clients for a
  race of creations and of retries, three jobs of two ranges for a duplicate and a job of
  another range in front of it, one retry and one fault for a failure recorded late.
  The live instance adds a lost session, with fewer clients and jobs. Workers, clients and
  ranges are interchangeable, which the symmetry set says; the live runs use none.
* **Collection.** Two workers, two intervals, a session of four minutes and the first of the
  next one; a stale limit of two and a pause of three make every comparison of `NextDue` the
  deciding one somewhere. Three runs show a failure after a failure. The fourth row of the
  streak, and pauses of four and five minutes, are beyond the instance.
* **History.** Two threads, because every race is between two; a week of three dates of which
  the last is today: a job of the last two has a past day to backfill, a live one that is not,
  a week with two dates, and the first date as its lookback of one day; two events, so that a job can be created and executed beside another,
  retried, or interrupted. A third event would add a retry of an interrupted job beside
  another creation.
* **Observation.** Ages of one and two minutes over three minutes of one session and the
  first of the next; three batches make the source, a row that caches it, and one that must
  not. All six symbols, with the sets of missing symbols that decide coverage and components;
  every value has its matrix, for a missing one takes a value away just as missing quotes do.
* **Rollup.** Days of two times, so that a day is folded in parts; a batch is one row, so
  every deletion is interrupted between two of its rows; two writers, interchangeable, with a
  calculation each or both, which may store one time twice and read it before the other commits;
  a strict and an estimated row; every calculation yields both values, a row for each table;
  quotes of the first of three days, the only one that passes the retention within the bound. That two writers update one row
  in different columns, or that a row read is deleted and inserted again before the commit, takes
  three calculations; it is beyond the instance, and the proofs cover it.
* **CustomIndex.** Two clients for the queue at the directory, two calculators for the races
  of rows, three saves so that a version is replaced twice and an unchanged save falls between,
  three configurations with both policies and one disabled, of one and of two symbols, so that an
  expiry falls between two lookups; one expiry and one failed download.
* **Sessions.** Two browsers with two tabs, two requests at a time: every race here is between
  two requests. Three tokens are a chain of two rotations or two chains, two secrets an
  overlapping setup. Browsers and tabs are interchangeable.
* **Bridge.** Two symbols of up to two contracts: a symbol after another, a quote after
  another; a pool of two threads beside IBKR's one; one refused write, and one failed
  cancellation. The status check runs beside IBKR's collection only (`Checked`), where the two
  meet at the gateway, which admits a client id once; Futu's do not meet, and Alpaca's status
  is never asked for here.

### Fairness and liveness

`Fairness` of `JobQueue` and `Collection` is what `svix-scheduler` does: it posts again for
ever, so some request keeps trying the lock (weak fairness of `TryLock`, `Arrive`), and a
request that can run its next statement runs it, because statements and provider calls have
timeouts (weak fairness of `Proceed`). `FairSpec` of `History` is the same: polls for ever, and
a thread that serves a request goes on, because every call to Alpaca has a timeout and six
attempts. `FairSpec` of `Bridge` assumes nothing of the vendors' libraries, only that the timers
of the event loop fire and calls that await nothing end. No user acts and no fault happens out of fairness, and faults are
bounded, which says that they stop at some time. `Observation`, `Rollup`, `CustomIndex` and
`Sessions` state no liveness: nothing retries a batch left PENDING, a failed maintenance is
retried only for what the clock asks, and the others are driven by users.

Deadlock is checked except in `Observation`, `History`, `Bridge` and `CustomIndex`, whose bounded
inputs let the system come to rest.

### Disagreements with the documentation

1. `go/internal/service/tasks.go:198` says that owning the session lock proves no worker is
   still executing an abandoned job. The lock belongs to one connection and the work goes
   through others: when that session ends, a second worker requeues and claims a job that is
   being calculated (`queue_lock_lost`).
2. `backend/app/scheduler/tasks.py:1` calls its functions idempotent. The maintenance commits
   the fold (`data_lifecycle.py:143`) before it deletes what it folded: repeated after an
   interruption in between, it counts the same rows again (`rollup_twice`). The Go service
   puts both into one transaction, "to avoid counting twice" (`docs/go-migration.md`).

Three more things a reader may not expect. A weekly job counts every date with quotes as
attempted and ends PARTIAL as soon as a week has two of them. A maintenance requested while a
requested one finishes is taken off with it. And `retry_job` tests the status it has read
(`jobs_routes.py:79`), not the one there is when it commits PENDING: of two overlapping retries
the late one queues a job that the first one completed, though the message on line 80 admits
failed jobs and those without valid data only. `History` lets it happen (one job, two retries,
`MaxEvents = 3`); `ResultsStand` says that nothing else touches a settled row. Go's retry has the
status in the WHERE of its UPDATE, and `ResultsNotRequeued` holds there.

## 4. What is proved

Every invariant and every action property that a passing run checks is a theorem, for every value
of the constants that the module's assumption allows, and so is the refinement. What remains with
TLC is said at the end of this section.

### The queue

`JobQueueProofs` proves about `Spec` of `JobQueue`, for any sets of workers, clients and
ranges and any numbers of jobs, retries, faults and lost sessions:

| Theorem | Property |
|---|---|
| `TypeCorrect` | `[]TypeOK` |
| `AtMostOneWorker` | `[]OneWorker` |
| `ClaimsHold` | `[]ClaimHeld` |
| `ProgressIsTruthful` | `[]ProgressAgrees` |
| `NoDuplicates` | `[]NoDuplicateWithoutRetry` |
| `ResultsStay` | `ResultsNotRequeued` |
| `RecoveryIsSafe` | `RequeueOnlyAbandoned`, which no run checks by itself: `OneWorker` and `ClaimHeld` are its parts |
| `Refinement` | `ImplementsBoard`, where `MaxLosses = 0` |

The only assumption is `JobQueueAssumption`: the bounds are naturals and `None` is not a
worker, client, range or number. The bounds are constants of the model and not of the code;
as the theorems hold for all of them, no execution is excluded that is finite in jobs,
retries and faults.

None of the properties is inductive. `Inv` is, and adds what they rest on:

* `LockHeld`: a worker inside `PendingJob` holds the lock, unless a session was lost. At most
  one worker follows, and from it `ClaimHeld`: the only steps that take RUNNING away from a
  job are the recovery, which needs the lock, the job's own worker, and a retry, which
  needs a settled status.
* `RowsInserted`, `TargetsExist`: rows exist up to the last id, and workers and retries only
  write to rows that exist. Without it `ProgressAgrees` breaks at ids not given out yet.
* `CheckStands`: a creation that has passed its duplicate query holds the configuration lock,
  and no active job of its range can have appeared since. That makes the commit, one step
  later, as good as an atomic test and insertion. It is where a retry, which does not take
  that lock, has to be excluded.

The proof is one lemma per part of `Inv`, each with one step per kind of action. Workers'
actions are classified once (`WorkerCases`): beyond taking the lock, requeueing and unlocking,
a step leaves the rows alone (`Quiet`), claims a row (`Claims`), records a stage (`Advances`)
or settles its own job (`Settles`). `Invariance` combines the parts; the two action properties
follow from `Inv` and the same classification. TLC finds no violation of `Inv` on
the instance of `queue`, nor on one with two jobs and a lost session.

`Refinement` maps every step to one of the board or to none. `OnlyWorker` is its main lemma:
before and after the step of a worker inside `PendingJob`, the jobs worked on are those of
that worker, so each kind of step can be looked at for one worker. Recording a result
(`SettlesBoard`) is the step with most cases: it settles the job at work, or repeats what was
settled, or settles a job reopened meanwhile. The assumption that no session can be lost is
needed: with a loss two jobs can be worked on, which the board does not allow.

### Live collection

`CollectionProofs` proves about `Spec` of `Collection`, for any workers, intervals of up to an
hour, lengths of sessions and pauses, and any numbers of runs, faults and lost sessions, from
`CollectionAssumption` (constants have their types, `None` is none of them):

| Theorem | Property |
|---|---|
| `TypeCorrect` | `[]TypeOK` |
| `RunningRunIsLast` | `[]RunningIsLast` |
| `CollectionsArePaced` | `[]Paced` |
| `FailuresBackOff` | `[]BacksOff`, where `StaleFloor >= 5` |

The last hypothesis is one the run does not show, because its instance is stale after two to
four minutes and has no backoff of more than two: a stale run is followed at once, so its backoff is
kept only if a run has to be older than the longest backoff to be stale. The code waits for
thirty minutes; with less than five, changing that constant would break the backoff.

What the four rest on: the holder of the lock is the only worker that decides or collects
(`Held`); the run it collects is still RUNNING (`Collecting`) and the last of its session
(`Ending`), so closing it changes no pair of runs that follow each other; and runs of a session
start in the order of their ids (`Newest`, `Ordered`), so the run found by
`ORDER BY started_at DESC, id DESC` is the one inserted last (`LatestIsLast`). That is where the
old clock readings could do harm, and it holds because a run is only inserted when the reading
is past what the latest run asks for. Between closing a stale run and inserting the next one
`StaleRead` keeps what was read. The steps fall into three kinds: the runs stay
(`QuietKeepsOrder`), the last one of a session is closed (`CloseKeepsOrder`), or one is appended
where there is room (`StartHasRoom`, `AddKeepsOrder`). `IInv` was checked by TLC on the instance of
`collection` before it was proved.

### Maintenance

`RollupProofs` proves about `Spec` of `Rollup`, for any writers, results, tables, retentions,
batches and bounds, from `RollupAssumption` (constants have their types, `None` is no row):

| Theorem | Property |
|---|---|
| `SamplesCountedOnce` | `[]FoldedOncePerWrite` |
| `SamplesAreKept` | `[]SamplesSurvive` |
| `DailyRowsAggregate` | `[]DailyIsAggregate` |
| `QuotesAreReplaced` | `[]DeletedQuotesAreCovered` |
| `TypeCorrect` | `[]TypeOK` |

`IInv`, for the samples, is the conjunction of the first two with `Shape` (types of the history,
the job and the log of folds),
`LastAccepted` (a row in the history is the last one accepted for its time) and
`PendingFolded`: what is selected for deletion has been folded as it still is, unless a
calculation has replaced it since. The last part carries both theorems over a deletion, and is
what a deletion of other ids than the folded ones would break. The lemmas follow what a step
does to the samples: it leaves them alone (`QuietKeepsSamples`), stores one, folds the selected
ones, deletes a batch, or interrupts the run, which is where `again` counts what will be folded
a second time.

A daily row is never read back into samples, so what has to be shown of `Merge` is that it agrees
with folding everything at once. `FoldAppends` says what one more fold adds to a day: times,
values, a number of rows, and first rows of times not folded before. `AggregateGrows` turns this
into `Summary` or `Merge`: the extremes of a union are those of the two extremes (`MinUnion`,
`MaxUnion`), the rows of a new fold are disjoint from all earlier ones, and a strictly earlier
opening or later closing time cannot have been folded before, which is why the comparisons in
the code have to be strict for a repeated fold to leave open and close alone. Least and greatest
elements of finite sets exist by the well-founded order of strict subsets (`MinimalIn`).

`DeletedQuotesAreCovered` is about every state from the first deleted batch of a day on. It rests
on `Coverage`: days chosen for deletion, and days that have lost quotes, are covered
(`DaysCovered`), and what is pending was logged (`PendingLogged`). A calculation can replace a row
but not remove it; the only step that removes one deletes a pending row, whose fold has left a
daily row of its day (`LoggedIsDaily`), and daily rows stay.

### Historical calculation

`HistoryProofs` proves about `Spec` of `History`, for any threads, dates, requests, providers
and bounds, from `HistoryAssumption` (constants have their types; dates are finitely many, and so
are threads, being those of a pool):

| Theorem | Property |
|---|---|
| `BarsOnce` | `[]NoDuplicateBars` |
| `CompletedCovers` | `[]CompletedIsComplete` |
| `RowsSayWhatRuns` | `[]ExecutionAgrees` |
| `SettledRowsStand` | `ResultsStand` |
| `TypeCorrect` | `[]TypeOK` |

`IInv` (checked by TLC on the instance of `history` first) has a part of each thread: the job it
holds exists (`Holding`), what it has yet to download belongs to that job, and is less than all of
it when progress is reported (`Downloads`), and the dates it has yet to calculate and those it has calculated are disjoint dates of the job that have
quotes (`Drafts`). `Fresh` says that a bar about to be saved is not stored and is on its way in
one thread only, unless two downloads of it overlapped; `Executed` is `ExecutionAgrees`
with the unique thread named instead of counted. Who executes a job that was `abandoned` has begun
it again, which takes it off.

One thread's step cannot disturb another's part, because jobs keep their requests and what is
stored only grows (`OthersKept`, `StoreGrows`). Every step is then of one of four kinds: it
leaves the jobs alone (`QuietStep`), changes the thread's own job (`JobStep`), appends one, or is
the restart, which queues what is running. (A job becomes `doubled` where it is begun, or its
retry committed, in a status nobody tested.) `SettledRowsStand` goes through the steps once
more: a thread that executes a job that is not `doubled` finds it RUNNING, by `Executed`, so
what it commits replaces no result (`ExecutorStands`); no run checks it. Two facts are
arithmetic. `ProgressBounds`: the rounded progress of a backfill stays between 15 and 80.
`ResultsCover`: the code calls a job COMPLETED by *counting* rows, and the count is
right because rows of different dates are an injection into the dates attempted. Least and
greatest dates exist by the well-founded order of strict subsets.

`TypeOK` bounds the rows of one bar by the number of threads, for which `IInv` is too weak: it
says nothing of a bar that was raced for. `TInv` adds `Limited`: the rows of a bar and the
threads about to save it are together no more than there are threads. A thread joins them only
when it finds no row (`FetchLimited`), and saving moves it from one count to the other
(`SaveLimited`), so executing jobs again and again cannot pile up rows. `Counted` does the
same for jobs: those inserted and those about to be were asked for. All other steps are `Calm`.

### Observations

`ObservationProofs` proves about `Spec` of `Observation`, for any of the six symbols, any ages,
minutes, sessions and moves of the market and any numbers of batches, faults and overlaps, from
`ObservationAssumption` (constants have their types; `None` is no number, row or observation):

| Theorem | Property |
|---|---|
| `InputsExpire` | `[]InputLifetime` |
| `SourcesAreReal` | `[]CachedRowsAreTraceable` |
| `StatusTellsTheCommit` | `[]CalculationAgrees` |
| `TypeCorrect` | `[]TypeOK` |

What a row is depends on all earlier batches of its session, so the invariant is about pairs.
`Ordered`: batches are numbered as they finish, and quotes of a symbol only get newer; from it the
latest earlier row (`Prior`) is the one of the largest number (`PriorIsLatest`). `InTurn`: without
overlaps only the last batch can be unobserved, so a row is never put before one that was taken
from an earlier batch. `Traced` names for every priced row the batch whose quotes it has, new
there. `Untouched` says which batches have rows: none that waits, and one whose calculation raised
only if the answer to its commit was lost.

A row is new, cached, or empty (`RowCases`). `LifetimeRecorded` is the main lemma: with the rows of
one more batch, two rows of the same quotes still lie within the cache age, because a cached row
names the *new* one and measures its age from there and not from the row it found, and because a
new row has other quotes than the last new one, hence newer ones than all before.
`TracedRecorded` is the same for the sources. Steps without a commit leave rows and what batches
saved alone (`Grown`, `TracedKept`, `LifetimeKept`).

Coverage is a sum by a fold of the community modules. The induction theorems cannot be used on it
(they take an operator), but a smallest counterexample can: two functions that satisfy the
equation of the fold and differ would differ first at a smallest set, and do not
(`SumsUnique`); so the fold is any function that satisfies the equation, and for the coverage a sum
of six weights does (`CoverageInRange`).

`IInv` holds in all states of an instance with two minutes and one session of two minutes, which
TLC searched entirely (113 713 states), and in all states of the instance of `observation`.

### Bridge

`BridgeProofs` proves about `Spec` of `Bridge`, for any numbers of symbols, contracts, threads
and refused statements, from `BridgeAssumption` (the providers are among the three):

| Theorem | Property |
|---|---|
| `SubscriptionsEnd` | `[]SubscriptionsHeld` |
| `SessionsEnd` | `[]SessionReleased` |
| `SummaryIsCommitted` | `[]SummaryAgrees` |
| `TypeCorrect` | `[]TypeOK` |

A given up call lives on in its thread, so the invariant has to say what such calls can be.
`Awaiting`: a request awaits one call, the one it is at. `LeftRunning`: only a call that runs is
left behind. `OneThread`: with IBKR no two calls of a request run at once, so a disconnection
starts only when everything before it has ended; this is why the session stays closed, and
what Futu's pool lacks. `AlpacaTidy`: Alpaca's calls are cancelled and leave nothing. `Remains`
says what a request leaves at its end, unless its disconnection never ran or raised: a
disconnection that runs, or no call and no session. That a subscription has an open session is
carried along with it: only the end of a disconnection closes one, and takes all its subscriptions
with it.
How the collection goes on after an answer (`ResumeEffect`) is separated from what the answer
leaves at the gateway (`EndEffects`), so the many ways of the collection to continue are looked
at once.

The summary is a second invariant, `SInv`, over the variables of the collection alone. `Progress`:
symbols behind the current one are decided and the ones ahead have no rows. `Tally`: rows, statuses
and counters agree after each symbol, unless a savepoint failed after counting (`overcount`), when
the counters are only bounded from below, or
the transaction is rolled back. `Through` says what it is to be through with a symbol, in
whichever of the many ways, and `ThroughKeepsSummary` is proved once for all of them. The sum of
rows is a fold, and the argument is that of the observations; `TotalPut` adds to it what
is put where there was nothing. `TInv` joins both invariants with the types of calls; it
holds in all states of the instance of `bridge` (TLC cannot evaluate one conjunct of it,
`HasTotal`, which says that a function of sums exists).

### Sign-in

`SessionsProofs` proves about `Spec` of `Sessions`, for any sets of browsers and tabs and any
numbers of requests, tokens and secrets, from `SessionsAssumption` (the bounds are naturals):

| Theorem | Property |
|---|---|
| `TypeCorrect` | `[]TypeOK` |
| `TokensRotateOnce` | `[]RotatedOnce` |
| `SecondFactorHolds` | `[]CodesStillWork` |
| `TidyBrowsersLeaveNothing` | `[]NothingLeftBehind` |

The inductive invariant `IInv` is their conjunction and three parts they rest on. `Named`:
tokens are issued in order and no cookie, predecessor or answer names one that is not issued, so a
new token cannot be in one of them already. `CodesScanned`: a code on its way is one of a secret the
authenticator has, which is why enabling with it is safe although a second setup may replace
the secret before. `InOrder`: a tidy browser has one message at a time, its request carries the
cookie it still has or one it has dropped since, which was worth nothing, and a cookie about to be
replaced is worth nothing. The lemmas follow the
handlers: what issuing a token keeps (`GrantKeeps`), what deleting rows keeps (`ShrinkKeeps`),
sending, receiving, the second factor, and expiry; `NextIInv` combines them.

### Custom index

`CustomIndexProofs` proves, for any clients, calculators, symbols, configurations, directories
and bounds, from `CustomIndexAssumption` (constants have their types and a directory is not
empty):

| Theorem | Property |
|---|---|
| `DownloadsNotRepeated` | `[]OneFetchPerExpiry` |
| `RowsBelong` | `[]RowsMeetTheirVersion` |
| `MarksAreHonest` | `[]HonestRows` |
| `TypeCorrect` | `[]TypeOK` |

`Downloads` counts what is owed: downloads begun are at most one, one per expiry and one per
failure that left no directory (`vain`), less one while the directory is stale and nobody is
fetching; the lock makes the fetching request unique. An expiry between two lookups of one request
is one more that is owed (`LookUpDownloads`). `RInv` ties calculations to the configuration: a draft holds the
definition of its version as it still is, because versions are only appended (`Extended`, the
relation every save satisfies), and what it is going to commit replaces the row it has read.
`CommitKeeps` is the main lemma: a row that is still what was read satisfies both parts, any
other is a race and recorded as one. `TInv` adds for `TypeOK` that a fresh directory is not empty
(`Listed`), which is what the code's refusal of an incomplete download is for, and that versions
and requests in progress are together no more than requests made (`Counted`).
`WeightsTotal`, which says that the owner's weights add up to 100, is not used by the proofs.

### Model-checked only

* Liveness (`EveryJobSettles`, `AbandonedRunsClose`, `JobsSettle`, `CollectionAnswered`): it needs
  fairness and ENABLED, out of the prover's reach.
* That the two runs that expect a violation find one: that is a behaviour and not a theorem.
* What the folds compute for every input, beyond the sums above: the induction theorems of the
  library take an operator as a parameter, which the installed provers cannot instantiate.

## 5. What is not modelled

* Arithmetic of volatilities and correlations: floating point, covered by the repository's
  tests against reference values. Coverage is exact in the models and a float sum in the code.
* The Go versions of observations, history, maintenance, sign-in, custom index and Alpaca. They
  are close to the Python text but not the same: transaction locks, one transaction around
  fold and deletion, `DELETE ... RETURNING` for a refresh. Exceptions listed above for the
  Python text are not claims about Go.
* The inside of `Backfill` and of `History` within a Go job: the time a worker spends between
  its stages.
* Several collections at once in Python (`tasks.py:90` has no lock): `Observation` lets a
  collection finish beside an unobserved batch, but which runs are started is modelled for
  Go only (`Collection`).
* Two maintenances at once, which only a timeout of two hours or a second caller brings about.
* Startup and migrations, provider configuration, the connection pool of Go, the calendar's
  table: sequential or data.
* Validation of requests, HTTP, formats, logging, listing endpoints, frontend, packaging: they
  change no state.

## 6. Plan

What would add most next:

1. Go's maintenance as a second refinement of what `Rollup` promises: with one transaction
   around fold and deletion, `RepeatCountsNothingTwice` should hold.
2. The Python collection without a lock beside `Observation`, as one composition.
