------------------------------ MODULE History ------------------------------
(***************************************************************************)
(* Historical calculations in the Python backend: the queue of jobs        *)
(* (backend/app/api/jobs_routes.py, services/calculation_service.py), their *)
(* execution (scheduler/runner.py, scheduler/tasks.py), the backfill from   *)
(* Alpaca (services/alpaca_history.py) and the calculation of the index     *)
(* (services/svix_calculator.py, svix/svix_repository.py).                  *)
(*                                                                         *)
(* A thread is a request served by the thread pool: a poll of the          *)
(* scheduler, a call of the API.  Nothing serialises them; each has its own *)
(* database session, so one step is what a session reads, or what it        *)
(* commits, up to the next point where another request can come between.   *)
(* There is one symbol; a day is a month window with one bar, and also the  *)
(* date it is calculated for.  Nothing deletes rows here: the retention that *)
(* removes old quotes and folds old results is in Rollup.                   *)
(***************************************************************************)
EXTENDS Integers, Sequences, FiniteSets

CONSTANTS Threads,      \* requests in progress at the same time
          Days,         \* dates, as a set of numbers
          Today,        \* the first day the backfill must not ask for
          Lookback,     \* days of stock bars asked for before the first date
          Week,         \* day -> its ISO week
          Requests,     \* what the user asks for: [days, frequency]
          Providers,    \* providers that may be enabled
          Collected,    \* provider -> days with live quotes
          None,         \* no request
          MaxEvents     \* bound: requests of the user and restarts, together

ASSUME HistoryAssumption ==
  /\ IsFiniteSet(Threads)
  /\ Days \subseteq Nat /\ IsFiniteSet(Days)
  /\ Week \in [Days -> Nat] /\ Lookback \in Nat
  /\ Requests \subseteq [days : (SUBSET Days) \ {{}}, frequency : {"daily", "weekly"}]
  /\ Collected \in [Providers -> SUBSET Days]
  /\ MaxEvents \in Nat

VARIABLES
  provider,  \* the enabled provider, all along
  jobs,      \* calculation_jobs in creation order; an index is an id
  bars,      \* number of rows stored for a bar, per stock or option day
  history,   \* the timestamps with a row in svix_history
  pc,        \* thread -> what it does next
  held,      \* thread -> the job it executes or retries, 0 for none
  wanted,    \* thread -> the request of the call it serves
  parts,     \* thread -> parts of the backfill it has yet to download
  rows,      \* thread -> bars its session has not committed
  dates,     \* thread -> dates it has yet to calculate
  draft,     \* thread -> results of its calculation
  raced,     \* history variable: bars two sessions prepared at once
  doubled,   \* history variable: jobs executed twice at once, or again
  abandoned, \* history variable: RUNNING jobs that failed without this being recorded
  events

threadVars == <<pc, held, wanted, parts, rows, dates, draft>>
vars       == <<provider, jobs, bars, history, threadVars, raced, doubled, abandoned, events>>

Bar        == {"stock", "option"} \X Days
Timestamp  == {"close", "live"} \X Days
Settled    == {"COMPLETED", "PARTIAL", "NO_VALID_DATA", "FAILED"}
Retriable  == {"FAILED", "NO_VALID_DATA"}
Active     == {"PENDING", "RUNNING"}
Executing  == {"fetch", "save", "report", "calc", "finish"}
Write      == [at : Timestamp, insert : BOOLEAN]
JobIds     == 1..Len(jobs)

LeastOf(S)    == CHOOSE x \in S : \A y \in S : x <= y
GreatestOf(S) == CHOOSE x \in S : \A y \in S : x >= y

Job == [request : Requests, status : Active \cup Settled, progress : 0..100,
        finished : BOOLEAN, covered : SUBSET Days]

\* The types of the jobs, of what is stored and of what the threads carry along.
TypeOK ==
  /\ provider \in Providers
  /\ jobs \in Seq(Job) /\ Len(jobs) <= MaxEvents
  /\ bars \in [Bar -> 0..Cardinality(Threads)]
  /\ history \subseteq Timestamp
  /\ pc \in [Threads -> Executing \cup {"idle", "picked", "checked", "retrying"}]
  /\ held \in [Threads -> 0..MaxEvents]
  /\ wanted \in [Threads -> Requests \cup {None}]
  /\ \A t \in Threads : parts[t] \subseteq Bar /\ rows[t] \subseteq Bar
  /\ \A t \in Threads : dates[t] \subseteq Days /\ draft[t] \subseteq Write
  /\ raced \subseteq Bar
  /\ doubled \cup abandoned \subseteq 1..MaxEvents
  /\ events \in 0..MaxEvents

Init ==
  /\ provider \in Providers
  /\ jobs = <<>>
  /\ bars = [b \in Bar |-> 0]
  /\ history = {}
  /\ pc = [t \in Threads |-> "idle"]
  /\ held = [t \in Threads |-> 0]
  /\ wanted = [t \in Threads |-> None]
  /\ parts = [t \in Threads |-> {}] /\ rows = [t \in Threads |-> {}]
  /\ dates = [t \in Threads |-> {}] /\ draft = [t \in Threads |-> {}]
  /\ raced = {} /\ doubled = {} /\ abandoned = {}
  /\ events = 0

Others(t) == Threads \ {t}

\* The thread's request is answered; its session is closed.
Answer(t) ==
  /\ pc' = [pc EXCEPT ![t] = "idle"]
  /\ held' = [held EXCEPT ![t] = 0]
  /\ wanted' = [wanted EXCEPT ![t] = None]
  /\ parts' = [parts EXCEPT ![t] = {}] /\ rows' = [rows EXCEPT ![t] = {}]
  /\ dates' = [dates EXCEPT ![t] = {}] /\ draft' = [draft EXCEPT ![t] = {}]

-----------------------------------------------------------------------------
(* The API: create, retry. *)

Duplicate(r) == \E j \in JobIds : jobs[j].request = r /\ jobs[j].status \in Active

\* create_job up to the query for a duplicate; a refusal (409) changes nothing.
CreateJob(t, r) ==
  /\ pc[t] = "idle" /\ events < MaxEvents
  /\ ~ Duplicate(r)
  /\ events' = events + 1
  /\ pc' = [pc EXCEPT ![t] = "checked"]
  /\ wanted' = [wanted EXCEPT ![t] = r]
  /\ UNCHANGED <<provider, jobs, bars, history, held, parts, rows, dates, draft, raced,
                 doubled, abandoned>>

NewJob(r) == [request |-> r, status |-> "PENDING", progress |-> 0,
              finished |-> FALSE, covered |-> {}]

\* create_historical_job commits the row; dispatch_historical_job only checks its id.
InsertJob(t) ==
  /\ pc[t] = "checked"
  /\ jobs' = Append(jobs, NewJob(wanted[t]))
  /\ Answer(t)
  /\ UNCHANGED <<provider, bars, history, raced, doubled, abandoned, events>>

\* retry_job reads the job; a status that is not to be retried is answered 409.
RetryJob(t, j) ==
  /\ pc[t] = "idle" /\ events < MaxEvents
  /\ jobs[j].status \in Retriable
  /\ events' = events + 1
  /\ pc' = [pc EXCEPT ![t] = "retrying"]
  /\ held' = [held EXCEPT ![t] = j]
  /\ UNCHANGED <<provider, jobs, bars, history, wanted, parts, rows, dates, draft, raced,
                 doubled, abandoned>>

\* Bug: the progress of the failed execution stays.
RequeuedWithProgress(job) == [job EXCEPT !.status = "PENDING", !.finished = FALSE]

Requeued(job) == [job EXCEPT !.status = "PENDING", !.progress = 0, !.finished = FALSE]

CommitRetry(t) ==
  /\ pc[t] = "retrying"
  /\ LET j == held[t] IN
     /\ jobs' = [jobs EXCEPT ![j] = Requeued(@)]
     /\ doubled' = IF jobs[j].status = "RUNNING" THEN doubled \cup {j} ELSE doubled
  /\ Answer(t)
  /\ UNCHANGED <<provider, bars, history, raced, abandoned, events>>

-----------------------------------------------------------------------------
(* Execution of a job: run_pending_job and run_historical_calculation_task. *)

\* The oldest PENDING job is read in a session of its own.
Poll(t) ==
  /\ pc[t] = "idle"
  /\ \E j \in JobIds : jobs[j].status = "PENDING"
  /\ pc' = [pc EXCEPT ![t] = "picked"]
  /\ held' = [held EXCEPT ![t] = LeastOf({j \in JobIds : jobs[j].status = "PENDING"})]
  /\ UNCHANGED <<provider, jobs, bars, history, wanted, parts, rows, dates, draft, raced,
                 doubled, abandoned, events>>

Option(d) == <<"option", d>>
Stock(d)  == <<"stock", d>>

\* completed_end: the backfill leaves the current day out.
Past(S) == {d \in S : d < Today}

\* The kinds of option rows of a day.
Content(d) == {kind \in {"live", "bar"} :
                IF kind = "live" THEN d \in Collected[provider]
                ELSE provider = "ALPACA" /\ bars[Option(d)] > 0}

Stored(S) == {d \in S : Content(d) # {}}

\* _available_dates: all dates with rows, or the last one of each week.
AvailableDates(r) ==
  LET S == Stored(r.days) IN
  IF r.frequency = "daily" THEN S
  ELSE {GreatestOf({d \in S : Week[d] = Week[e]}) : e \in S}

\* The stocks come first, in one part; then the option bars, one part for each window.
Parts(r) == {<<"stock", LeastOf(Past(r.days))>>} \cup {Option(d) : d \in Past(r.days)}

\* Nothing but CANCELLED, which no code writes, keeps the job from being executed:
\* the status it was polled with may have changed.
BeginJob(t) ==
  LET j == held[t]
      r == jobs[j].request
      backfills == provider = "ALPACA" /\ Past(r.days) # {}
  IN
  /\ pc[t] = "picked"
  /\ jobs' = [jobs EXCEPT ![j].status = "RUNNING", ![j].progress = 10]
  /\ doubled' = IF jobs[j].status # "PENDING" THEN doubled \cup {j} ELSE doubled
  /\ abandoned' = abandoned \ {j}
  /\ pc' = [pc EXCEPT ![t] = IF backfills THEN "fetch" ELSE "calc"]
  /\ parts' = [parts EXCEPT ![t] = IF backfills THEN Parts(r) ELSE {}]
  /\ dates' = [dates EXCEPT ![t] = IF backfills THEN {} ELSE AvailableDates(r)]
  /\ UNCHANGED <<provider, bars, history, held, wanted, rows, draft, raced, events>>

\* The exception handler rolls back and commits FAILED.  When this commit fails too, the
\* exception leaves the thread, and the job is RUNNING with nobody to execute it.  A call
\* without a job only rolls back.
Failed(t) ==
  LET j == held[t] IN
  /\ IF j = 0 THEN UNCHANGED <<jobs, abandoned>>
     ELSE \/ /\ jobs' = [jobs EXCEPT ![j] = [@ EXCEPT !.status = "FAILED", !.progress = 100,
                                                      !.finished = TRUE]]
             /\ UNCHANGED abandoned
          \/ /\ abandoned' = abandoned \cup {j}
             /\ UNCHANGED jobs
  /\ Answer(t)

NextPart(S) ==
  IF \E p \in S : p[1] = "stock" THEN CHOOSE p \in S : p[1] = "stock"
  ELSE Option(LeastOf({p[2] : p \in S}))

\* The bars a part asks for: the stock bars of the whole range and of the days before it
\* (420 in the code) that its returns need, or one window's options.
Asked(t, p) ==
  LET r == jobs[held[t]].request IN
  IF p[1] # "stock" THEN {p}
  ELSE {Stock(d) : d \in {e \in Past(Days) : /\ LeastOf(r.days) - Lookback <= e
                                             /\ e <= GreatestOf(r.days)}}

\* Bug: bars that are already stored are saved again.
MissingAll(S) == S

\* _save_stock_bars, _save_option_bars: the bars with no row yet.
Missing(S) == {b \in S : bars[b] = 0}

\* A part is downloaded, page by page with retries, and compared with what is stored.
\* The source may have no bar for it.
Fetch(t) ==
  /\ pc[t] = "fetch" /\ parts[t] # {}
  /\ \E got \in {{}, Asked(t, NextPart(parts[t]))} :
       /\ rows' = [rows EXCEPT ![t] = Missing(got)]
       /\ raced' = raced \cup {b \in got : \E u \in Others(t) : pc[u] = "save" /\ b \in rows[u]}
  /\ pc' = [pc EXCEPT ![t] = "save"]
  /\ UNCHANGED <<provider, jobs, bars, history, held, wanted, parts, dates, draft, doubled,
                 abandoned,
                 events>>

\* _get gives up after six attempts, or at once when access is refused.
FetchFails(t) ==
  /\ pc[t] = "fetch" /\ parts[t] # {}
  /\ Failed(t)
  /\ UNCHANGED <<provider, bars, history, raced, doubled, events>>

\* Bug: one window too many is reported.
ProgressAhead(total, left) == 15 + (65 * (total - left)) \div (total - 1)

\* update_progress: 15 after the stocks, then up to 80 with the windows.
BackfillProgress(total, left) == 15 + (65 * (total - 1 - left)) \div (total - 1)

\* The rows are committed ...
Save(t) ==
  /\ pc[t] = "save"
  /\ bars' = [b \in Bar |-> bars[b] + (IF b \in rows[t] THEN 1 ELSE 0)]
  /\ pc' = [pc EXCEPT ![t] = "report"]
  /\ parts' = [parts EXCEPT ![t] = @ \ {NextPart(@)}]
  /\ rows' = [rows EXCEPT ![t] = {}]
  /\ UNCHANGED <<provider, jobs, history, held, wanted, dates, draft, raced, doubled, abandoned,
                 events>>

\* ... and then the progress.
Report(t) ==
  LET j == held[t] IN
  /\ pc[t] = "report"
  /\ jobs' = [jobs EXCEPT ![j].progress =
                BackfillProgress(Cardinality(Parts(jobs[j].request)), Cardinality(parts[t]))]
  /\ pc' = [pc EXCEPT ![t] = "fetch"]
  /\ UNCHANGED <<provider, bars, history, held, wanted, parts, rows, dates, draft, raced,
                 doubled,
                 abandoned, events>>

\* Progress 85 is committed and the calculation reads which dates there are.
Backfilled(t) ==
  /\ pc[t] = "fetch" /\ parts[t] = {}
  /\ jobs' = [jobs EXCEPT ![held[t]].progress = 85]
  /\ pc' = [pc EXCEPT ![t] = "calc"]
  /\ dates' = [dates EXCEPT ![t] = AvailableDates(jobs[held[t]].request)]
  /\ UNCHANGED <<provider, bars, history, held, wanted, parts, rows, draft, raced, doubled,
                 abandoned, events>>

-----------------------------------------------------------------------------
(* The calculation: calculate_svix, and SVIXRepository.save. *)

\* A calculation asked for by the user directly, without a job.
CalculateHistory(t, r) ==
  /\ pc[t] = "idle" /\ events < MaxEvents
  /\ events' = events + 1
  /\ pc' = [pc EXCEPT ![t] = "calc"]
  /\ wanted' = [wanted EXCEPT ![t] = r]
  /\ dates' = [dates EXCEPT ![t] = AvailableDates(r)]
  /\ UNCHANGED <<provider, jobs, bars, history, held, parts, rows, draft, raced, doubled,
                 abandoned>>

\* The latest row of every contract of the day is used, and the result has the time of
\* the latest of these quotes.
ValuationTime(d) == IF "live" \in Content(d) THEN <<"live", d>> ELSE <<"close", d>>

\* What save leaves in the session: an insertion, or an update of the row it has read.
Saved(at) == [at |-> at, insert |-> at \notin history]

\* One date.  It has no result when the engine refuses its quotes or a stock has a
\* history of less than 253 days.
CalculateDate(t) ==
  LET d  == LeastOf(dates[t])
      at == ValuationTime(d)
  IN
  /\ pc[t] = "calc" /\ dates[t] # {}
  /\ dates' = [dates EXCEPT ![t] = @ \ {d}]
  /\ \/ UNCHANGED draft
     \/ draft' = [draft EXCEPT ![t] = @ \cup {Saved(at)}]
  /\ UNCHANGED <<provider, jobs, bars, history, pc, held, wanted, parts, rows, raced,
                 doubled, abandoned, events>>

\* _quote_identity refuses quotes of several batches, feeds or kinds.  For the standard
\* index it is called outside the handler that skips a date: the calculation ends.
Incoherent(t) ==
  /\ pc[t] = "calc" /\ dates[t] # {}
  /\ "live" \in Content(LeastOf(dates[t]))
  /\ Failed(t)
  /\ UNCHANGED <<provider, bars, history, raced, doubled, events>>

\* Another session has inserted a row that this one is about to insert.
Conflict(t) == \E w \in draft[t] : w.insert /\ w.at \in history

\* One commit for all dates; svix_history.timestamp is unique.
StoreResults(t) ==
  /\ pc[t] = "calc" /\ dates[t] = {}
  /\ IF Conflict(t) THEN Failed(t) /\ UNCHANGED history
     ELSE /\ history' = history \cup {w.at : w \in draft[t]}
          /\ IF held[t] = 0 THEN Answer(t)
             ELSE /\ pc' = [pc EXCEPT ![t] = "finish"]
                  /\ UNCHANGED <<held, wanted, parts, rows, dates, draft>>
          /\ UNCHANGED <<jobs, abandoned>>
  /\ UNCHANGED <<provider, bars, raced, doubled, events>>

\* Bug: a date without a result does not count.
FinalStatusLenient(results, attempted) == IF results = 0 THEN "NO_VALID_DATA" ELSE "COMPLETED"

\* All dates with rows count as attempted, whatever the frequency: a weekly job is
\* PARTIAL as soon as a week has two of them.
FinalStatus(results, attempted) ==
  IF results = 0 THEN "NO_VALID_DATA"
  ELSE IF attempted > results THEN "PARTIAL" ELSE "COMPLETED"

FinishJob(t) ==
  LET j == held[t]
      attempted == Stored(jobs[j].request.days)
  IN
  /\ pc[t] = "finish"
  /\ jobs' = [jobs EXCEPT ![j] = [@ EXCEPT
                !.status = FinalStatus(Cardinality(draft[t]), Cardinality(attempted)),
                !.progress = 100, !.finished = TRUE, !.covered = attempted]]
  /\ Answer(t)
  /\ UNCHANGED <<provider, bars, history, raced, doubled, abandoned, events>>

\* Bug: the queue is not recovered.
NotRecovered(job) == job

\* recover_interrupted_jobs; finished_at is not among the columns it resets.
Recovered(job) ==
  IF job.status = "RUNNING" THEN [job EXCEPT !.status = "PENDING", !.progress = 0] ELSE job

\* The API process ends, with all its threads, and starts again: the lifespan handler
\* recovers the jobs before the first request is served.
Restart ==
  /\ events < MaxEvents /\ \E t \in Threads : pc[t] # "idle"
  /\ events' = events + 1
  /\ jobs' = [j \in JobIds |-> Recovered(jobs[j])]
  /\ abandoned' = {}
  /\ pc' = [t \in Threads |-> "idle"]
  /\ held' = [t \in Threads |-> 0]
  /\ wanted' = [t \in Threads |-> None]
  /\ parts' = [t \in Threads |-> {}] /\ rows' = [t \in Threads |-> {}]
  /\ dates' = [t \in Threads |-> {}] /\ draft' = [t \in Threads |-> {}]
  /\ UNCHANGED <<provider, bars, history, raced, doubled>>

-----------------------------------------------------------------------------
Working(t) ==
  \/ InsertJob(t) \/ CommitRetry(t)
  \/ BeginJob(t) \/ Fetch(t) \/ FetchFails(t) \/ Save(t) \/ Report(t) \/ Backfilled(t)
  \/ CalculateDate(t) \/ Incoherent(t) \/ StoreResults(t) \/ FinishJob(t)

Next ==
  \/ Restart
  \/ \E t \in Threads :
       \/ Poll(t) \/ Working(t)
       \/ \E r \in Requests : CreateJob(t, r) \/ CalculateHistory(t, r)
       \/ \E j \in JobIds : RetryJob(t, j)

Spec == Init /\ [][Next]_vars

\* The scheduler polls for ever, and a thread that serves a request runs: every call
\* to Alpaca has a timeout and a fixed number of attempts.
FairSpec ==
  /\ Spec
  /\ WF_vars(\E t \in Threads : Poll(t))
  /\ \A t \in Threads : WF_vars(Working(t))

-----------------------------------------------------------------------------
(* Properties. *)

\* A bar is stored twice only when two saves of it overlapped: executing a job again,
\* after a failure, a restart or for an overlapping range, adds nothing twice.
NoDuplicateBars == \A b \in Bar : bars[b] > 1 => b \in raced

\* While a job is not executed twice: it is RUNNING exactly while one thread executes
\* it, or when its failure could not be recorded, and progress and finished_at agree
\* with its status.
ExecutionAgrees ==
  \A j \in JobIds \ doubled :
    LET executing == {t \in Threads : held[t] = j /\ pc[t] \in Executing}
        job == jobs[j]
    IN /\ job.status = "RUNNING" <=> Cardinality(executing) = 1 \/ j \in abandoned
       /\ executing = {} /\ j \notin abandoned =>
            job.progress = (IF job.status = "PENDING" THEN 0 ELSE 100)
       /\ job.status = "RUNNING" => job.progress \in 10..85
       /\ job.finished <=> job.status \in Settled

\* A COMPLETED job left no date out: each date that had quotes when it ended has a row.
CompletedIsComplete ==
  \A j \in JobIds : jobs[j].status = "COMPLETED" =>
    \A d \in jobs[j].covered : \E at \in history : at[2] = d

\* The row of a settled job is only changed by a retry, which queues it again, unless the
\* job was executed twice: no late commit, failure or restart rewrites a result.
ResultsStand ==
  [][\A j \in JobIds \ doubled' :
       jobs[j].status \in Settled /\ jobs'[j] # jobs[j] =>
         /\ \E t \in Threads : pc[t] = "retrying" /\ held[t] = j
         /\ jobs'[j].status = "PENDING"]_vars

\* Whatever is asked for, there is always a later time at which every job is settled, or is
\* RUNNING with a failure that could not be recorded: only a restart of the process takes
\* such a job up again, and then the same is said of it once more.
JobsSettle ==
  []<>(\A j \in JobIds : \/ jobs[j].status \in Settled
                         \/ jobs[j].status = "RUNNING" /\ j \in abandoned)
=============================================================================
