------------------------------ MODULE JobQueue ------------------------------
(***************************************************************************)
(* The queue of historical calculations: the table calculation_jobs, the   *)
(* HTTP handlers that create and retry jobs (go/internal/api/jobs.go) and  *)
(* the scheduler requests that execute them (go/internal/service/tasks.go, *)
(* PendingJob).                                                            *)
(*                                                                         *)
(* A worker is one request to /internal/scheduler/jobs: net/http runs      *)
(* every request in a goroutine of its own, so several may be inside       *)
(* PendingJob at once, and only the PostgreSQL session lock                *)
(* 'svix_historical_job' keeps them apart.  A client is one request to     *)
(* /api/jobs.  One step is one SQL statement or one transaction commit:    *)
(* the database makes those atomic and everything else interleaves.        *)
(***************************************************************************)
EXTENDS Naturals, FiniteSets

CONSTANTS Workers,    \* requests that can be inside PendingJob at the same time
          Clients,    \* API requests that can be in flight at the same time
          Ranges,     \* (type, start, end, frequency) combinations asked for
          None,       \* no worker, no client, no job, no range
          MaxJobs,    \* bound: creations begun
          MaxRetries, \* bound: retries accepted
          MaxFaults,  \* bound: crashes, lost writes and errors before a claim
          MaxLosses   \* bound: lock sessions ended under a live worker

ASSUME JobQueueAssumption ==
  /\ None \notin Workers \cup Clients \cup Ranges \cup Nat
  /\ MaxJobs \in Nat /\ MaxRetries \in Nat
  /\ MaxFaults \in Nat /\ MaxLosses \in Nat

VARIABLES
  status,     \* calculation_jobs.status by id; "ABSENT" before the row is inserted
  progress,   \* calculation_jobs.progress by id
  range,      \* type, start_date, end_date and frequency by id
  created,    \* calculation_jobs.created_at by id
  inserted,   \* rows inserted, which is also the last id given out
  begun,      \* creations begun: the clock that created_at = now() reads
  configLock, \* client whose transaction holds 'svix_job_configuration'
  at,         \* client -> where its request is
  request,    \* client -> what the request carries
  lock,       \* worker whose session holds 'svix_historical_job'
  pc,         \* worker -> the statement of PendingJob it is about to run
  claim,      \* worker -> id of the job it claimed
  retries, faults, losses

rowVars    == <<range, created, inserted>>
queueVars  == <<status, progress, rowVars>>
clientVars == <<begun, configLock, at, request, retries>>
workerVars == <<lock, pc, claim>>
faultVars  == <<faults, losses>>
vars       == <<queueVars, clientVars, workerVars, faultVars>>

JobIds    == 1..MaxJobs
Active    == {"PENDING", "RUNNING"}
\* Bug: a result can be retried like a failure.
RetryableResult == {"DISPATCH_FAILED", "FAILED", "NO_VALID_DATA", "PARTIAL"}
Retryable == {"DISPATCH_FAILED", "FAILED", "NO_VALID_DATA"}
Results   == {"COMPLETED", "PARTIAL", "NO_VALID_DATA"}
Terminal  == Results \cup Retryable
Statuses  == {"ABSENT"} \cup Active \cup Terminal
Stages    == {10, 15, 85}

ClientSteps == {"idle", "begun", "checked", "retrying"}
Request     == [range: Ranges \cup {None}, created: 0..MaxJobs, job: JobIds \cup {None}]
NoRequest   == [range |-> None, created |-> 0, job |-> None]

WorkerSteps == {"idle", "locked", "requeued", "claimed", "downloading", "calculating",
                "failing", "unlocking"}

\* Inside runJob, or about to record its error.
Calculating == {"claimed", "downloading", "calculating"}
Executing   == Calculating \cup {"failing"}

Executes(w, j) == pc[w] \in Executing /\ claim[w] = j

\* The job the claim statement picks: ORDER BY created_at, id over the PENDING rows.
Precedes(i, j) ==
  \/ created[i] < created[j]
  \/ created[i] = created[j] /\ i <= j

Oldest(j) ==
  /\ status[j] = "PENDING"
  /\ \A i \in JobIds : status[i] = "PENDING" => Precedes(j, i)

Init ==
  /\ status = [j \in JobIds |-> "ABSENT"]
  /\ progress = [j \in JobIds |-> 0]
  /\ range = [j \in JobIds |-> None]
  /\ created = [j \in JobIds |-> 0]
  /\ inserted = 0 /\ begun = 0
  /\ configLock = None
  /\ at = [c \in Clients |-> "idle"]
  /\ request = [c \in Clients |-> NoRequest]
  /\ lock = None
  /\ pc = [w \in Workers |-> "idle"]
  /\ claim = [w \in Workers |-> None]
  /\ retries = 0 /\ faults = 0 /\ losses = 0

-----------------------------------------------------------------------------
(* The HTTP handlers.                                                      *)

\* create: BeginTx fixes the now() that the row will carry as created_at.
CreateBegin(c, r) ==
  /\ at[c] = "idle"
  /\ begun < MaxJobs
  /\ begun' = begun + 1
  /\ at' = [at EXCEPT ![c] = "begun"]
  /\ request' = [request EXCEPT ![c] = [range |-> r, created |-> begun + 1, job |-> None]]
  /\ UNCHANGED <<queueVars, configLock, retries, workerVars, faultVars>>

\* Bug: the duplicate query runs without the lock.
CreateCheckUnlocked(c) ==
  /\ at[c] = "begun"
  /\ \A j \in JobIds : status[j] \in Active => range[j] # request[c].range
  /\ configLock' = c
  /\ at' = [at EXCEPT ![c] = "checked"]
  /\ UNCHANGED <<queueVars, begun, request, retries, workerVars, faultVars>>

\* create: the transaction lock is granted and the duplicate query finds nothing.
CreateCheck(c) ==
  /\ at[c] = "begun"
  /\ configLock = None
  /\ \A j \in JobIds : status[j] \in Active => range[j] # request[c].range
  /\ configLock' = c
  /\ at' = [at EXCEPT ![c] = "checked"]
  /\ UNCHANGED <<queueVars, begun, request, retries, workerVars, faultVars>>

\* create: 409 for an active job of the same range, or the request ends before
\* its commit; either way the transaction rolls back and frees the lock.
CreateRollback(c) ==
  /\ at[c] \in {"begun", "checked"}
  /\ configLock' = IF configLock = c THEN None ELSE configLock
  /\ at' = [at EXCEPT ![c] = "idle"]
  /\ request' = [request EXCEPT ![c] = NoRequest]
  /\ UNCHANGED <<queueVars, begun, retries, workerVars, faultVars>>

\* create: INSERT and Commit.
CreateCommit(c) ==
  /\ at[c] = "checked"
  /\ inserted < MaxJobs
  /\ inserted' = inserted + 1
  /\ status' = [status EXCEPT ![inserted + 1] = "PENDING"]
  /\ progress' = [progress EXCEPT ![inserted + 1] = 0]
  /\ range' = [range EXCEPT ![inserted + 1] = request[c].range]
  /\ created' = [created EXCEPT ![inserted + 1] = request[c].created]
  /\ configLock' = None
  /\ at' = [at EXCEPT ![c] = "idle"]
  /\ request' = [request EXCEPT ![c] = NoRequest]
  /\ UNCHANGED <<begun, retries, workerVars, faultVars>>

\* retry: the job is read and its status lets the request through.
RetryRead(c, j) ==
  /\ at[c] = "idle"
  /\ retries < MaxRetries
  /\ status[j] \in Retryable
  /\ at' = [at EXCEPT ![c] = "retrying"]
  /\ request' = [request EXCEPT ![c] = [range |-> None, created |-> 0, job |-> j]]
  /\ UNCHANGED <<queueVars, begun, configLock, retries, workerVars, faultVars>>

\* Bugs: the UPDATE does not repeat the status test, or writes another word.
RetryUnchecked(c) ==
  /\ at[c] = "retrying"
  /\ status' = [status EXCEPT ![request[c].job] = "PENDING"]
  /\ progress' = [progress EXCEPT ![request[c].job] = 0]
  /\ retries' = retries + 1
  /\ at' = [at EXCEPT ![c] = "idle"]
  /\ request' = [request EXCEPT ![c] = NoRequest]
  /\ UNCHANGED <<rowVars, begun, configLock, workerVars, faultVars>>

RetryReworded(c) ==
  /\ at[c] = "retrying"
  /\ status' = [status EXCEPT ![request[c].job] = "QUEUED"]
  /\ at' = [at EXCEPT ![c] = "idle"]
  /\ request' = [request EXCEPT ![c] = NoRequest]
  /\ UNCHANGED <<progress, retries, rowVars, begun, configLock, workerVars, faultVars>>

\* retry: the UPDATE repeats the status test, which may have changed since the read.
RetryUpdate(c) ==
  LET j == request[c].job IN
  /\ at[c] = "retrying"
  /\ \/ /\ status[j] \in Retryable
        /\ retries < MaxRetries
        /\ status' = [status EXCEPT ![j] = "PENDING"]
        /\ progress' = [progress EXCEPT ![j] = 0]
        /\ retries' = retries + 1
     \/ /\ status[j] \notin Retryable
        /\ UNCHANGED <<status, progress, retries>>
  /\ at' = [at EXCEPT ![c] = "idle"]
  /\ request' = [request EXCEPT ![c] = NoRequest]
  /\ UNCHANGED <<rowVars, begun, configLock, workerVars, faultVars>>

-----------------------------------------------------------------------------
(* PendingJob.                                                             *)

\* Bug: the answer of pg_try_advisory_lock is not looked at.
TryLockBlindly(w) ==
  /\ pc[w] = "idle"
  /\ lock' = w
  /\ pc' = [pc EXCEPT ![w] = "locked"]
  /\ UNCHANGED <<queueVars, clientVars, claim, faultVars>>

\* pg_try_advisory_lock succeeds; when it does not the request answers IDLE.
TryLock(w) ==
  /\ pc[w] = "idle"
  /\ lock = None
  /\ lock' = w
  /\ pc' = [pc EXCEPT ![w] = "locked"]
  /\ UNCHANGED <<queueVars, clientVars, claim, faultVars>>

\* Bug: nothing is requeued.
RequeueNothing(w) ==
  /\ pc[w] = "locked"
  /\ pc' = [pc EXCEPT ![w] = "requeued"]
  /\ UNCHANGED <<queueVars, clientVars, lock, claim, faultVars>>

\* Every RUNNING row is taken for abandoned and queued again.
Requeue(w) ==
  /\ pc[w] = "locked"
  /\ status' = [j \in JobIds |-> IF status[j] = "RUNNING" THEN "PENDING" ELSE status[j]]
  /\ progress' = [j \in JobIds |-> IF status[j] = "RUNNING" THEN 0 ELSE progress[j]]
  /\ pc' = [pc EXCEPT ![w] = "requeued"]
  /\ UNCHANGED <<rowVars, clientVars, lock, claim, faultVars>>

\* The UPDATE ... RETURNING that claims the oldest PENDING row.
Claim(w) ==
  /\ pc[w] = "requeued"
  /\ \E j \in JobIds :
       /\ Oldest(j)
       /\ status' = [status EXCEPT ![j] = "RUNNING"]
       /\ progress' = [progress EXCEPT ![j] = 10]
       /\ claim' = [claim EXCEPT ![w] = j]
  /\ pc' = [pc EXCEPT ![w] = "claimed"]
  /\ UNCHANGED <<rowVars, clientVars, lock, faultVars>>

\* The claim commits but the request is cancelled before the row comes back:
\* the handler returns the error and nobody executes the job.
ClaimUnacknowledged(w) ==
  /\ pc[w] = "requeued"
  /\ faults < MaxFaults
  /\ \E j \in JobIds :
       /\ Oldest(j)
       /\ status' = [status EXCEPT ![j] = "RUNNING"]
       /\ progress' = [progress EXCEPT ![j] = 10]
  /\ pc' = [pc EXCEPT ![w] = "unlocking"]
  /\ faults' = faults + 1
  /\ UNCHANGED <<rowVars, clientVars, lock, claim, losses>>

NothingPending(w) ==
  /\ pc[w] = "requeued"
  /\ \A j \in JobIds : status[j] # "PENDING"
  /\ pc' = [pc EXCEPT ![w] = "unlocking"]
  /\ UNCHANGED <<queueVars, clientVars, lock, claim, faultVars>>

\* An error before the claim: return, through the deferred unlock.
Abort(w) ==
  /\ pc[w] \in {"locked", "requeued"}
  /\ faults < MaxFaults
  /\ pc' = [pc EXCEPT ![w] = "unlocking"]
  /\ faults' = faults + 1
  /\ UNCHANGED <<queueVars, clientVars, lock, claim, losses>>

\* runJob with Alpaca credentials: the stage before Backfill ...
BeginDownload(w) ==
  /\ pc[w] = "claimed"
  /\ progress' = [progress EXCEPT ![claim[w]] = 15]
  /\ pc' = [pc EXCEPT ![w] = "downloading"]
  /\ UNCHANGED <<status, rowVars, clientVars, lock, claim, faultVars>>

\* ... and the stage after it.
EndDownload(w) ==
  /\ pc[w] = "downloading"
  /\ progress' = [progress EXCEPT ![claim[w]] = 85]
  /\ pc' = [pc EXCEPT ![w] = "calculating"]
  /\ UNCHANGED <<status, rowVars, clientVars, lock, claim, faultVars>>

\* History returned and its summary chooses the result.  The other providers
\* have no download stage.
Finish(w) ==
  /\ pc[w] \in {"claimed", "calculating"}
  /\ \E s \in Results : status' = [status EXCEPT ![claim[w]] = s]
  /\ progress' = [progress EXCEPT ![claim[w]] = 100]
  /\ pc' = [pc EXCEPT ![w] = "unlocking"]
  /\ UNCHANGED <<rowVars, clientVars, lock, claim, faultVars>>

\* The result commits but the UPDATE returns an error to runJob.
FinishUnacknowledged(w) ==
  /\ pc[w] \in {"claimed", "calculating"}
  /\ faults < MaxFaults
  /\ \E s \in Results : status' = [status EXCEPT ![claim[w]] = s]
  /\ progress' = [progress EXCEPT ![claim[w]] = 100]
  /\ pc' = [pc EXCEPT ![w] = "failing"]
  /\ faults' = faults + 1
  /\ UNCHANGED <<rowVars, clientVars, lock, claim, losses>>

\* runJob returns an error: provider, calculation, timeout or cancellation.
Fails(w) ==
  /\ pc[w] \in Calculating
  /\ pc' = [pc EXCEPT ![w] = "failing"]
  /\ UNCHANGED <<queueVars, clientVars, lock, claim, faultVars>>

\* Bug: the status alone is written.
RecordStatusOnly(w) ==
  /\ pc[w] = "failing"
  /\ status' = [status EXCEPT ![claim[w]] = "FAILED"]
  /\ pc' = [pc EXCEPT ![w] = "unlocking"]
  /\ UNCHANGED <<progress, rowVars, clientVars, lock, claim, faultVars>>

\* The error is recorded under a context of its own, whatever the row says by now.
RecordFailure(w) ==
  /\ pc[w] = "failing"
  /\ status' = [status EXCEPT ![claim[w]] = "FAILED"]
  /\ progress' = [progress EXCEPT ![claim[w]] = 100]
  /\ pc' = [pc EXCEPT ![w] = "unlocking"]
  /\ UNCHANGED <<rowVars, clientVars, lock, claim, faultVars>>

\* That UPDATE fails too, and its error is dropped.
LoseFailure(w) ==
  /\ pc[w] = "failing"
  /\ faults < MaxFaults
  /\ pc' = [pc EXCEPT ![w] = "unlocking"]
  /\ faults' = faults + 1
  /\ UNCHANGED <<queueVars, clientVars, lock, claim, losses>>

Unlock(w) ==
  /\ pc[w] = "unlocking"
  /\ lock' = IF lock = w THEN None ELSE lock
  /\ pc' = [pc EXCEPT ![w] = "idle"]
  /\ claim' = [claim EXCEPT ![w] = None]
  /\ UNCHANGED <<queueVars, clientVars, faultVars>>

-----------------------------------------------------------------------------
(* The environment.                                                        *)

\* The engine process ends: sessions close, open transactions roll back, rows stay.
Crash ==
  /\ faults < MaxFaults
  /\ faults' = faults + 1
  /\ lock' = None /\ configLock' = None
  /\ pc' = [w \in Workers |-> "idle"]
  /\ claim' = [w \in Workers |-> None]
  /\ at' = [c \in Clients |-> "idle"]
  /\ request' = [c \in Clients |-> NoRequest]
  /\ UNCHANGED <<queueVars, begun, retries, losses>>

\* PostgreSQL ends the session that holds the lock while its worker lives on:
\* runJob works through other connections of the pool and does not notice.
LoseSession ==
  /\ lock # None
  /\ losses < MaxLosses
  /\ losses' = losses + 1
  /\ lock' = None
  /\ UNCHANGED <<queueVars, clientVars, pc, claim, faults>>

Handler(c) ==
  \/ \E r \in Ranges : CreateBegin(c, r)
  \/ CreateCheck(c) \/ CreateRollback(c) \/ CreateCommit(c)
  \/ \E j \in JobIds : RetryRead(c, j)
  \/ RetryUpdate(c)

\* The steps a worker takes by itself once the scheduler has called it.
Proceed(w) ==
  \/ Requeue(w) \/ Claim(w) \/ NothingPending(w)
  \/ BeginDownload(w) \/ EndDownload(w) \/ Finish(w)
  \/ Fails(w) \/ RecordFailure(w) \/ Unlock(w)

Disturbed(w) ==
  \/ ClaimUnacknowledged(w) \/ Abort(w) \/ FinishUnacknowledged(w) \/ LoseFailure(w)

Next ==
  \/ \E c \in Clients : Handler(c)
  \/ \E w \in Workers : TryLock(w) \/ Proceed(w) \/ Disturbed(w)
  \/ Crash
  \/ LoseSession

\* The scheduler posts again every five seconds for as long as the system is up,
\* and a goroutine that can run a statement runs it: statements and downloads
\* have timeouts.  Nothing makes a client act, and nothing makes a fault happen.
Fairness ==
  /\ WF_vars(\E w \in Workers : TryLock(w))
  /\ \A w \in Workers : WF_vars(Proceed(w))

Spec     == Init /\ [][Next]_vars
FairSpec == Spec /\ Fairness

-----------------------------------------------------------------------------
(* Properties.                                                             *)

\* The types of the rows, of the requests and of what they carry along.
TypeOK ==
  /\ status \in [JobIds -> Statuses]
  /\ progress \in [JobIds -> Stages \cup {0, 100}]
  /\ range \in [JobIds -> Ranges \cup {None}]
  /\ created \in [JobIds -> 0..MaxJobs]
  /\ inserted \in 0..MaxJobs
  /\ begun \in 0..MaxJobs
  /\ configLock \in Clients \cup {None}
  /\ at \in [Clients -> ClientSteps]
  /\ request \in [Clients -> Request]
  /\ lock \in Workers \cup {None}
  /\ pc \in [Workers -> WorkerSteps]
  /\ claim \in [Workers -> JobIds \cup {None}]
  /\ retries \in 0..MaxRetries
  /\ faults \in 0..MaxFaults
  /\ losses \in 0..MaxLosses

\* While no lock session has been lost, at most one worker is between taking the
\* lock and giving it back: the claim the comment in PendingJob makes.
OneWorker ==
  losses = 0 => \A v, w \in Workers : pc[v] # "idle" /\ pc[w] # "idle" => v = w

\* While no lock session has been lost, the row of a job in calculation stays
\* RUNNING: neither another worker's recovery nor a user's retry takes it away.
ClaimHeld ==
  losses = 0 => \A w \in Workers : pc[w] \in Calculating => status[claim[w]] = "RUNNING"

\* While no lock session has been lost, status and progress agree: 0 while queued,
\* a stage while RUNNING, 100 once settled, whatever was retried, requeued or failed.
ProgressAgrees ==
  losses = 0 =>
    \A j \in JobIds :
      /\ status[j] \in {"ABSENT", "PENDING"} <=> progress[j] = 0
      /\ status[j] \in Terminal <=> progress[j] = 100

\* Two active jobs for the same range need a retry: creation alone, however
\* many requests race, never queues a range twice.
NoDuplicateWithoutRetry ==
  retries = 0 =>
    \A i, j \in JobIds :
      /\ status[i] \in Active /\ status[j] \in Active
      /\ range[i] = range[j]
      => i = j

\* A settled job with data is never queued again, lost sessions included: the
\* only way back from COMPLETED or PARTIAL is a recorded failure.
ResultsNotRequeued ==
  [][\A j \in JobIds :
       status[j] \in {"COMPLETED", "PARTIAL"}
         => status'[j] \notin Active]_vars

\* While no lock session has been lost, only a job nobody executes is requeued.
RequeueOnlyAbandoned ==
  [][losses = 0 =>
       \A j \in JobIds :
         status[j] = "RUNNING" /\ status'[j] = "PENDING"
           => ~ \E w \in Workers : Executes(w, j)]_vars

\* Every accepted job settles, through crashes, cancellations and lost sessions.
EveryJobSettles ==
  \A j \in JobIds : status[j] \in Active ~> status[j] \in Terminal

\* While no lock session has been lost the queue is the job board of JobBoard: a
\* job is being worked on while a worker executes it and its row says RUNNING.
Board ==
  INSTANCE JobBoard WITH
    Jobs   <- JobIds,
    state  <- [j \in JobIds |->
                 IF status[j] = "ABSENT" THEN "absent"
                 ELSE IF status[j] \in Active THEN "queued" ELSE "settled"],
    working <- {j \in JobIds : status[j] = "RUNNING" /\ \E w \in Workers : Executes(w, j)}

\* The queue implements the job board; instances without lost sessions only.
ImplementsBoard == Board!Spec

\* What the comment in PendingJob takes for granted, lost sessions included:
\* whoever holds the session lock finds no other worker executing a job.
LockProvesAbandoned ==
  \A v, w \in Workers : lock = v /\ pc[w] \in Executing => v = w
=============================================================================
