--------------------------- MODULE JobQueueProofs ---------------------------
(***************************************************************************)
(* Proofs about JobQueue, for every number of workers, clients, ranges,    *)
(* jobs and faults.  One inductive invariant, Inv, carries them all; it is *)
(* also checked by TLC.                                                    *)
(***************************************************************************)
EXTENDS JobQueue, TLAPS

\* A worker anywhere inside PendingJob holds the session lock, unless one was lost.
LockHeld ==
  losses = 0 => \A w \in Workers : pc[w] # "idle" => lock = w

\* Rows exist exactly up to the last id given out.
RowsInserted ==
  \A j \in JobIds : status[j] = "ABSENT" <=> j > inserted

\* What a worker or a retrying client writes to is a row that exists.
TargetsExist ==
  /\ \A w \in Workers : pc[w] \in Executing => claim[w] \in 1..inserted
  /\ \A c \in Clients : at[c] = "retrying" => request[c].job \in 1..inserted

\* A creation past its duplicate check holds the configuration lock, and until
\* someone retries a job no other active job of its range can have appeared.
CheckStands ==
  \A c \in Clients :
    at[c] = "checked" =>
      /\ configLock = c
      /\ retries = 0 =>
           \A j \in JobIds : status[j] \in Active => range[j] # request[c].range

Inv ==
  /\ TypeOK
  /\ LockHeld
  /\ RowsInserted
  /\ TargetsExist
  /\ ClaimHeld
  /\ ProgressAgrees
  /\ CheckStands
  /\ NoDuplicateWithoutRetry

-----------------------------------------------------------------------------

USE JobQueueAssumption DEF JobIds

\* The handlers of a client keep every variable in its type.
LEMMA ClientTypes ==
  ASSUME TypeOK, TargetsExist, NEW c \in Clients, Handler(c) PROVE TypeOK'
<1> USE DEF TypeOK, ClientSteps, rowVars, queueVars, workerVars, faultVars
<1>1. ASSUME NEW r \in Ranges, CreateBegin(c, r) PROVE TypeOK'
  <2>1. request' \in [Clients -> Request] /\ begun' \in 0..MaxJobs
    BY <1>1 DEF CreateBegin, Request
  <2> QED BY <1>1, <2>1 DEF CreateBegin
<1>2. CASE CreateCheck(c)
  BY <1>2 DEF CreateCheck
<1>3. CASE CreateRollback(c)
  BY <1>3 DEF CreateRollback, Request, NoRequest
<1>4. CASE CreateCommit(c)
  <2>1. inserted + 1 \in JobIds /\ inserted' \in 0..MaxJobs
    BY <1>4 DEF CreateCommit
  <2>2. request[c].range \in Ranges \cup {None} /\ request[c].created \in 0..MaxJobs
    BY DEF Request
  <2>3. request' \in [Clients -> Request]
    BY <1>4 DEF CreateCommit, Request, NoRequest
  <2>4. /\ status' \in [JobIds -> Statuses]
        /\ progress' \in [JobIds -> Stages \cup {0, 100}]
    BY <1>4, <2>1 DEF CreateCommit, Statuses, Active, Stages
  <2> QED BY <1>4, <2>1, <2>2, <2>3, <2>4 DEF CreateCommit
<1>5. ASSUME NEW j \in JobIds, RetryRead(c, j) PROVE TypeOK'
  BY <1>5 DEF RetryRead, Request
<1>6. CASE RetryUpdate(c)
  <2>1. request' \in [Clients -> Request]
    BY <1>6 DEF RetryUpdate, Request, NoRequest
  <2>2. status' \in [JobIds -> Statuses]
    BY <1>6 DEF RetryUpdate, Statuses, Active
  <2>3. progress' \in [JobIds -> Stages \cup {0, 100}] /\ retries' \in 0..MaxRetries
    BY <1>6 DEF RetryUpdate
  <2> QED BY <1>6, <2>1, <2>2, <2>3 DEF RetryUpdate
<1> QED BY <1>1, <1>2, <1>3, <1>4, <1>5, <1>6 DEF Handler

\* The steps of a worker keep every variable in its type.
LEMMA WorkerTypes ==
  ASSUME TypeOK, TargetsExist, NEW w \in Workers, TryLock(w) \/ Proceed(w) \/ Disturbed(w)
  PROVE  TypeOK'
<1> USE DEF TypeOK, rowVars, queueVars, clientVars, faultVars, WorkerSteps,
            Statuses, Active, Terminal, Results, Retryable, Stages
<1>1. CASE TryLock(w)
  BY <1>1 DEF TryLock
<1>2. CASE Requeue(w)
  BY <1>2 DEF Requeue
<1>3. CASE Claim(w)
  BY <1>3 DEF Claim
<1>4. CASE ClaimUnacknowledged(w)
  BY <1>4 DEF ClaimUnacknowledged
<1>5. CASE NothingPending(w)
  BY <1>5 DEF NothingPending
<1>6. CASE Fails(w)
  BY <1>6 DEF Fails
<1>7. CASE Unlock(w)
  BY <1>7 DEF Unlock
<1>8. CASE Abort(w)
  BY <1>8 DEF Abort
<1>9. CASE LoseFailure(w)
  BY <1>9 DEF LoseFailure
<1>10. CASE BeginDownload(w)
  BY <1>10 DEF BeginDownload
<1>11. CASE EndDownload(w)
  BY <1>11 DEF EndDownload
<1>12. CASE Finish(w)
  <2> PICK s \in Results : status' = [status EXCEPT ![claim[w]] = s]
    BY <1>12 DEF Finish
  <2> QED BY <1>12 DEF Finish
<1>13. CASE FinishUnacknowledged(w)
  <2> PICK s \in Results : status' = [status EXCEPT ![claim[w]] = s]
    BY <1>13 DEF FinishUnacknowledged
  <2>1. status' \in [JobIds -> Statuses]
    OBVIOUS
  <2>2. progress' \in [JobIds -> Stages \cup {0, 100}]
    BY <1>13 DEF FinishUnacknowledged
  <2>3. faults' \in 0..MaxFaults /\ pc' \in [Workers -> WorkerSteps]
    BY <1>13 DEF FinishUnacknowledged
  <2> QED BY <1>13, <2>1, <2>2, <2>3 DEF FinishUnacknowledged
<1>14. CASE RecordFailure(w)
  BY <1>14 DEF RecordFailure
<1> QED BY <1>1, <1>2, <1>3, <1>4, <1>5, <1>6, <1>7, <1>8, <1>9, <1>10, <1>11, <1>12, <1>13,
           <1>14 DEF Proceed, Disturbed

\* Every step of the queue keeps every variable in its type.
LEMMA TypeStep == TypeOK /\ TargetsExist /\ [Next]_vars => TypeOK'
<1> SUFFICES ASSUME TypeOK, TargetsExist, [Next]_vars PROVE TypeOK'
  OBVIOUS
<1> USE DEF TypeOK, rowVars, queueVars, clientVars
<1>1. CASE Crash
  BY <1>1 DEF Crash, Request, NoRequest, ClientSteps, WorkerSteps
<1>2. CASE LoseSession
  BY <1>2 DEF LoseSession
<1>3. CASE UNCHANGED vars
  BY <1>3 DEF vars, workerVars, faultVars
<1> QED BY <1>1, <1>2, <1>3, ClientTypes, WorkerTypes DEF Next

-----------------------------------------------------------------------------
(* What a worker's step can do to the queue, in five kinds.                *)

\* It leaves the rows alone and its worker inside PendingJob.
Quiet(w) ==
  /\ UNCHANGED <<queueVars, lock, claim>>
  /\ pc[w] # "idle"
  /\ \/ pc[w] \in Calculating /\ pc' = [pc EXCEPT ![w] = "failing"]
     \/ pc' = [pc EXCEPT ![w] = "unlocking"]

\* It marks a queued row as running, for itself or for nobody.
Claims(w) ==
  /\ UNCHANGED <<rowVars, lock>>
  /\ pc[w] = "requeued"
  /\ \E j \in JobIds :
       /\ status[j] = "PENDING"
       /\ status' = [status EXCEPT ![j] = "RUNNING"]
       /\ progress' = [progress EXCEPT ![j] = 10]
       /\ \/ /\ claim' = [claim EXCEPT ![w] = j]
             /\ pc' = [pc EXCEPT ![w] = "claimed"]
          \/ /\ claim' = claim
             /\ pc' = [pc EXCEPT ![w] = "unlocking"]

\* It records a stage of its own job.
Advances(w) ==
  /\ UNCHANGED <<status, rowVars, lock, claim>>
  /\ pc[w] \in Calculating
  /\ \E p \in {15, 85} : progress' = [progress EXCEPT ![claim[w]] = p]
  /\ \E s \in Calculating : pc' = [pc EXCEPT ![w] = s]

\* It settles its own job.
Settles(w) ==
  /\ UNCHANGED <<rowVars, lock, claim>>
  /\ pc[w] \in Executing
  /\ \E s \in Terminal : status' = [status EXCEPT ![claim[w]] = s]
  /\ progress' = [progress EXCEPT ![claim[w]] = 100]
  /\ \E s \in {"failing", "unlocking"} : pc' = [pc EXCEPT ![w] = s]

\* Beyond taking the lock, requeueing and unlocking, these are all the steps.
LEMMA WorkerCases ==
  ASSUME TypeOK, NEW w \in Workers, TryLock(w) \/ Proceed(w) \/ Disturbed(w)
  PROVE  /\ UNCHANGED <<clientVars, losses>>
         /\ \/ TryLock(w) \/ Requeue(w) \/ Unlock(w)
            \/ Quiet(w) \/ Claims(w) \/ Advances(w) \/ Settles(w)
<1> USE DEF Calculating, Executing, queueVars, faultVars
<1>1. CASE TryLock(w) \/ Requeue(w) \/ Unlock(w)
  BY <1>1 DEF TryLock, Requeue, Unlock
<1>2. CASE Claim(w)
  BY <1>2 DEF Claim, Claims, Oldest
<1>3. CASE ClaimUnacknowledged(w)
  BY <1>3 DEF ClaimUnacknowledged, Claims, Oldest
<1>4. CASE NothingPending(w) \/ Abort(w) \/ Fails(w) \/ LoseFailure(w)
  BY <1>4 DEF NothingPending, Abort, Fails, LoseFailure, Quiet
<1>5. CASE BeginDownload(w)
  BY <1>5 DEF BeginDownload, Advances
<1>6. CASE EndDownload(w)
  BY <1>6 DEF EndDownload, Advances
<1>7. CASE Finish(w)
  BY <1>7 DEF Finish, Settles, Terminal
<1>8. CASE FinishUnacknowledged(w)
  BY <1>8 DEF FinishUnacknowledged, Settles, Terminal
<1>9. CASE RecordFailure(w)
  BY <1>9 DEF RecordFailure, Settles, Terminal, Retryable
<1> QED BY <1>1, <1>2, <1>3, <1>4, <1>5, <1>6, <1>7, <1>8, <1>9 DEF Proceed, Disturbed

\* A handler touches no worker.
LEMMA HandlerFrame ==
  ASSUME NEW c \in Clients, Handler(c) PROVE UNCHANGED <<workerVars, faultVars>>
BY DEF Handler, CreateBegin, CreateCheck, CreateRollback, CreateCommit, RetryRead, RetryUpdate

-----------------------------------------------------------------------------
(* The parts of Inv, step by step.                                         *)

\* The session lock stays with the one worker inside PendingJob.
LEMMA LockStep == TypeOK /\ LockHeld /\ [Next]_vars => LockHeld'
<1> SUFFICES ASSUME TypeOK, LockHeld, [Next]_vars PROVE LockHeld'
  OBVIOUS
<1> USE DEF TypeOK, LockHeld
<1>1. ASSUME NEW c \in Clients, Handler(c) PROVE LockHeld'
  BY <1>1, HandlerFrame DEF workerVars, faultVars
<1>2. ASSUME NEW w \in Workers, TryLock(w) \/ Proceed(w) \/ Disturbed(w) PROVE LockHeld'
  <2>1. losses' = losses
    BY <1>2, WorkerCases
  <2>2. CASE TryLock(w)
    BY <2>1, <2>2 DEF TryLock
  <2>3. CASE Unlock(w)
    BY <2>1, <2>3 DEF Unlock
  <2>4. CASE Requeue(w) \/ Quiet(w) \/ Claims(w) \/ Advances(w) \/ Settles(w)
    <3>1. /\ pc[w] # "idle" /\ lock' = lock
          /\ \A v \in Workers : v # w => pc'[v] = pc[v]
      BY <2>4 DEF Requeue, Quiet, Claims, Advances, Settles, Calculating, Executing
    <3> QED BY <2>1, <3>1
  <2> QED BY <1>2, <2>2, <2>3, <2>4, WorkerCases
<1>3. CASE Crash
  BY <1>3 DEF Crash
<1>4. CASE LoseSession
  BY <1>4 DEF LoseSession
<1>5. CASE UNCHANGED vars
  BY <1>5 DEF vars, workerVars, faultVars
<1> QED BY <1>1, <1>2, <1>3, <1>4, <1>5 DEF Next

\* Rows appear one after the other and never disappear.
LEMMA RowsStep == TypeOK /\ RowsInserted /\ TargetsExist /\ [Next]_vars => RowsInserted'
<1> SUFFICES ASSUME TypeOK, RowsInserted, TargetsExist, [Next]_vars PROVE RowsInserted'
  OBVIOUS
<1> USE DEF TypeOK, RowsInserted, Active, Retryable
<1>1. ASSUME NEW c \in Clients, Handler(c) PROVE RowsInserted'
  <2>1. CASE CreateCommit(c)
    BY <2>1 DEF CreateCommit
  <2>2. CASE RetryUpdate(c)
    BY <2>2 DEF RetryUpdate, rowVars
  <2>3. CASE UNCHANGED queueVars
    BY <2>3 DEF queueVars, rowVars
  <2> QED BY <1>1, <2>1, <2>2, <2>3
          DEF Handler, CreateBegin, CreateCheck, CreateRollback, RetryRead
<1>2. ASSUME NEW w \in Workers, TryLock(w) \/ Proceed(w) \/ Disturbed(w) PROVE RowsInserted'
  <2>1. CASE TryLock(w) \/ Unlock(w) \/ Quiet(w) \/ Advances(w)
    BY <2>1 DEF TryLock, Unlock, Quiet, Advances, queueVars, rowVars
  <2>2. CASE Requeue(w)
    BY <2>2 DEF Requeue, rowVars
  <2>3. CASE Claims(w)
    BY <2>3 DEF Claims, rowVars
  <2>4. CASE Settles(w)
    <3>1. claim[w] \in 1..inserted
      BY <2>4 DEF Settles, TargetsExist
    <3> QED BY <2>4, <3>1 DEF Settles, rowVars, Terminal, Results
  <2> QED BY <1>2, <2>1, <2>2, <2>3, <2>4, WorkerCases
<1>3. CASE Crash \/ LoseSession \/ UNCHANGED vars
  BY <1>3 DEF Crash, LoseSession, vars, queueVars, rowVars
<1> QED BY <1>1, <1>2, <1>3 DEF Next

\* Claims and retries point at rows that exist.
LEMMA TargetsStep == TypeOK /\ RowsInserted /\ TargetsExist /\ [Next]_vars => TargetsExist'
<1> SUFFICES ASSUME TypeOK, RowsInserted, TargetsExist, [Next]_vars PROVE TargetsExist'
  OBVIOUS
<1> USE DEF TypeOK, TargetsExist
<1>1. ASSUME NEW c \in Clients, Handler(c) PROVE TargetsExist'
  <2> USE <1>1, HandlerFrame DEF workerVars
  <2>1. CASE CreateCommit(c)
    BY <2>1 DEF CreateCommit
  <2>2. ASSUME NEW r \in Ranges, CreateBegin(c, r) PROVE TargetsExist'
    BY <2>2 DEF CreateBegin, queueVars, rowVars
  <2>3. CASE CreateCheck(c)
    BY <2>3 DEF CreateCheck, queueVars, rowVars
  <2>4. CASE CreateRollback(c)
    BY <2>4 DEF CreateRollback, queueVars, rowVars
  <2>5. CASE RetryUpdate(c)
    BY <2>5 DEF RetryUpdate, rowVars
  <2>6. ASSUME NEW j \in JobIds, RetryRead(c, j) PROVE TargetsExist'
    <3>1. j \in 1..inserted
      BY <2>6 DEF RetryRead, RowsInserted, Retryable
    <3> QED BY <2>6, <3>1 DEF RetryRead, queueVars, rowVars
  <2> QED BY <2>1, <2>2, <2>3, <2>4, <2>5, <2>6 DEF Handler
<1>2. ASSUME NEW w \in Workers, TryLock(w) \/ Proceed(w) \/ Disturbed(w) PROVE TargetsExist'
  <2>1. UNCHANGED clientVars
    BY <1>2, WorkerCases
  <2> USE <2>1 DEF clientVars, Executing, Calculating
  <2>2. CASE TryLock(w)
    BY <2>2 DEF TryLock, queueVars, rowVars
  <2>3. CASE Requeue(w)
    BY <2>3 DEF Requeue, rowVars
  <2>4. CASE Unlock(w)
    BY <2>4 DEF Unlock, queueVars, rowVars
  <2>5. CASE Quiet(w)
    BY <2>5 DEF Quiet, queueVars, rowVars
  <2>6. CASE Claims(w)
    BY <2>6 DEF Claims, rowVars, RowsInserted
  <2>7. CASE Advances(w)
    BY <2>7 DEF Advances, rowVars
  <2>8. CASE Settles(w)
    BY <2>8 DEF Settles, rowVars
  <2> QED BY <1>2, <2>2, <2>3, <2>4, <2>5, <2>6, <2>7, <2>8, WorkerCases
<1>3. CASE Crash
  BY <1>3 DEF Crash, queueVars, rowVars, Executing, Calculating
<1>4. CASE LoseSession \/ UNCHANGED vars
  BY <1>4 DEF LoseSession, vars, queueVars, rowVars, clientVars, workerVars
<1> QED BY <1>1, <1>2, <1>3, <1>4 DEF Next

\* A job in calculation keeps its RUNNING row.
LEMMA ClaimStep ==
  TypeOK /\ LockHeld /\ RowsInserted /\ TargetsExist /\ ClaimHeld /\ [Next]_vars => ClaimHeld'
<1> SUFFICES ASSUME TypeOK, LockHeld, RowsInserted, TargetsExist, ClaimHeld, [Next]_vars,
                    losses' = 0, NEW v \in Workers, pc'[v] \in Calculating
             PROVE  status'[claim'[v]] = "RUNNING"
  BY DEF ClaimHeld
<1> USE DEF TypeOK, Calculating
<1>1. ASSUME NEW c \in Clients, Handler(c) PROVE status'[claim'[v]] = "RUNNING"
  <2>1. UNCHANGED <<pc, claim, losses>> /\ status[claim[v]] = "RUNNING"
    BY <1>1, HandlerFrame DEF workerVars, faultVars, ClaimHeld
  <2>2. claim[v] \in 1..inserted
    BY <2>1 DEF TargetsExist, Executing
  <2>3. CASE CreateCommit(c)
    BY <2>1, <2>2, <2>3 DEF CreateCommit
  <2>4. CASE RetryUpdate(c)
    BY <2>1, <2>2, <2>4 DEF RetryUpdate, Retryable
  <2>5. CASE UNCHANGED queueVars
    BY <2>1, <2>5 DEF queueVars
  <2> QED BY <1>1, <2>3, <2>4, <2>5
          DEF Handler, CreateBegin, CreateCheck, CreateRollback, RetryRead
<1>2. ASSUME NEW w \in Workers, TryLock(w) \/ Proceed(w) \/ Disturbed(w)
      PROVE status'[claim'[v]] = "RUNNING"
  <2>1. losses = 0
    BY <1>2, WorkerCases
  <2>2. pc[v] \in Calculating /\ v # w => v = w
    <3> SUFFICES ASSUME pc[v] \in Calculating, v # w PROVE FALSE
      OBVIOUS
    <3>1. lock = v /\ None \notin Workers
      BY <2>1 DEF LockHeld
    <3>2. pc[w] = "idle"
      BY <2>1, <3>1 DEF LockHeld
    <3> QED BY <1>2, <3>1, <3>2, WorkerCases
            DEF TryLock, Requeue, Unlock, Quiet, Claims, Advances, Settles, Executing
  <2>3. CASE TryLock(w) \/ Requeue(w) \/ Unlock(w)
    BY <2>2, <2>3 DEF TryLock, Requeue, Unlock
  <2>4. CASE Quiet(w)
    BY <2>2, <2>4 DEF Quiet
  <2>5. CASE Claims(w)
    BY <2>2, <2>5 DEF Claims
  <2>6. CASE Advances(w)
    BY <2>1, <2>2, <2>6 DEF Advances, ClaimHeld
  <2>7. CASE Settles(w)
    BY <2>2, <2>7 DEF Settles
  <2> QED BY <1>2, <2>3, <2>4, <2>5, <2>6, <2>7, WorkerCases
<1>3. CASE Crash
  BY <1>3 DEF Crash
<1>4. CASE LoseSession
  BY <1>4 DEF LoseSession
<1>5. CASE UNCHANGED vars
  BY <1>5 DEF vars, queueVars, workerVars, faultVars, ClaimHeld
<1> QED BY <1>1, <1>2, <1>3, <1>4, <1>5 DEF Next

\* Status and progress change together.
LEMMA ProgressStep ==
  TypeOK /\ RowsInserted /\ TargetsExist /\ ClaimHeld /\ ProgressAgrees /\ [Next]_vars
    => ProgressAgrees'
<1> SUFFICES ASSUME TypeOK, RowsInserted, TargetsExist, ClaimHeld, ProgressAgrees,
                    [Next]_vars, losses' = 0
             PROVE  \A j \in JobIds :
                      /\ status'[j] \in {"ABSENT", "PENDING"} <=> progress'[j] = 0
                      /\ status'[j] \in Terminal <=> progress'[j] = 100
  BY DEF ProgressAgrees
<1> DEFINE Agree == \A j \in JobIds :
                      /\ status[j] \in {"ABSENT", "PENDING"} <=> progress[j] = 0
                      /\ status[j] \in Terminal <=> progress[j] = 100
<1> USE DEF TypeOK, ProgressAgrees, Terminal, Results, Retryable
<1>1. ASSUME NEW c \in Clients, Handler(c) PROVE Agree'
  <2>1. losses = 0
    BY <1>1, HandlerFrame DEF faultVars
  <2>2. CASE CreateCommit(c)
    BY <2>1, <2>2 DEF CreateCommit
  <2>3. CASE RetryUpdate(c)
    <3>1. \/ /\ status' = [status EXCEPT ![request[c].job] = "PENDING"]
             /\ progress' = [progress EXCEPT ![request[c].job] = 0]
          \/ UNCHANGED <<status, progress>>
      BY <2>3 DEF RetryUpdate
    <3>2. "PENDING" \notin Terminal /\ Agree
      BY <2>1
    <3>3. DOMAIN status = JobIds /\ DOMAIN progress = JobIds
      OBVIOUS
    <3> HIDE DEF TypeOK, ProgressAgrees, Terminal, Results, Retryable
    <3> QED BY <3>1, <3>2, <3>3
  <2>4. CASE UNCHANGED queueVars
    BY <2>1, <2>4 DEF queueVars
  <2>5. CreateCommit(c) \/ RetryUpdate(c) \/ UNCHANGED queueVars
    BY <1>1 DEF Handler, CreateBegin, CreateCheck, CreateRollback, RetryRead
  <2> QED BY <2>2, <2>3, <2>4, <2>5
<1>2. ASSUME NEW w \in Workers, TryLock(w) \/ Proceed(w) \/ Disturbed(w) PROVE Agree'
  <2>1. losses = 0
    BY <1>2, WorkerCases
  <2>2. CASE TryLock(w) \/ Unlock(w) \/ Quiet(w)
    BY <2>1, <2>2 DEF TryLock, Unlock, Quiet, queueVars
  <2>3. CASE Requeue(w)
    BY <2>1, <2>3 DEF Requeue
  <2>4. CASE Claims(w)
    BY <2>1, <2>4 DEF Claims
  <2>5. CASE Advances(w)
    BY <2>1, <2>5 DEF Advances, ClaimHeld
  <2>6. CASE Settles(w)
    BY <2>1, <2>6 DEF Settles
  <2> QED BY <1>2, <2>2, <2>3, <2>4, <2>5, <2>6, WorkerCases
<1>3. CASE Crash
  BY <1>3 DEF Crash, queueVars
<1>4. CASE LoseSession
  BY <1>4 DEF LoseSession
<1>5. CASE UNCHANGED vars
  BY <1>5 DEF vars, queueVars, faultVars
<1> QED BY <1>1, <1>2, <1>3, <1>4, <1>5 DEF Next

\* No worker makes a row active that was not.
LEMMA WorkersActivateNothing ==
  ASSUME TypeOK, NEW w \in Workers, TryLock(w) \/ Proceed(w) \/ Disturbed(w)
  PROVE  /\ range' = range
         /\ \A j \in JobIds : status'[j] \in Active => status[j] \in Active
<1> USE DEF TypeOK, Active, queueVars, rowVars
<1>1. CASE TryLock(w) \/ Unlock(w) \/ Quiet(w) \/ Advances(w)
  BY <1>1 DEF TryLock, Unlock, Quiet, Advances
<1>2. CASE Requeue(w)
  BY <1>2 DEF Requeue
<1>3. CASE Claims(w)
  BY <1>3 DEF Claims
<1>4. CASE Settles(w)
  BY <1>4 DEF Settles, Terminal, Results, Retryable
<1> QED BY <1>1, <1>2, <1>3, <1>4, WorkerCases

\* The duplicate check of a creation stands until its commit.
LEMMA CheckStep == TypeOK /\ CheckStands /\ [Next]_vars => CheckStands'
<1> SUFFICES ASSUME TypeOK, CheckStands, [Next]_vars, NEW d \in Clients, at'[d] = "checked"
             PROVE  /\ configLock' = d
                    /\ retries' = 0 =>
                         \A j \in JobIds :
                           status'[j] \in Active => range'[j] # request'[d].range
  BY DEF CheckStands
<1> DEFINE Stands ==
      /\ configLock = d
      /\ retries = 0 =>
           \A j \in JobIds : status[j] \in Active => range[j] # request[d].range
<1> USE DEF TypeOK
<1>1. ASSUME NEW c \in Clients, Handler(c) PROVE Stands'
  <2> USE DEF queueVars, rowVars
  <2>1. ASSUME NEW r \in Ranges, CreateBegin(c, r) PROVE Stands'
    BY <2>1 DEF CreateBegin, CheckStands
  <2>2. CASE CreateCheck(c)
    <3>1. CASE c = d
      BY <2>2, <3>1 DEF CreateCheck
    <3>2. CASE c # d
      BY <2>2, <3>2 DEF CreateCheck, CheckStands
    <3> QED BY <3>1, <3>2
  <2>3. CASE CreateRollback(c)
    BY <2>3 DEF CreateRollback, CheckStands
  <2>4. CASE CreateCommit(c)
    BY <2>4 DEF CreateCommit, CheckStands
  <2>5. ASSUME NEW j \in JobIds, RetryRead(c, j) PROVE Stands'
    BY <2>5 DEF RetryRead, CheckStands
  <2>6. CASE RetryUpdate(c)
    BY <2>6 DEF RetryUpdate, CheckStands
  <2> QED BY <1>1, <2>1, <2>2, <2>3, <2>4, <2>5, <2>6 DEF Handler
<1>2. ASSUME NEW w \in Workers, TryLock(w) \/ Proceed(w) \/ Disturbed(w) PROVE Stands'
  BY <1>2, WorkerCases, WorkersActivateNothing DEF clientVars, CheckStands
<1>3. CASE Crash
  BY <1>3 DEF Crash
<1>4. CASE LoseSession \/ UNCHANGED vars
  BY <1>4 DEF LoseSession, vars, queueVars, rowVars, clientVars, CheckStands
<1> QED BY <1>1, <1>2, <1>3, <1>4 DEF Next

\* Creation alone never makes two active jobs of one range.
LEMMA DuplicateStep ==
  TypeOK /\ RowsInserted /\ CheckStands /\ NoDuplicateWithoutRetry /\ [Next]_vars
    => NoDuplicateWithoutRetry'
<1> SUFFICES ASSUME TypeOK, RowsInserted, CheckStands, NoDuplicateWithoutRetry, [Next]_vars,
                    retries' = 0, NEW i \in JobIds, NEW j \in JobIds,
                    status'[i] \in Active, status'[j] \in Active, range'[i] = range'[j]
             PROVE  i = j
  BY DEF NoDuplicateWithoutRetry
<1> USE DEF TypeOK, NoDuplicateWithoutRetry
<1>1. ASSUME NEW c \in Clients, Handler(c) PROVE i = j
  <2>1. CASE CreateCommit(c)
    BY <2>1 DEF CreateCommit, CheckStands
  <2>2. CASE RetryUpdate(c)
    BY <2>2 DEF RetryUpdate, rowVars
  <2>3. CASE UNCHANGED <<queueVars, retries>>
    BY <2>3 DEF queueVars, rowVars
  <2> QED BY <1>1, <2>1, <2>2, <2>3
          DEF Handler, CreateBegin, CreateCheck, CreateRollback, RetryRead
<1>2. ASSUME NEW w \in Workers, TryLock(w) \/ Proceed(w) \/ Disturbed(w) PROVE i = j
  BY <1>2, WorkerCases, WorkersActivateNothing DEF clientVars
<1>3. CASE Crash \/ LoseSession \/ UNCHANGED vars
  BY <1>3 DEF Crash, LoseSession, vars, queueVars, rowVars, clientVars
<1> QED BY <1>1, <1>2, <1>3 DEF Next

-----------------------------------------------------------------------------
(* The theorems.                                                           *)

\* Inv holds in every reachable state: of the empty queue, and across every step.
THEOREM Invariance == Spec => []Inv
<1>1. Init => Inv
  <2> SUFFICES ASSUME Init PROVE Inv
    OBVIOUS
  <2>1. TypeOK
    BY DEF Init, TypeOK, Statuses, Active, Terminal, Stages, ClientSteps, WorkerSteps,
           Request, NoRequest
  <2>2. RowsInserted /\ ProgressAgrees /\ NoDuplicateWithoutRetry
    BY DEF Init, RowsInserted, ProgressAgrees, NoDuplicateWithoutRetry, Terminal, Results,
           Retryable, Active
  <2>3. LockHeld /\ TargetsExist /\ ClaimHeld /\ CheckStands
    BY DEF Init, LockHeld, TargetsExist, ClaimHeld, CheckStands, Executing, Calculating
  <2> QED BY <2>1, <2>2, <2>3 DEF Inv
<1>2. Inv /\ [Next]_vars => Inv'
  BY TypeStep, LockStep, RowsStep, TargetsStep, ClaimStep, ProgressStep, CheckStep,
     DuplicateStep DEF Inv
<1> QED BY <1>1, <1>2, PTL DEF Spec

\* Every variable keeps its type.
THEOREM TypeCorrect == Spec => []TypeOK
<1>1. Inv => TypeOK
  BY DEF Inv
<1> QED BY <1>1, Invariance, PTL

\* Without lost lock sessions at most one worker is inside PendingJob.
THEOREM AtMostOneWorker == Spec => []OneWorker
<1>1. Inv => OneWorker
  BY DEF Inv, LockHeld, OneWorker
<1> QED BY <1>1, Invariance, PTL

\* Without lost lock sessions nobody takes a job away from the worker calculating it.
THEOREM ClaimsHold == Spec => []ClaimHeld
<1>1. Inv => ClaimHeld
  BY DEF Inv
<1> QED BY <1>1, Invariance, PTL

\* Without lost lock sessions the progress shown to users agrees with the status.
THEOREM ProgressIsTruthful == Spec => []ProgressAgrees
<1>1. Inv => ProgressAgrees
  BY DEF Inv
<1> QED BY <1>1, Invariance, PTL

\* However many requests race, creation alone never queues a range twice.
THEOREM NoDuplicates == Spec => []NoDuplicateWithoutRetry
<1>1. Inv => NoDuplicateWithoutRetry
  BY DEF Inv
<1> QED BY <1>1, Invariance, PTL

\* A job with a result is not queued again, whatever else happens.
THEOREM ResultsStay == Spec => ResultsNotRequeued
<1>1. Inv /\ [Next]_vars =>
        [\A j \in JobIds : status[j] \in {"COMPLETED", "PARTIAL"} => status'[j] \notin Active]_vars
  <2> SUFFICES ASSUME Inv, Next, NEW j \in JobIds, status[j] \in {"COMPLETED", "PARTIAL"}
               PROVE  status'[j] \notin Active
    BY DEF Active
  <2> USE DEF Inv, TypeOK, Active
  <2>1. ASSUME NEW c \in Clients, Handler(c) PROVE status'[j] \notin Active
    <3>1. CASE CreateCommit(c)
      BY <3>1 DEF CreateCommit, RowsInserted
    <3>2. CASE RetryUpdate(c)
      BY <3>2 DEF RetryUpdate, Retryable
    <3>3. CASE UNCHANGED queueVars
      BY <3>3 DEF queueVars
    <3> QED BY <2>1, <3>1, <3>2, <3>3
            DEF Handler, CreateBegin, CreateCheck, CreateRollback, RetryRead
  <2>2. ASSUME NEW w \in Workers, TryLock(w) \/ Proceed(w) \/ Disturbed(w)
        PROVE status'[j] \notin Active
    BY <2>2, WorkersActivateNothing
  <2>3. CASE Crash \/ LoseSession
    BY <2>3 DEF Crash, LoseSession, queueVars
  <2> QED BY <2>1, <2>2, <2>3 DEF Next
<1> QED BY <1>1, Invariance, PTL DEF Spec, ResultsNotRequeued

\* Without lost lock sessions recovery requeues only jobs nobody executes.
THEOREM RecoveryIsSafe == Spec => RequeueOnlyAbandoned
<1>1. Inv /\ [Next]_vars =>
        [losses = 0 =>
           \A j \in JobIds : status[j] = "RUNNING" /\ status'[j] = "PENDING"
                               => ~ \E w \in Workers : Executes(w, j)]_vars
  <2> SUFFICES ASSUME Inv, Next, losses = 0, NEW j \in JobIds,
                      status[j] = "RUNNING", status'[j] = "PENDING",
                      NEW v \in Workers, Executes(v, j)
               PROVE  FALSE
    OBVIOUS
  <2> USE DEF Inv, TypeOK
  <2>1. ASSUME NEW c \in Clients, Handler(c) PROVE FALSE
    <3>1. CASE CreateCommit(c)
      BY <3>1 DEF CreateCommit, RowsInserted
    <3>2. CASE RetryUpdate(c)
      BY <3>2 DEF RetryUpdate, Retryable
    <3>3. CASE UNCHANGED queueVars
      BY <3>3 DEF queueVars
    <3> QED BY <2>1, <3>1, <3>2, <3>3
            DEF Handler, CreateBegin, CreateCheck, CreateRollback, RetryRead
  <2>2. ASSUME NEW w \in Workers, TryLock(w) \/ Proceed(w) \/ Disturbed(w) PROVE FALSE
    <3>1. CASE Requeue(w)
      BY <3>1 DEF Requeue, LockHeld, Executes, Executing, Calculating
    <3>2. CASE TryLock(w) \/ Unlock(w) \/ Quiet(w) \/ Advances(w)
      BY <3>2 DEF TryLock, Unlock, Quiet, Advances, queueVars
    <3>3. CASE Claims(w)
      BY <3>3 DEF Claims
    <3>4. CASE Settles(w)
      BY <3>4 DEF Settles, Terminal, Results, Retryable
    <3> QED BY <2>2, <3>1, <3>2, <3>3, <3>4, WorkerCases
  <2>3. CASE Crash \/ LoseSession
    BY <2>3 DEF Crash, LoseSession, queueVars
  <2> QED BY <2>1, <2>2, <2>3 DEF Next
<1> QED BY <1>1, Invariance, PTL DEF Spec, RequeueOnlyAbandoned

-----------------------------------------------------------------------------
(* The queue implements the board of JobBoard, as long as no lock session  *)
(* is lost.                                                                *)

\* The refinement mapping: what the board shows of the queue.
State   == [j \in JobIds |->
              IF status[j] = "ABSENT" THEN "absent"
              ELSE IF status[j] \in Active THEN "queued" ELSE "settled"]
Working == {j \in JobIds : status[j] = "RUNNING" /\ \E w \in Workers : Executes(w, j)}

\* A step of the board, or none.
BoardStep ==
  \/ State' = State /\ Working' = Working
  \/ State' = State /\ Working # {} /\ Working' = {}
  \/ \E j \in JobIds :
       \/ /\ State[j] = "absent"
          /\ State' = [State EXCEPT ![j] = "queued"] /\ Working' = Working
       \/ /\ State[j] = "queued" /\ Working = {}
          /\ State' = State /\ Working' = {j}
       \/ /\ Working = {j}
          /\ State' = [State EXCEPT ![j] = "settled"] /\ Working' = {}
       \/ /\ State[j] = "settled"
          /\ State' = [State EXCEPT ![j] = "queued"] /\ Working' = Working
       \/ /\ State[j] = "queued" /\ Working = {}
          /\ State' = [State EXCEPT ![j] = "settled"] /\ Working' = Working

\* The job worker w works on is the only one, when w is the only worker there.
WorkedOn(w) == {j \in JobIds : status[j] = "RUNNING" /\ Executes(w, j)}

\* With the lock in hand, w is the only worker there, before and after its step.
LEMMA OnlyWorker ==
  ASSUME Inv, losses = 0, NEW w \in Workers, pc[w] # "idle"
  PROVE  /\ Working = WorkedOn(w)
         /\ \A x : pc' = [pc EXCEPT ![w] = x] => Working' = WorkedOn(w)'
<1>1. \A v \in Workers : v # w => pc[v] = "idle"
  BY DEF Inv, LockHeld
<1>2. "idle" \notin Executing
  BY DEF Executing, Calculating
<1>3. pc \in [Workers -> WorkerSteps] /\ claim \in [Workers -> JobIds \cup {None}]
  BY DEF Inv, TypeOK
<1>4. Working = WorkedOn(w)
  BY <1>1, <1>2 DEF Working, WorkedOn, Executes
<1>5. ASSUME NEW x, pc' = [pc EXCEPT ![w] = x] PROVE Working' = WorkedOn(w)'
  <2>1. \A v \in Workers : v # w => pc'[v] = "idle"
    BY <1>1, <1>3, <1>5
  <2> QED BY <2>1, <1>2 DEF Working, WorkedOn, Executes
<1> QED BY <1>4, <1>5

-----------------------------------------------------------------------------

\* What a client does is nothing, a submission or a reopening.
LEMMA ClientBoard ==
  ASSUME Inv, NEW c \in Clients, Handler(c) PROVE BoardStep
<1>1. /\ status \in [JobIds -> Statuses]
      /\ pc' = pc /\ claim' = claim
  BY HandlerFrame DEF Inv, TypeOK, workerVars
<1>2. CASE CreateCommit(c)
  <2>1. inserted + 1 \in JobIds /\ status[inserted + 1] = "ABSENT"
    BY <1>2, JobQueueAssumption DEF Inv, TypeOK, RowsInserted, CreateCommit, JobIds
  <2>2. status' = [status EXCEPT ![inserted + 1] = "PENDING"]
    BY <1>2 DEF CreateCommit
  <2>3. State[inserted + 1] = "absent" /\ State' = [State EXCEPT ![inserted + 1] = "queued"]
    BY <1>1, <2>1, <2>2 DEF State, Active
  <2>4. Working' = Working
    BY <1>1, <2>1, <2>2 DEF Working, Executes
  <2> QED BY <2>1, <2>3, <2>4 DEF BoardStep
<1>3. CASE RetryUpdate(c) /\ status' # status
  <2> DEFINE j == request[c].job
  <2>1. j \in JobIds
    BY <1>3, JobQueueAssumption DEF Inv, TypeOK, TargetsExist, RetryUpdate, JobIds
  <2>2. status[j] \in Retryable /\ status' = [status EXCEPT ![j] = "PENDING"]
    BY <1>3 DEF RetryUpdate
  <2> HIDE DEF j
  <2>3. State[j] = "settled" /\ State' = [State EXCEPT ![j] = "queued"]
    BY <1>1, <2>1, <2>2 DEF State, Active, Retryable
  <2>4. Working' = Working
    BY <1>1, <2>1, <2>2 DEF Working, Executes, Retryable
  <2> QED BY <2>1, <2>3, <2>4 DEF BoardStep
<1>4. CASE status' = status
  BY <1>1, <1>4 DEF BoardStep, State, Working, Executes
<1>5. CreateCommit(c) \/ (RetryUpdate(c) /\ status' # status) \/ status' = status
  BY DEF Handler, CreateBegin, CreateCheck, CreateRollback, RetryRead, queueVars
<1> QED BY <1>2, <1>3, <1>4, <1>5

\* A worker that records a result or a failure settles the job it works on, has
\* settled it before, or settles one that was reopened meanwhile.
LEMMA SettlesBoard ==
  ASSUME Inv, losses = 0, NEW w \in Workers, Settles(w) PROVE BoardStep
<1> DEFINE j == claim[w]
<1>1. /\ status \in [JobIds -> Statuses]
      /\ pc[w] # "idle" /\ claim' = claim
      /\ \E x \in {"failing", "unlocking"} : pc' = [pc EXCEPT ![w] = x]
  BY DEF Inv, TypeOK, Settles, Executing, Calculating
<1>2. j \in JobIds /\ status[j] # "ABSENT" /\ Executes(w, j)
  BY JobQueueAssumption
     DEF Inv, TypeOK, TargetsExist, RowsInserted, Settles, Executes, JobIds
<1>3. PICK s \in Terminal : status' = [status EXCEPT ![j] = s]
  BY DEF Settles
<1>4. Working = WorkedOn(w) /\ Working' = WorkedOn(w)'
  BY <1>1, OnlyWorker
<1>5. s \notin Active /\ s # "ABSENT"
  BY <1>3 DEF Terminal, Results, Retryable, Active
<1> HIDE DEF j
<1>6. State' = [State EXCEPT ![j] = "settled"]
  BY <1>1, <1>2, <1>3, <1>5 DEF State
<1>7. Working = IF status[j] = "RUNNING" THEN {j} ELSE {}
  BY <1>2, <1>4 DEF WorkedOn, Executes
<1>8. Working' = {}
  <2>1. claim[w] = j
    BY <1>2 DEF Executes
  <2>2. status'[j] = s
    BY <1>1, <1>2, <1>3
  <2>3. s # "RUNNING"
    BY <1>5 DEF Active
  <2> QED BY <1>1, <1>4, <2>1, <2>2, <2>3 DEF WorkedOn, Executes
<1>9. State[j] \in {"queued", "settled"} /\ (status[j] = "RUNNING" => State[j] = "queued")
  BY <1>2 DEF State, Active
<1>10. CASE State[j] = "settled"
  <2>1. State' = State
    BY <1>2, <1>6, <1>10 DEF State
  <2> QED BY <2>1, <1>7, <1>8, <1>9, <1>10 DEF BoardStep
<1>11. CASE State[j] = "queued"
  BY <1>2, <1>6, <1>7, <1>8, <1>11 DEF BoardStep
<1> QED BY <1>9, <1>10, <1>11

\* What a worker does is nothing, the start of work, its interruption or its end.
LEMMA WorkerBoard ==
  ASSUME Inv, losses = 0, NEW w \in Workers, TryLock(w) \/ Proceed(w) \/ Disturbed(w)
  PROVE  BoardStep
<1> USE DEF queueVars
<1>1. /\ status \in [JobIds -> Statuses]
      /\ pc \in [Workers -> WorkerSteps] /\ claim \in [Workers -> JobIds \cup {None}]
  BY DEF Inv, TypeOK
<1>2. {"idle", "locked", "requeued", "unlocking"} \cap Executing = {} /\ "claimed" \in Executing
  BY DEF Executing, Calculating
<1>3. CASE TryLock(w)
  <2>1. status' = status /\ claim' = claim /\ pc[w] = "idle" /\ pc' = [pc EXCEPT ![w] = "locked"]
    BY <1>3 DEF TryLock
  <2>2. \A v \in Workers, j \in JobIds : Executes(v, j)' <=> Executes(v, j)
    BY <1>1, <1>2, <2>1 DEF Executes
  <2>3. State' = State /\ Working' = Working
    BY <2>1, <2>2 DEF State, Working
  <2> QED BY <2>3 DEF BoardStep
<1>4. CASE Unlock(w)
  <2>1. /\ status' = status /\ pc[w] = "unlocking" /\ pc' = [pc EXCEPT ![w] = "idle"]
        /\ claim' = [claim EXCEPT ![w] = None]
    BY <1>4 DEF Unlock
  <2>2. \A v \in Workers, j \in JobIds : Executes(v, j)' <=> Executes(v, j)
    BY <1>1, <1>2, <2>1 DEF Executes
  <2>3. State' = State /\ Working' = Working
    BY <2>1, <2>2 DEF State, Working
  <2> QED BY <2>3 DEF BoardStep
<1>5. CASE Requeue(w)
  <2>1. /\ status' = [j \in JobIds |-> IF status[j] = "RUNNING" THEN "PENDING" ELSE status[j]]
        /\ pc[w] = "locked" /\ pc' = [pc EXCEPT ![w] = "requeued"] /\ claim' = claim
    BY <1>5 DEF Requeue
  <2>2. Working = {} /\ Working' = {}
    <3>1. Working = WorkedOn(w) /\ Working' = WorkedOn(w)'
      BY <2>1, OnlyWorker
    <3> QED BY <1>1, <1>2, <2>1, <3>1 DEF WorkedOn, Executes
  <2>3. State' = State
    BY <1>1, <2>1 DEF State, Active
  <2> QED BY <2>2, <2>3 DEF BoardStep
<1>6. CASE Quiet(w)
  <2>1. /\ status' = status /\ claim' = claim /\ pc[w] # "idle"
        /\ \E x : pc' = [pc EXCEPT ![w] = x]
        /\ pc'[w] \in Executing => pc[w] \in Executing
    BY <1>1, <1>2, <1>6 DEF Quiet, Executing
  <2>2. Working = WorkedOn(w) /\ Working' = WorkedOn(w)'
    BY <2>1, OnlyWorker
  <2>3. State' = State
    BY <2>1 DEF State
  <2>4. CASE pc'[w] \in Executing
    BY <2>1, <2>2, <2>3, <2>4 DEF WorkedOn, Executes, BoardStep
  <2>5. CASE pc'[w] \notin Executing
    BY <2>2, <2>3, <2>5 DEF WorkedOn, Executes, BoardStep
  <2> QED BY <2>4, <2>5
<1>7. CASE Claims(w)
  <2>1. pc[w] = "requeued"
    BY <1>7 DEF Claims
  <2>2. PICK j \in JobIds :
          /\ status[j] = "PENDING" /\ status' = [status EXCEPT ![j] = "RUNNING"]
          /\ \/ claim' = [claim EXCEPT ![w] = j] /\ pc' = [pc EXCEPT ![w] = "claimed"]
             \/ claim' = claim /\ pc' = [pc EXCEPT ![w] = "unlocking"]
    BY <1>7 DEF Claims
  <2>3. State[j] = "queued" /\ State' = State
    BY <1>1, <2>2 DEF State, Active
  <2>4. Working = WorkedOn(w) /\ Working' = WorkedOn(w)'
    BY <2>1, <2>2, OnlyWorker
  <2>5. Working = {}
    BY <1>2, <2>1, <2>4 DEF WorkedOn, Executes
  <2>6. CASE pc' = [pc EXCEPT ![w] = "claimed"] /\ claim' = [claim EXCEPT ![w] = j]
    <3>1. Working' = {j}
      BY <1>1, <1>2, <2>2, <2>4, <2>6 DEF WorkedOn, Executes
    <3> QED BY <2>3, <2>5, <3>1 DEF BoardStep
  <2>7. CASE pc' = [pc EXCEPT ![w] = "unlocking"]
    <3>1. Working' = {}
      BY <1>1, <1>2, <2>4, <2>7 DEF WorkedOn, Executes
    <3> QED BY <2>3, <2>5, <3>1 DEF BoardStep
  <2> QED BY <2>2, <2>6, <2>7
<1>8. CASE Advances(w)
  <2> PICK x \in Calculating : pc' = [pc EXCEPT ![w] = x]
    BY <1>8 DEF Advances
  <2>1. /\ status' = status /\ claim' = claim /\ pc[w] # "idle"
        /\ pc[w] \in Executing /\ pc'[w] \in Executing
    BY <1>1, <1>8 DEF Advances, Executing, Calculating
  <2>2. Working = WorkedOn(w) /\ Working' = WorkedOn(w)'
    BY <2>1, OnlyWorker
  <2>3. State' = State /\ WorkedOn(w)' = WorkedOn(w)
    BY <2>1 DEF State, WorkedOn, Executes
  <2> QED BY <2>2, <2>3 DEF BoardStep
<1>9. CASE Settles(w)
  BY <1>9, SettlesBoard
<1> QED BY <1>3, <1>4, <1>5, <1>6, <1>7, <1>8, <1>9, WorkerCases DEF Inv

-----------------------------------------------------------------------------

\* Where no lock session can be lost, every step of the queue is one of the board.
LEMMA EveryStepOnBoard == MaxLosses = 0 /\ Inv /\ [Next]_vars => BoardStep
<1> SUFFICES ASSUME MaxLosses = 0, Inv, [Next]_vars PROVE BoardStep
  OBVIOUS
<1>1. losses = 0
  BY DEF Inv, TypeOK
<1>2. CASE \E c \in Clients : Handler(c)
  BY <1>2, ClientBoard
<1>3. CASE \E w \in Workers : TryLock(w) \/ Proceed(w) \/ Disturbed(w)
  BY <1>1, <1>3, WorkerBoard
<1>4. CASE Crash
  <2>1. State' = State
    BY <1>4 DEF Crash, State, queueVars
  <2>2. Working' = {}
    BY <1>4 DEF Crash, Working, Executes, Executing, Calculating
  <2>3. CASE Working = {}
    BY <2>1, <2>2, <2>3 DEF BoardStep
  <2>4. CASE Working # {}
    BY <2>1, <2>2, <2>4 DEF BoardStep
  <2> QED BY <2>3, <2>4
<1>5. CASE LoseSession
  BY <1>1, <1>5 DEF LoseSession
<1>6. CASE UNCHANGED vars
  <2>1. status' = status /\ pc' = pc /\ claim' = claim
    BY <1>6 DEF vars, queueVars, workerVars
  <2>2. State' = State
    BY <2>1 DEF State
  <2>3. Working' = Working
    BY <2>1 DEF Working, Executes
  <2> QED BY <2>2, <2>3 DEF BoardStep
<1> QED BY <1>2, <1>3, <1>4, <1>5, <1>6 DEF Next

\* Where no lock session can be lost, the queue implements the job board: every step of
\* a handler, a worker or a crash is a step of the board or leaves it as it is.
THEOREM Refinement == ASSUME MaxLosses = 0 PROVE Spec => ImplementsBoard
<1>1. Init => Board!Init
  <2> SUFFICES ASSUME Init PROVE State = [j \in JobIds |-> "absent"] /\ Working = {}
    BY DEF Board!Init, State, Working
  <2> QED BY DEF Init, State, Working
<1>2. Inv /\ [Next]_vars => [Board!Next]_(Board!vars)
  BY EveryStepOnBoard
     DEF BoardStep, State, Working, Board!Next, Board!vars, Board!Submit, Board!Start,
         Board!Settle, Board!Interrupt, Board!Reopen, Board!SettleLate
<1> QED BY <1>1, <1>2, Invariance, PTL DEF Spec, ImplementsBoard, Board!Spec
=============================================================================
