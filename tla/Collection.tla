----------------------------- MODULE Collection -----------------------------
(***************************************************************************)
(* The collection of live quotes: the table market_collection_runs and the *)
(* scheduler requests that fill it (go/internal/service/tasks.go, Collect).*)
(*                                                                         *)
(* A worker is one request to /internal/scheduler/market.  It reads the    *)
(* clock once, when it arrives, and decides with that reading after it has *)
(* won the session lock 'svix_market_collection', however long that took.  *)
(* Times are minutes.  One step is one SQL statement or one transaction    *)
(* commit, with the Go code up to the next one.                            *)
(***************************************************************************)
EXTENDS Integers, Sequences, FiniteSets

CONSTANTS Workers,       \* requests that can be inside Collect at the same time
          None,          \* no worker, no run, no time
          Intervals,     \* values of intraday_refresh_seconds, clamped, in minutes
          StaleFloor,    \* minutes after which a RUNNING run is stale: 30 in the code
          RetryAfter,    \* pause after a rate limit: 5 in the code
          SessionLength, \* minutes of a collection window
          SessionGap,    \* minutes between two windows
          LastMinute,    \* bound: the clock stops here
          MaxRuns,       \* bound: runs inserted
          MaxFaults,     \* bound: crashes, lost writes and lost answers
          MaxLosses      \* bound: lock sessions ended under a live worker

ASSUME CollectionAssumption ==
  /\ Intervals \subseteq 1..60 /\ Intervals # {}
  /\ None \notin Workers \cup Int
  /\ StaleFloor \in Nat /\ RetryAfter \in Nat
  /\ SessionLength \in Nat \ {0} /\ SessionGap \in Nat \ {0}
  /\ {LastMinute, MaxRuns, MaxFaults, MaxLosses} \subseteq Nat

VARIABLES
  now,       \* the clock
  runs,      \* market_collection_runs in insertion order; an index is an id
  lock,      \* worker whose session holds 'svix_market_collection'
  pc,        \* worker -> the statement it is about to run
  seen,      \* worker -> the clock reading it decides with
  chosen,    \* worker -> the interval it has read
  current,   \* worker -> id of the run it fills
  faults, losses

workerVars == <<lock, pc, seen, chosen, current>>
faultVars  == <<faults, losses>>
vars       == <<now, runs, workerVars, faultVars>>

Minutes     == 0..LastMinute
RunIds      == 1..MaxRuns
Failed      == {"FAILED", "NO_VALID_DATA"}
Saved       == {"COMPLETED", "NO_VALID_DATA"}
WorkerSteps == {"idle", "arrived", "locked", "stale", "collecting", "unlocking"}

Larger(a, b)  == IF a >= b THEN a ELSE b
Smaller(a, b) == IF a <= b THEN a ELSE b

\* market.Current: the windows, and the session a minute of a window belongs to.
Session(t)  == t \div (SessionLength + SessionGap)
InWindow(t) == t % (SessionLength + SessionGap) < SessionLength

\* A status of COMPLETED stands for COMPLETED and PARTIAL.
\* resume is finished_at + retry_after_seconds where both are there; finished_at is
\* not used otherwise.
Run == [session: Nat, status: {"RUNNING", "FAILED"} \cup Saved, interval: Intervals,
        started: Minutes, resume: Nat \cup {None}]

OfSession(s) == {i \in 1..Len(runs) : runs[i].session = s}

\* ORDER BY started_at DESC, id DESC.
Newer(i, j) ==
  runs[i].started > runs[j].started \/ (runs[i].started = runs[j].started /\ i >= j)

Latest(s) == CHOOSE i \in OfSession(s) : \A j \in OfSession(s) : Newer(i, j)

\* How many of the runs in ids, newest first, failed in a row; four are looked at.
Streak(ids) ==
  Smaller(4, Cardinality({j \in ids : \A k \in ids : Newer(k, j) => runs[k].status \in Failed}))

StaleAfter(minutes) == Larger(StaleFloor, 2 * minutes)

\* One minute after the first failure, doubled by each further one, at most five.
Backoff(minutes, failures) == Larger(minutes, Smaller(5, <<1, 2, 4, 8>>[Larger(1, failures)]))

\* Bugs: the rate limit is forgotten, or the failures are.
NextDueUnlimited(i, minutes) ==
  runs[i].started + (IF runs[i].status \in Failed
                     THEN Backoff(minutes, Streak(OfSession(runs[i].session)))
                     ELSE minutes)

NextDueEager(i, minutes) ==
  IF runs[i].resume # None THEN Larger(runs[i].started + minutes, runs[i].resume)
  ELSE runs[i].started + minutes

\* When run i, which is over, lets the next run of its session begin.
NextDue(i, minutes) ==
  LET delay == IF runs[i].status \in Failed
               THEN Backoff(minutes, Streak(OfSession(runs[i].session)))
               ELSE minutes
      afterDelay == runs[i].started + delay
  IN  IF runs[i].resume # None THEN Larger(afterDelay, runs[i].resume) ELSE afterDelay

\* Bug: a RUNNING run is never given up.
FreshForever(i, w) == TRUE

Fresh(i, w) == runs[i].started > seen[w] - StaleAfter(chosen[w])

\* What the reading of the latest run decides for worker w.
Blocked(w) ==
  LET s == Session(seen[w]) IN
  /\ OfSession(s) # {}
  /\ IF runs[Latest(s)].status = "RUNNING"
     THEN Fresh(Latest(s), w)
     ELSE NextDue(Latest(s), chosen[w]) > seen[w]

Stale(w) ==
  LET s == Session(seen[w]) IN
  /\ OfSession(s) # {}
  /\ runs[Latest(s)].status = "RUNNING"
  /\ ~ Fresh(Latest(s), w)

Init ==
  /\ now = 0
  /\ runs = <<>>
  /\ lock = None
  /\ pc = [w \in Workers |-> "idle"]
  /\ seen = [w \in Workers |-> None]
  /\ chosen = [w \in Workers |-> None]
  /\ current = [w \in Workers |-> None]
  /\ faults = 0 /\ losses = 0

-----------------------------------------------------------------------------
(* Collect, up to the insertion of its run.                                *)

\* The scheduler posts in the window and the handler reads the clock.
Arrive(w) ==
  /\ pc[w] = "idle"
  /\ InWindow(now)
  /\ pc' = [pc EXCEPT ![w] = "arrived"]
  /\ seen' = [seen EXCEPT ![w] = now]
  /\ UNCHANGED <<now, runs, lock, chosen, current, faultVars>>

\* Bug: the answer of pg_try_advisory_lock is not looked at.
TryLockBlindly(w) ==
  /\ pc[w] = "arrived"
  /\ lock' = w
  /\ pc' = [pc EXCEPT ![w] = "locked"]
  /\ \E minutes \in Intervals : chosen' = [chosen EXCEPT ![w] = minutes]
  /\ UNCHANGED <<now, runs, seen, current, faultVars>>

\* The lock is won and the setting is read, which the user may change at any time.
TryLock(w) ==
  /\ pc[w] = "arrived"
  /\ lock = None
  /\ lock' = w
  /\ pc' = [pc EXCEPT ![w] = "locked"]
  /\ \E minutes \in Intervals : chosen' = [chosen EXCEPT ![w] = minutes]
  /\ UNCHANGED <<now, runs, seen, current, faultVars>>

\* SKIPPED, collection_running: someone else has the lock.
Busy(w) ==
  /\ pc[w] = "arrived"
  /\ lock # None
  /\ pc' = [pc EXCEPT ![w] = "idle"]
  /\ seen' = [seen EXCEPT ![w] = None]
  /\ UNCHANGED <<now, runs, lock, chosen, current, faultVars>>

\* SKIPPED: the latest run is RUNNING and fresh, or the next one is not due.
Skip(w) ==
  /\ pc[w] = "locked"
  /\ Blocked(w)
  /\ pc' = [pc EXCEPT ![w] = "unlocking"]
  /\ UNCHANGED <<now, runs, lock, seen, chosen, current, faultVars>>

\* Bug: a status nothing else knows.
MarkStaleReworded(w) ==
  /\ pc[w] = "locked"
  /\ Stale(w)
  /\ LET i == Latest(Session(seen[w]))
     IN  runs' = [runs EXCEPT ![i].status = "STALE"]
  /\ pc' = [pc EXCEPT ![w] = "stale"]
  /\ UNCHANGED <<now, lock, seen, chosen, current, faultVars>>

\* A run left RUNNING for too long is closed; what was read of it makes the next
\* one due at once.
MarkStale(w) ==
  /\ pc[w] = "locked"
  /\ Stale(w)
  /\ LET i == Latest(Session(seen[w]))
     IN  runs' = [runs EXCEPT ![i].status = "FAILED"]
  /\ pc' = [pc EXCEPT ![w] = "stale"]
  /\ UNCHANGED <<now, lock, seen, chosen, current, faultVars>>

Start(w) ==
  /\ \/ pc[w] = "locked" /\ ~ Blocked(w) /\ ~ Stale(w)
     \/ pc[w] = "stale"
  /\ Len(runs) < MaxRuns
  /\ runs' = Append(runs, [session |-> Session(seen[w]), status |-> "RUNNING",
                           interval |-> chosen[w], started |-> seen[w], resume |-> None])
  /\ current' = [current EXCEPT ![w] = Len(runs) + 1]
  /\ pc' = [pc EXCEPT ![w] = "collecting"]
  /\ seen' = [seen EXCEPT ![w] = None]
  /\ chosen' = [chosen EXCEPT ![w] = None]
  /\ UNCHANGED <<now, lock, faultVars>>

\* The bound on runs is a full table: the insertion returns an error.
Full(w) ==
  /\ \/ pc[w] = "locked" /\ ~ Blocked(w) /\ ~ Stale(w)
     \/ pc[w] = "stale"
  /\ Len(runs) = MaxRuns
  /\ pc' = [pc EXCEPT ![w] = "unlocking"]
  /\ UNCHANGED <<now, runs, lock, seen, chosen, current, faultVars>>

\* A statement before the insertion fails, or the insertion itself.
Abort(w) ==
  /\ pc[w] \in {"locked", "stale"}
  /\ faults < MaxFaults
  /\ pc' = [pc EXCEPT ![w] = "unlocking"]
  /\ faults' = faults + 1
  /\ UNCHANGED <<now, runs, lock, seen, chosen, current, losses>>

-----------------------------------------------------------------------------
(* Collect, from the provider's answer on.                                 *)

\* collectQuotes returns an error, which is recorded under a context of its own ...
CollectFails(w) ==
  /\ pc[w] = "collecting"
  /\ runs' = [runs EXCEPT ![current[w]].status = "FAILED"]
  /\ pc' = [pc EXCEPT ![w] = "unlocking"]
  /\ UNCHANGED <<now, lock, seen, chosen, current, faultVars>>

\* ... unless that UPDATE fails; the one that saves a summary can fail as well.
LoseFailure(w) ==
  /\ pc[w] = "collecting"
  /\ faults < MaxFaults
  /\ pc' = [pc EXCEPT ![w] = "unlocking"]
  /\ faults' = faults + 1
  /\ UNCHANGED <<now, runs, lock, seen, chosen, current, losses>>

\* The summary of the collection is saved; only an incomplete one carries a pause,
\* but an incomplete one with data is as good as a complete one here.
Save(w) ==
  \E status \in Saved, limited \in BOOLEAN :
    runs' = [runs EXCEPT ![current[w]].status = status,
                         ![current[w]].resume = IF limited THEN now + RetryAfter ELSE None]

\* Observation and History follow, under the same lock.
Collected(w) ==
  /\ pc[w] = "collecting"
  /\ Save(w)
  /\ pc' = [pc EXCEPT ![w] = "unlocking"]
  /\ UNCHANGED <<now, lock, seen, chosen, current, faultVars>>

\* The UPDATE is applied but returns an error to the handler, which gives up.
CollectedUnacknowledged(w) ==
  /\ pc[w] = "collecting"
  /\ faults < MaxFaults
  /\ Save(w)
  /\ pc' = [pc EXCEPT ![w] = "unlocking"]
  /\ faults' = faults + 1
  /\ UNCHANGED <<now, lock, seen, chosen, current, losses>>

\* The deferred unlock.
Unlock(w) ==
  /\ pc[w] = "unlocking"
  /\ lock' = IF lock = w THEN None ELSE lock
  /\ pc' = [pc EXCEPT ![w] = "idle"]
  /\ seen' = [seen EXCEPT ![w] = None]
  /\ chosen' = [chosen EXCEPT ![w] = None]
  /\ current' = [current EXCEPT ![w] = None]
  /\ UNCHANGED <<now, runs, faultVars>>

-----------------------------------------------------------------------------
(* The environment.                                                        *)

Tick ==
  /\ now < LastMinute
  /\ now' = now + 1
  /\ UNCHANGED <<runs, workerVars, faultVars>>

\* The engine process ends: sessions close, the open transaction rolls back.
Crash ==
  /\ faults < MaxFaults
  /\ faults' = faults + 1
  /\ lock' = None
  /\ pc' = [w \in Workers |-> "idle"]
  /\ seen' = [w \in Workers |-> None]
  /\ chosen' = [w \in Workers |-> None]
  /\ current' = [w \in Workers |-> None]
  /\ UNCHANGED <<now, runs, losses>>

\* PostgreSQL ends the session of the lock while its worker goes on.
LoseSession ==
  /\ lock # None
  /\ losses < MaxLosses
  /\ losses' = losses + 1
  /\ lock' = None
  /\ UNCHANGED <<now, runs, pc, seen, chosen, current, faults>>

Proceed(w) ==
  \/ TryLock(w) \/ Busy(w) \/ Skip(w) \/ MarkStale(w) \/ Start(w) \/ Full(w)
  \/ CollectFails(w) \/ Collected(w) \/ Unlock(w)

Disturbed(w) ==
  \/ Abort(w) \/ LoseFailure(w) \/ CollectedUnacknowledged(w)

Next ==
  \/ \E w \in Workers : Arrive(w) \/ Proceed(w) \/ Disturbed(w)
  \/ Tick \/ Crash \/ LoseSession

\* Time passes, the scheduler posts every ten seconds of a window, and a request
\* goes on: statements and provider calls have timeouts.
Fairness ==
  /\ WF_vars(Tick)
  /\ WF_vars(\E w \in Workers : Arrive(w))
  /\ \A w \in Workers : WF_vars(Proceed(w))

Spec     == Init /\ [][Next]_vars
FairSpec == Spec /\ Fairness

-----------------------------------------------------------------------------
(* Properties.                                                             *)

\* The types of the runs, of the requests and of what they have read.
TypeOK ==
  /\ now \in Minutes
  /\ runs \in Seq(Run) /\ Len(runs) <= MaxRuns
  /\ lock \in Workers \cup {None}
  /\ pc \in [Workers -> WorkerSteps]
  /\ seen \in [Workers -> Minutes \cup {None}]
  /\ chosen \in [Workers -> Intervals \cup {None}]
  /\ current \in [Workers -> RunIds \cup {None}]
  /\ faults \in 0..MaxFaults /\ losses \in 0..MaxLosses

\* Runs of one session, in the order of their insertion, with nothing in between.
Consecutive(i, j) ==
  /\ i < j
  /\ runs[i].session = runs[j].session
  /\ \A k \in (i + 1)..(j - 1) : runs[k].session # runs[i].session

\* While no lock session has been lost, two runs of a session that follow each
\* other are an interval apart and the later one has waited out the rate limit of
\* the earlier one, although every request decides with a clock reading of its own.
Paced ==
  losses = 0 =>
    \A i, j \in 1..Len(runs) : Consecutive(i, j) =>
      /\ runs[j].started >= runs[i].started + runs[j].interval
      /\ runs[i].resume # None => runs[j].started >= runs[i].resume

\* While no lock session has been lost, n failed runs in a row hold the next run
\* back for the n-th backoff, runs closed as stale included.
BacksOff ==
  losses = 0 =>
    \A i, j \in 1..Len(runs) : Consecutive(i, j) /\ runs[i].status \in Failed =>
      runs[j].started - runs[i].started
        >= Backoff(runs[j].interval, Streak({k \in OfSession(runs[i].session) : k <= i}))

\* While no lock session has been lost, a run that is still RUNNING is the last of
\* its session, and without a fault some worker is filling it.
RunningIsLast ==
  losses = 0 =>
    \A i \in 1..Len(runs) : runs[i].status = "RUNNING" =>
      /\ \A j \in OfSession(runs[i].session) : j <= i
      /\ faults = 0 => \E w \in Workers : current[w] = i /\ pc[w] = "collecting"

\* RUNNING in the session in which the clock stops, old enough to be stale by then.
RunsForever(i) ==
  /\ i \in 1..Len(runs)
  /\ runs[i].status = "RUNNING"
  /\ InWindow(LastMinute) /\ runs[i].session = Session(LastMinute)
  /\ \A minutes \in Intervals : runs[i].started + StaleAfter(minutes) <= LastMinute

\* A run abandoned in RUNNING is closed if its session goes on for long enough.
AbandonedRunsClose == \A i \in RunIds : RunsForever(i) ~> ~ RunsForever(i)
=============================================================================
