-------------------------- MODULE CollectionProofs --------------------------
(***************************************************************************)
(* What Collection promises, for any workers, intervals and bounds.        *)
(***************************************************************************)
EXTENDS Collection, FiniteSetTheorems, TLAPS

\* What a worker has read by the step it is at.
Reads ==
  \A w \in Workers :
    /\ pc[w] \in {"arrived", "locked", "stale"} => seen[w] \in Minutes
    /\ pc[w] \in {"locked", "stale"} => chosen[w] \in Intervals
    /\ pc[w] = "collecting" => current[w] \in 1..Len(runs)

Last(i) == \A j \in OfSession(runs[i].session) : j <= i

\* While no lock is lost, the runs of a session have a last one ...
Newest ==
  losses = 0 =>
    \A i \in 1..Len(runs) : \E m \in OfSession(runs[i].session) : Last(m)

\* ... which started no earlier than the others.
Ordered ==
  losses = 0 =>
    \A i, j \in 1..Len(runs) : runs[i].session = runs[j].session /\ i < j =>
      runs[i].started <= runs[j].started

\* Only the last run of a session can be RUNNING; no pause is recorded of it yet.
Ending ==
  losses = 0 =>
    \A i \in 1..Len(runs) : runs[i].status = "RUNNING" => Last(i) /\ runs[i].resume = None

\* Whoever decides or collects has the lock.
Held ==
  losses = 0 => \A w \in Workers : pc[w] \in {"locked", "stale", "collecting"} => lock = w

Collecting ==
  losses = 0 =>
    \A w \in Workers : pc[w] = "collecting" => runs[current[w]].status = "RUNNING"

Filled ==
  losses = 0 /\ faults = 0 =>
    \A i \in 1..Len(runs) : runs[i].status = "RUNNING" =>
      \E w \in Workers : current[w] = i /\ pc[w] = "collecting"

\* Between the closing of a stale run and the next insertion the session has no
\* RUNNING run, and what was read of its last one still holds.
StaleRead ==
  losses = 0 =>
    \A w \in Workers : pc[w] = "stale" =>
      \A i \in OfSession(Session(seen[w])) :
        /\ runs[i].status # "RUNNING"
        /\ Last(i) => /\ runs[i].resume = None
                      /\ runs[i].started + StaleAfter(chosen[w]) <= seen[w]

\* The longest backoff is shorter than what makes a run stale: the closed run may
\* be followed at once.
BackoffRoom == StaleFloor >= 5 => BacksOff

IInv == /\ TypeOK /\ Reads /\ Newest
        /\ Ordered /\ Ending /\ Held /\ Collecting /\ Filled /\ StaleRead
        /\ Paced /\ BackoffRoom

-----------------------------------------------------------------------------
(* The operators.                                                          *)

LEMMA RunFields ==
  ASSUME TypeOK
  PROVE  /\ Len(runs) \in Nat /\ DOMAIN runs = 1..Len(runs)
         /\ \A i \in 1..Len(runs) :
              /\ runs[i] \in Run
              /\ runs[i].session \in Nat /\ runs[i].interval \in Intervals
              /\ runs[i].started \in Int /\ runs[i].started \in Minutes
              /\ runs[i].resume \in Nat \cup {None}
              /\ runs[i].status \in {"RUNNING", "FAILED"} \cup Saved
  <1>1. Len(runs) \in Nat /\ DOMAIN runs = 1..Len(runs)
        /\ \A i \in 1..Len(runs) : runs[i] \in Run
    BY DEF TypeOK
  <1>2. \A r \in Run : /\ r.session \in Nat /\ r.interval \in Intervals
                       /\ r.started \in Minutes /\ r.resume \in Nat \cup {None}
                       /\ r.status \in {"RUNNING", "FAILED"} \cup Saved
    BY DEF Run
  <1>3. \A t \in Minutes : t \in Int
    BY DEF Minutes
  <1> QED
    BY <1>1, <1>2, <1>3

LEMMA SessionType == ASSUME NEW t \in Minutes PROVE Session(t) \in Nat
  BY CollectionAssumption, SMTT(20) DEF Minutes, Session

\* A backoff is no shorter than the interval, and longer only up to five minutes.
LEMMA BackoffBounds ==
  ASSUME NEW m \in Intervals, NEW n \in 0..4
  PROVE  /\ Backoff(m, n) \in Int
         /\ Backoff(m, n) >= m
         /\ Backoff(m, n) <= 5 \/ Backoff(m, n) = m
  <1>1. m \in 1..60
    BY CollectionAssumption
  <1>2. Larger(1, n) \in 1..4
    BY DEF Larger
  <1>3. <<1, 2, 4, 8>>[Larger(1, n)] \in {1, 2, 4, 8}
    BY <1>2
  <1> QED
    BY <1>1, <1>3 DEF Backoff, Larger, Smaller

LEMMA StreakBounds ==
  ASSUME TypeOK, NEW S, S \subseteq 1..Len(runs)
  PROVE  Streak(S) \in 0..4
  <1> DEFINE F == {j \in S : \A k \in S : Newer(k, j) => runs[k].status \in Failed}
  <1>1. Len(runs) \in Nat
    BY DEF TypeOK
  <1>2. IsFiniteSet(1..Len(runs))
    BY <1>1, FS_Interval
  <1>3. IsFiniteSet(F)
    BY <1>2, FS_Subset
  <1>4. Cardinality(F) \in Nat
    BY <1>3, FS_CardinalityType
  <1> QED
    BY <1>4 DEF Streak, Smaller

\* While no lock is lost the latest run of a session is the one inserted last.
LEMMA LatestIsLast ==
  ASSUME TypeOK, Ordered, losses = 0, NEW i \in 1..Len(runs), Last(i)
  PROVE  Latest(runs[i].session) = i
  <1> DEFINE s == runs[i].session
             l == Latest(s)
  <1>1. \A j \in 1..Len(runs) : runs[j].started \in Int
    BY RunFields
  <1>2. i \in OfSession(s) /\ \A j \in OfSession(s) : j \in 1..Len(runs) /\ j \in Int
    BY RunFields DEF OfSession
  <1>3. \A j \in OfSession(s) : Newer(i, j)
    <2> SUFFICES ASSUME NEW j \in OfSession(s) PROVE Newer(i, j)
      OBVIOUS
    <2>1. j <= i /\ j \in 1..Len(runs) /\ runs[j].session = runs[i].session
      BY DEF Last, OfSession
    <2>2. runs[j].started <= runs[i].started
      BY <1>1, <2>1 DEF Ordered
    <2> QED
      BY <1>1, <2>1, <2>2 DEF Newer
  <1>4. l \in OfSession(s) /\ Newer(l, i)
    BY <1>2, <1>3 DEF Latest
  <1>5. l \in 1..Len(runs) /\ runs[l].session = runs[i].session /\ l <= i
    BY <1>4 DEF OfSession, Last
  <1>6. l < i => runs[l].started <= runs[i].started
    BY <1>5 DEF Ordered
  <1> QED
    BY <1>1, <1>4, <1>5, <1>6 DEF Newer

\* A session that has a run has a last one, which is the latest.
LEMMA LatestExists ==
  ASSUME TypeOK, Ordered, Newest, losses = 0, NEW s, OfSession(s) # {}
  PROVE  /\ Latest(s) \in OfSession(s) /\ Last(Latest(s))
         /\ \A i \in OfSession(s) : Last(i) => i = Latest(s)
  <1>1. PICK i \in OfSession(s) : TRUE
    OBVIOUS
  <1>2. i \in 1..Len(runs) /\ runs[i].session = s
    BY <1>1 DEF OfSession
  <1>3. PICK m \in OfSession(s) : Last(m)
    BY <1>2 DEF Newest
  <1>4. m \in 1..Len(runs) /\ runs[m].session = s
    BY <1>3 DEF OfSession
  <1>5. Latest(s) = m
    BY <1>3, <1>4, LatestIsLast
  <1>6. \A j \in OfSession(s) : Last(j) => j = m
    BY <1>5, LatestIsLast DEF OfSession
  <1> QED
    BY <1>3, <1>5, <1>6

-----------------------------------------------------------------------------
(* The types.                                                              *)

LEMMA InitIInv == Init => IInv
  <1> SUFFICES ASSUME Init PROVE IInv
    OBVIOUS
  <1>1. {LastMinute, MaxRuns, MaxFaults, MaxLosses} \subseteq Nat
    BY CollectionAssumption
  <1>2. 0 \in Minutes /\ 0 \in 0..MaxFaults /\ 0 \in 0..MaxLosses
    BY <1>1 DEF Minutes
  <1>3. runs \in Seq(Run) /\ Len(runs) = 0
    BY DEF Init
  <1>4. TypeOK
    BY <1>1, <1>2, <1>3 DEF Init, TypeOK, WorkerSteps
  <1>5. 1..Len(runs) = {}
    BY <1>3
  <1>6. \A w \in Workers : pc[w] = "idle"
    BY DEF Init
  <1>7. Newest /\ Ordered /\ Ending /\ Filled /\ Paced /\ BackoffRoom
    BY <1>5 DEF Newest, Ordered, Ending, Filled, Paced, BackoffRoom, BacksOff
  <1>8. Reads /\ Held /\ Collecting /\ StaleRead
    BY <1>6 DEF Reads, Held, Collecting, StaleRead
  <1> QED
    BY <1>4, <1>7, <1>8 DEF IInv

\* Run i is closed, and nothing else of the runs changes.
Closed(i) ==
  /\ runs' \in Seq(Run) /\ Len(runs') = Len(runs)
  /\ \A k \in 1..Len(runs) :
       /\ runs'[k].session = runs[k].session
       /\ runs'[k].started = runs[k].started
       /\ runs'[k].interval = runs[k].interval
       /\ k # i => runs'[k].status = runs[k].status /\ runs'[k].resume = runs[k].resume
       /\ k = i => runs'[k].status # "RUNNING"

\* A run of session s begins at minute t.
Added(s, minutes, t) ==
  /\ runs' \in Seq(Run) /\ Len(runs') = Len(runs) + 1 /\ Len(runs') <= MaxRuns
  /\ \A k \in 1..Len(runs) : runs'[k] = runs[k]
  /\ LET new == runs'[Len(runs) + 1] IN
       /\ new.session = s /\ new.interval = minutes /\ new.started = t
       /\ new.status = "RUNNING" /\ new.resume = None

LEMMA CloseEffect ==
  ASSUME TypeOK, NEW i, NEW x \in Failed \cup Saved,
         runs' = [runs EXCEPT ![i].status = x]
  PROVE  Closed(i)
  <1>1. \A r \in Run : LET q == [r EXCEPT !.status = x] IN
          /\ q \in Run /\ q.status = x
          /\ q.session = r.session /\ q.started = r.started /\ q.interval = r.interval
    BY DEF Run, Failed, Saved
  <1>2. runs \in Seq(Run) /\ Len(runs) \in Nat /\ DOMAIN runs = 1..Len(runs)
        /\ \A k \in 1..Len(runs) : runs[k] \in Run
    BY RunFields DEF TypeOK
  <1>3. \A k \in 1..Len(runs) :
          runs'[k] = IF k = i THEN [runs[k] EXCEPT !.status = x] ELSE runs[k]
    BY <1>2
  <1>4. \A k \in 1..Len(runs) : runs'[k] \in Run
    BY <1>1, <1>2, <1>3
  <1>5. runs' \in Seq(Run) /\ Len(runs') = Len(runs)
    <2>1. DOMAIN runs' = 1..Len(runs)
      BY <1>2
    <2>2. runs' = [k \in 1..Len(runs) |-> runs'[k]]
      BY <2>1
    <2>3. runs' \in [1..Len(runs) -> Run]
      BY <1>4, <2>2
    <2> QED
      BY <1>2, <2>1, <2>3
  <1>6. x # "RUNNING"
    BY DEF Failed, Saved
  <1> QED
    BY <1>1, <1>2, <1>3, <1>5, <1>6 DEF Closed

LEMMA SaveEffect ==
  ASSUME TypeOK, NEW w \in Workers, Save(w)
  PROVE  Closed(current[w])
  <1> DEFINE i == current[w]
  <1>1. PICK status \in Saved, limited \in BOOLEAN :
          runs' = [runs EXCEPT ![i].status = status,
                               ![i].resume = IF limited THEN now + RetryAfter ELSE None]
    BY DEF Save
  <1> DEFINE y == IF limited THEN now + RetryAfter ELSE None
  <1>2. y \in Nat \cup {None}
    BY CollectionAssumption DEF TypeOK, Minutes
  <1>3. \A r \in Run : LET q == [r EXCEPT !.status = status, !.resume = y] IN
          /\ q \in Run /\ q.status = status
          /\ q.session = r.session /\ q.started = r.started /\ q.interval = r.interval
    BY <1>2 DEF Run, Failed, Saved
  <1>4. runs \in Seq(Run) /\ Len(runs) \in Nat /\ DOMAIN runs = 1..Len(runs)
        /\ \A k \in 1..Len(runs) : runs[k] \in Run
    BY RunFields DEF TypeOK
  <1>5. \A k \in 1..Len(runs) :
          runs'[k] = IF k = i THEN [runs[k] EXCEPT !.status = status, !.resume = y]
                     ELSE runs[k]
    BY <1>1, <1>4
  <1>6. \A k \in 1..Len(runs) : runs'[k] \in Run
    BY <1>3, <1>4, <1>5
  <1>7. runs' \in Seq(Run) /\ Len(runs') = Len(runs)
    <2>1. DOMAIN runs' = 1..Len(runs)
      BY <1>1, <1>4
    <2>2. runs' = [k \in 1..Len(runs) |-> runs'[k]]
      BY <1>1, <2>1
    <2>3. runs' \in [1..Len(runs) -> Run]
      BY <1>6, <2>2
    <2> QED
      BY <1>4, <2>1, <2>3
  <1>8. status # "RUNNING"
    BY DEF Saved
  <1>9. SUFFICES ASSUME NEW k \in 1..Len(runs)
                 PROVE  /\ runs'[k].session = runs[k].session
                        /\ runs'[k].started = runs[k].started
                        /\ runs'[k].interval = runs[k].interval
                        /\ k # i => runs'[k].status = runs[k].status
                                    /\ runs'[k].resume = runs[k].resume
                        /\ k = i => runs'[k].status # "RUNNING"
    BY <1>7 DEF Closed
  <1>10. CASE k # i
    BY <1>5, <1>10
  <1>11. CASE k = i
    <2>1. runs'[k] = [runs[k] EXCEPT !.status = status, !.resume = y] /\ runs[k] \in Run
      BY <1>4, <1>5, <1>11
    <2> HIDE DEF i, y
    <2> QED
      BY <1>3, <1>8, <1>11, <2>1
  <1> QED
    BY <1>10, <1>11

LEMMA StartEffect ==
  ASSUME TypeOK, Reads, NEW w \in Workers, Start(w)
  PROVE  Added(Session(seen[w]), chosen[w], seen[w])
  <1> DEFINE new == [session |-> Session(seen[w]), status |-> "RUNNING",
                     interval |-> chosen[w], started |-> seen[w], resume |-> None]
  <1>1. seen[w] \in Minutes /\ chosen[w] \in Intervals
    BY DEF Start, Reads
  <1>2. new \in Run
    BY <1>1, SessionType DEF Run
  <1>3. runs \in Seq(Run) /\ Len(runs) \in Nat /\ Len(runs) < MaxRuns
    BY RunFields DEF TypeOK, Start
  <1>4. runs' = Append(runs, new)
    BY DEF Start
  <1>5. /\ runs' \in Seq(Run) /\ Len(runs') = Len(runs) + 1
        /\ \A k \in 1..Len(runs) : runs'[k] = runs[k]
        /\ runs'[Len(runs) + 1] = new
    BY <1>2, <1>3, <1>4
  <1>6. Len(runs) + 1 <= MaxRuns
    BY <1>3, CollectionAssumption
  <1> QED
    BY <1>5, <1>6 DEF Added

LEMMA TypesKept ==
  ASSUME TypeOK, Reads, [Next]_vars
  PROVE  TypeOK' /\ Reads'
  <1>0. /\ Len(runs) \in Nat /\ Len(runs) <= MaxRuns /\ runs \in Seq(Run)
        /\ {LastMinute, MaxRuns, MaxFaults, MaxLosses} \subseteq Nat
        /\ now \in Minutes /\ faults \in Nat /\ losses \in Nat
    BY RunFields, CollectionAssumption DEF TypeOK
  <1>1. ASSUME NEW w \in Workers, Arrive(w)
        PROVE  TypeOK' /\ Reads'
    <2>1. TypeOK'
      BY <1>0, <1>1 DEF Arrive, TypeOK, faultVars, WorkerSteps
    <2>2. Reads'
      BY <1>0, <1>1 DEF Arrive, TypeOK, Reads
    <2> QED
      BY <2>1, <2>2
  <1>2. ASSUME NEW w \in Workers, TryLock(w)
        PROVE  TypeOK' /\ Reads'
    <2>1. PICK minutes \in Intervals : chosen' = [chosen EXCEPT ![w] = minutes]
      BY <1>2 DEF TryLock
    <2>2. TypeOK'
      BY <1>0, <1>2, <2>1 DEF TryLock, TypeOK, faultVars, WorkerSteps
    <2>3. Reads'
      BY <1>0, <1>2, <2>1 DEF TryLock, TypeOK, Reads
    <2> QED
      BY <2>2, <2>3
  <1>3. ASSUME NEW w \in Workers, Busy(w)
        PROVE  TypeOK' /\ Reads'
    <2>1. TypeOK'
      BY <1>0, <1>3 DEF Busy, TypeOK, faultVars, WorkerSteps
    <2>2. Reads'
      BY <1>0, <1>3 DEF Busy, TypeOK, Reads
    <2> QED
      BY <2>1, <2>2
  <1>4. ASSUME NEW w \in Workers, Skip(w) \/ Full(w)
        PROVE  TypeOK' /\ Reads'
    <2>1. /\ pc' = [pc EXCEPT ![w] = "unlocking"]
          /\ UNCHANGED <<now, runs, lock, seen, chosen, current, faults, losses>>
      BY <1>4 DEF Skip, Full, faultVars
    <2>2. TypeOK'
      BY <1>0, <2>1 DEF TypeOK, WorkerSteps
    <2>3. Reads'
      BY <1>0, <2>1 DEF TypeOK, Reads
    <2> QED
      BY <2>2, <2>3
  <1>5. ASSUME NEW w \in Workers, MarkStale(w)
        PROVE  TypeOK' /\ Reads'
    <2>1. Closed(Latest(Session(seen[w])))
      BY <1>5, CloseEffect DEF MarkStale, Failed
    <2>2. TypeOK'
      BY <1>0, <1>5, <2>1 DEF MarkStale, Closed, TypeOK, faultVars, WorkerSteps
    <2>3. Reads'
      BY <1>0, <1>5, <2>1 DEF MarkStale, Closed, TypeOK, Reads
    <2> QED
      BY <2>2, <2>3
  <1>6. ASSUME NEW w \in Workers, Start(w)
        PROVE  TypeOK' /\ Reads'
    <2>1. Added(Session(seen[w]), chosen[w], seen[w])
      BY <1>6, StartEffect
    <2>2. /\ runs' \in Seq(Run) /\ Len(runs') = Len(runs) + 1 /\ Len(runs') <= MaxRuns
      BY <2>1 DEF Added
    <2>3. Len(runs) + 1 \in RunIds
      BY <1>0, <2>2 DEF RunIds
    <2>4. TypeOK'
      BY <1>0, <1>6, <2>2, <2>3 DEF Start, TypeOK, faultVars, WorkerSteps
    <2>5. Reads'
      BY <1>0, <1>6, <2>2 DEF Start, TypeOK, Reads
    <2> QED
      BY <2>4, <2>5
  <1>7. ASSUME NEW w \in Workers, Abort(w) \/ LoseFailure(w)
        PROVE  TypeOK' /\ Reads'
    <2>1. /\ pc' = [pc EXCEPT ![w] = "unlocking"]
          /\ faults < MaxFaults /\ faults' = faults + 1
          /\ UNCHANGED <<now, runs, lock, seen, chosen, current, losses>>
      BY <1>7 DEF Abort, LoseFailure
    <2>2. faults' \in 0..MaxFaults
      BY <1>0, <2>1
    <2>3. TypeOK'
      BY <1>0, <2>1, <2>2 DEF TypeOK, WorkerSteps
    <2>4. Reads'
      BY <1>0, <2>1 DEF TypeOK, Reads
    <2> QED
      BY <2>3, <2>4
  <1>8. ASSUME NEW w \in Workers,
               CollectFails(w) \/ Collected(w) \/ CollectedUnacknowledged(w)
        PROVE  TypeOK' /\ Reads'
    <2>1. Closed(current[w])
      BY <1>8, CloseEffect, SaveEffect
         DEF CollectFails, Collected, CollectedUnacknowledged, Failed
    <2>2. /\ pc' = [pc EXCEPT ![w] = "unlocking"]
          /\ faults' \in 0..MaxFaults
          /\ UNCHANGED <<now, lock, seen, chosen, current, losses>>
      BY <1>0, <1>8
         DEF CollectFails, Collected, CollectedUnacknowledged, faultVars, TypeOK
    <2>3. TypeOK'
      BY <1>0, <2>1, <2>2 DEF Closed, TypeOK, WorkerSteps
    <2>4. Reads'
      BY <1>0, <2>1, <2>2 DEF Closed, TypeOK, Reads
    <2> QED
      BY <2>3, <2>4
  <1>9. ASSUME NEW w \in Workers, Unlock(w)
        PROVE  TypeOK' /\ Reads'
    <2>1. TypeOK'
      BY <1>0, <1>9 DEF Unlock, TypeOK, faultVars, WorkerSteps
    <2>2. Reads'
      BY <1>0, <1>9 DEF Unlock, TypeOK, Reads
    <2> QED
      BY <2>1, <2>2
  <1>10. CASE Tick
    <2>1. now' \in Minutes
      BY <1>0, <1>10 DEF Tick, Minutes
    <2> QED
      BY <1>0, <1>10, <2>1 DEF Tick, workerVars, faultVars, TypeOK, Reads
  <1>11. CASE Crash
    <2>1. faults' \in 0..MaxFaults
      BY <1>0, <1>11 DEF Crash
    <2>2. TypeOK'
      BY <1>0, <1>11, <2>1 DEF Crash, TypeOK, WorkerSteps
    <2>3. Reads'
      BY <1>11 DEF Crash, Reads
    <2> QED
      BY <2>2, <2>3
  <1>12. CASE LoseSession
    <2>1. losses' \in 0..MaxLosses
      BY <1>0, <1>12 DEF LoseSession
    <2> QED
      BY <1>0, <1>12, <2>1 DEF LoseSession, TypeOK, Reads
  <1>13. CASE UNCHANGED vars
    BY <1>0, <1>13 DEF vars, workerVars, faultVars, TypeOK, Reads
  <1> QED
    BY <1>1, <1>2, <1>3, <1>4, <1>5, <1>6, <1>7, <1>8, <1>9, <1>10, <1>11, <1>12, <1>13
       DEF Next, Proceed, Disturbed

-----------------------------------------------------------------------------
(* The runs, whatever worker changes them.                                 *)

OrderInv == Newest /\ Ordered /\ Ending /\ Paced /\ BackoffRoom

LEMMA QuietKeepsOrder ==
  ASSUME OrderInv, UNCHANGED runs, losses' = 0 => losses = 0
  PROVE  OrderInv'
  <1>1. Newest' /\ Ordered' /\ Ending'
    BY DEF OrderInv, Newest, Ordered, Ending, Last, OfSession
  <1>2. Paced'
    BY DEF OrderInv, Paced, Consecutive
  <1>3. BackoffRoom'
    BY DEF OrderInv, BackoffRoom, BacksOff, Consecutive, Streak, Newer, OfSession
  <1> QED
    BY <1>1, <1>2, <1>3 DEF OrderInv

\* Closing the last run of a session changes nothing the order speaks about.
LEMMA CloseKeepsOrder ==
  ASSUME TypeOK, TypeOK', OrderInv, NEW i \in 1..Len(runs), Closed(i),
         losses' = losses, losses = 0 => Last(i)
  PROVE  OrderInv'
  <1>1. Len(runs) \in Nat /\ Len(runs') = Len(runs)
        /\ \A k \in 1..Len(runs) :
             /\ runs'[k].session = runs[k].session
             /\ runs'[k].started = runs[k].started
             /\ runs'[k].interval = runs[k].interval
             /\ k # i => runs'[k].status = runs[k].status /\ runs'[k].resume = runs[k].resume
             /\ k = i => runs'[k].status # "RUNNING"
    BY RunFields DEF Closed
  <1>2. /\ \A k \in 1..Len(runs) : OfSession(runs[k].session)' = OfSession(runs[k].session)
        /\ \A k \in 1..Len(runs) : Last(k)' <=> Last(k)
    BY <1>1 DEF OfSession, Last
  <1>3. Newest'
    <2> SUFFICES ASSUME losses = 0, NEW k \in 1..Len(runs)
                 PROVE  \E m \in OfSession(runs[k].session)' : Last(m)'
      BY <1>1 DEF Newest
    <2>1. PICK m \in OfSession(runs[k].session) : Last(m)
      BY DEF OrderInv, Newest
    <2>2. m \in 1..Len(runs)
      BY <2>1 DEF OfSession
    <2> QED
      BY <1>2, <2>1, <2>2
  <1>4. Ordered'
    BY <1>1 DEF OrderInv, Ordered
  <1>5. Ending'
    <2> SUFFICES ASSUME losses = 0, NEW k \in 1..Len(runs), runs'[k].status = "RUNNING"
                 PROVE  Last(k)' /\ runs'[k].resume = None
      BY <1>1 DEF Ending
    <2> QED
      BY <1>1, <1>2 DEF OrderInv, Ending
  <1>6. ASSUME losses = 0, NEW a \in 1..Len(runs), NEW b \in 1..Len(runs), Consecutive(a, b)'
        PROVE  /\ Consecutive(a, b)
               /\ \A k \in 1..a : runs[k].session = runs[a].session => k # i
    <2>1. a < b /\ runs[a].session = runs[b].session
      BY <1>1, <1>6 DEF Consecutive
    <2>2. \A k \in (a + 1)..(b - 1) : k \in 1..Len(runs)
      BY <1>1
    <2>3. Consecutive(a, b)
      BY <1>1, <1>6, <2>2 DEF Consecutive
    <2>4. runs[a].session = runs[i].session => b <= i
      BY <1>6, <2>1 DEF Last, OfSession
    <2> QED
      BY <2>1, <2>3, <2>4
  <1>7. Paced'
    <2> SUFFICES ASSUME losses = 0, NEW a \in 1..Len(runs), NEW b \in 1..Len(runs),
                        Consecutive(a, b)'
                 PROVE  /\ runs'[b].started >= runs'[a].started + runs'[b].interval
                        /\ runs'[a].resume # None => runs'[b].started >= runs'[a].resume
      BY <1>1 DEF Paced
    <2>1. Consecutive(a, b) /\ a # i
      BY <1>6
    <2> QED
      BY <1>1, <2>1 DEF OrderInv, Paced
  <1>8. BackoffRoom'
    <2> SUFFICES ASSUME StaleFloor >= 5, losses = 0,
                        NEW a \in 1..Len(runs), NEW b \in 1..Len(runs),
                        Consecutive(a, b)', runs'[a].status \in Failed
                 PROVE  (runs[b].started - runs[a].started
                           >= Backoff(runs[b].interval,
                                      Streak({k \in OfSession(runs[a].session) : k <= a})))'
      BY <1>1 DEF BackoffRoom, BacksOff
    <2> DEFINE S == {k \in OfSession(runs[a].session) : k <= a}
               F == {j \in S : \A k \in S : Newer(k, j) => runs[k].status \in Failed}
    <2>1. Consecutive(a, b) /\ a # i /\ \A k \in S : k \in 1..Len(runs) /\ k # i
      BY <1>6 DEF OfSession
    <2>2. S' = S
      BY <1>2
    <2>3. \A k \in S : /\ runs'[k].started = runs[k].started
                       /\ runs'[k].status = runs[k].status
      BY <1>1, <2>1
    <2>4. F' = F
      BY <2>2, <2>3 DEF Newer
    <2>5. Streak(S)' = Streak(S)
      BY <2>4 DEF Streak
    <2>6. runs[a].status \in Failed
      BY <1>1, <2>1
    <2>7. runs[b].started - runs[a].started >= Backoff(runs[b].interval, Streak(S))
      BY <2>1, <2>6 DEF OrderInv, BackoffRoom, BacksOff
    <2> QED
      BY <1>1, <2>5, <2>7
  <1> QED
    BY <1>3, <1>4, <1>5, <1>7, <1>8 DEF OrderInv

\* Session s has room for a run that begins at minute t: nothing is RUNNING, and the
\* last run asks for no later time.
Room(s, minutes, t) ==
  \A i \in OfSession(s) :
    /\ runs[i].status # "RUNNING"
    /\ Last(i) =>
         /\ runs[i].started + minutes <= t
         /\ runs[i].resume # None => runs[i].resume <= t
         /\ StaleFloor >= 5 /\ runs[i].status \in Failed =>
              runs[i].started + Backoff(minutes, Streak(OfSession(s))) <= t

LEMMA AddKeepsOrder ==
  ASSUME TypeOK, TypeOK', OrderInv, NEW s, NEW minutes \in Intervals, NEW t \in Minutes,
         losses' = losses, Added(s, minutes, t), losses = 0 => Room(s, minutes, t)
  PROVE  OrderInv'
  <1>0. PICK n \in Nat : n = Len(runs) + 1
    BY RunFields
  <1>1. /\ Len(runs) \in Nat /\ n = Len(runs) + 1 /\ Len(runs') = n
        /\ \A k \in 1..Len(runs) : runs'[k] = runs[k]
        /\ runs'[n].session = s /\ runs'[n].interval = minutes /\ runs'[n].started = t
        /\ runs'[n].status = "RUNNING" /\ runs'[n].resume = None
    BY <1>0, RunFields DEF Added
  <1>2. \A k \in 1..Len(runs') : k = n \/ k \in 1..Len(runs)
    BY <1>1
  <1>3. /\ \A k \in 1..Len(runs) : /\ runs[k].started \in Int
                                   /\ runs[k].resume \in Nat \cup {None}
        /\ t \in Int /\ minutes \in Int /\ None \notin Nat
    BY RunFields, CollectionAssumption DEF Minutes
  <1>4. Last(n)'
    BY <1>1 DEF Last, OfSession
  <1>5. \A k \in 1..Len(runs) : Last(k) /\ runs[k].session # s => Last(k)'
    BY <1>1 DEF Last, OfSession
  <1>6. Newest'
    <2> SUFFICES ASSUME losses = 0, NEW k \in 1..Len(runs')
                 PROVE  \E m \in 1..Len(runs') :
                          runs'[m].session = runs'[k].session /\ Last(m)'
      BY DEF Newest, OfSession
    <2>1. CASE runs'[k].session = s
      BY <1>1, <1>4, <2>1
    <2>2. CASE runs'[k].session # s
      <3>1. k \in 1..Len(runs) /\ runs[k].session # s
        BY <1>1, <1>2, <2>2
      <3>2. PICK m \in OfSession(runs[k].session) : Last(m)
        BY <3>1 DEF OrderInv, Newest
      <3>3. m \in 1..Len(runs) /\ runs[m].session = runs[k].session
        BY <3>2 DEF OfSession
      <3> QED
        BY <1>1, <1>5, <3>1, <3>2, <3>3
    <2> QED
      BY <2>1, <2>2
  <1>7. ASSUME losses = 0, NEW k \in OfSession(s)
        PROVE  runs[k].started <= t
    <2>1. k \in 1..Len(runs) /\ runs[k].session = s
      BY <1>7 DEF OfSession
    <2>2. PICK m \in OfSession(s) : Last(m)
      BY <1>7, <2>1 DEF OrderInv, Newest
    <2>3. m \in 1..Len(runs) /\ runs[m].session = s /\ k <= m
      BY <2>1, <2>2, <1>7 DEF OfSession, Last
    <2>4. runs[k].started <= runs[m].started
      BY <1>3, <1>7, <2>1, <2>3 DEF OrderInv, Ordered
    <2>5. runs[m].started + minutes <= t /\ minutes >= 0
      BY <1>7, <2>2, CollectionAssumption DEF Room
    <2> QED
      BY <1>3, <2>1, <2>3, <2>4, <2>5
  <1>8. Ordered'
    <2> SUFFICES ASSUME losses = 0, NEW a \in 1..Len(runs'), NEW b \in 1..Len(runs'),
                        runs'[a].session = runs'[b].session, a < b
                 PROVE  runs'[a].started <= runs'[b].started
      BY DEF Ordered
    <2>1. a \in 1..Len(runs) /\ runs'[a] = runs[a]
      BY <1>1, <1>2
    <2>2. CASE b = n
      BY <1>1, <1>7, <2>1, <2>2 DEF OfSession
    <2>3. CASE b \in 1..Len(runs)
      BY <1>1, <2>1, <2>3 DEF OrderInv, Ordered
    <2> QED
      BY <1>2, <2>2, <2>3
  <1>9. Ending'
    <2> SUFFICES ASSUME losses = 0, NEW k \in 1..Len(runs'), runs'[k].status = "RUNNING"
                 PROVE  Last(k)' /\ runs'[k].resume = None
      BY DEF Ending
    <2>1. CASE k = n
      BY <1>1, <1>4, <2>1
    <2>2. CASE k \in 1..Len(runs)
      <3>1. runs[k].status = "RUNNING" /\ runs'[k] = runs[k]
        BY <1>1, <2>2
      <3>2. runs[k].session # s
        BY <3>1, <2>2 DEF Room, OfSession
      <3> QED
        BY <1>5, <2>2, <3>1, <3>2 DEF OrderInv, Ending
    <2> QED
      BY <1>2, <2>1, <2>2
  <1>10. ASSUME losses = 0, NEW a \in 1..Len(runs'), NEW b \in 1..Len(runs'), Consecutive(a, b)'
         PROVE  /\ a \in 1..Len(runs) /\ runs'[a] = runs[a]
                /\ b # n => b \in 1..Len(runs) /\ Consecutive(a, b)
                /\ b = n => a \in OfSession(s) /\ Last(a)
    <2>1. a < b /\ runs'[a].session = runs'[b].session
          /\ \A k \in (a + 1)..(b - 1) : runs'[k].session # runs'[a].session
      BY <1>10 DEF Consecutive
    <2>2. a \in 1..Len(runs) /\ runs'[a] = runs[a]
      BY <1>1, <1>2, <2>1
    <2>3. CASE b # n
      BY <1>1, <1>2, <2>1, <2>2, <2>3 DEF Consecutive
    <2>4. CASE b = n
      <3>1. runs[a].session = s
        BY <1>1, <2>1, <2>2, <2>4
      <3>2. \A k \in (a + 1)..Len(runs) : runs[k].session # s
        BY <1>1, <2>1, <2>2, <2>4, <3>1
      <3> QED
        BY <1>1, <2>2, <2>4, <3>1, <3>2 DEF OfSession, Last
    <2> QED
      BY <2>2, <2>3, <2>4
  <1>11. Paced'
    <2> SUFFICES ASSUME losses = 0, NEW a \in 1..Len(runs'), NEW b \in 1..Len(runs'),
                        Consecutive(a, b)'
                 PROVE  /\ runs'[b].started >= runs'[a].started + runs'[b].interval
                        /\ runs'[a].resume # None => runs'[b].started >= runs'[a].resume
      BY DEF Paced
    <2>1. CASE b # n
      BY <1>1, <1>10, <2>1 DEF OrderInv, Paced
    <2>2. CASE b = n
      <3>1. a \in 1..Len(runs) /\ a \in OfSession(s) /\ Last(a) /\ runs'[a] = runs[a]
        BY <1>10, <2>2
      <3>2. /\ runs[a].started + minutes <= t
            /\ runs[a].resume # None => runs[a].resume <= t
        BY <3>1 DEF Room
      <3> QED
        BY <1>1, <1>3, <2>2, <3>1, <3>2
    <2> QED
      BY <2>1, <2>2
  <1>12. BackoffRoom'
    <2> SUFFICES ASSUME StaleFloor >= 5, losses = 0,
                        NEW a \in 1..Len(runs'), NEW b \in 1..Len(runs'),
                        Consecutive(a, b)', runs'[a].status \in Failed
                 PROVE  (runs[b].started - runs[a].started
                           >= Backoff(runs[b].interval,
                                      Streak({k \in OfSession(runs[a].session) : k <= a})))'
      BY DEF BackoffRoom, BacksOff
    <2> DEFINE S == {k \in OfSession(runs[a].session) : k <= a}
               F == {j \in S : \A k \in S : Newer(k, j) => runs[k].status \in Failed}
    <2>1. a \in 1..Len(runs) /\ runs'[a] = runs[a]
      BY <1>10
    <2>2. S' = S
      BY <1>1, <2>1 DEF OfSession
    <2>3. \A k \in S : runs'[k] = runs[k]
      BY <1>1 DEF OfSession
    <2>4. F' = F
      BY <2>2, <2>3 DEF Newer
    <2>5. Streak(S)' = Streak(S)
      BY <2>4 DEF Streak
    <2>6. CASE b # n
      <3>1. b \in 1..Len(runs) /\ Consecutive(a, b) /\ runs'[b] = runs[b]
        BY <1>1, <1>10, <2>6
      <3>2. runs[b].started - runs[a].started >= Backoff(runs[b].interval, Streak(S))
        BY <2>1, <3>1 DEF OrderInv, BackoffRoom, BacksOff
      <3> QED
        BY <2>1, <2>5, <3>1, <3>2
    <2>7. CASE b = n
      <3>1. a \in OfSession(s) /\ Last(a) /\ runs[a].session = s
        BY <1>10, <2>7 DEF OfSession
      <3>2. S = OfSession(s)
        BY <3>1 DEF Last
      <3>3. runs[a].started + Backoff(minutes, Streak(S)) <= t
        BY <2>1, <3>1, <3>2 DEF Room
      <3>4. Streak(S) \in 0..4
        BY StreakBounds DEF OfSession
      <3>5. Backoff(minutes, Streak(S)) \in Int
        BY <3>4, BackoffBounds
      <3>6. t - runs[a].started >= Backoff(minutes, Streak(S))
        BY <1>3, <2>1, <3>3, <3>5
      <3> QED
        BY <1>1, <2>1, <2>5, <2>7, <3>6
    <2> QED
      BY <2>6, <2>7
  <1> QED
    BY <1>6, <1>8, <1>9, <1>11, <1>12 DEF OrderInv

\* A worker that inserts a run has found room for it.
LEMMA StartHasRoom ==
  ASSUME IInv, losses = 0, NEW w \in Workers, Start(w)
  PROVE  Room(Session(seen[w]), chosen[w], seen[w])
  <1> DEFINE s == Session(seen[w])
  <1>1. TypeOK /\ Newest /\ Ordered /\ Ending
    BY DEF IInv
  <1>2. /\ seen[w] \in Int
        /\ chosen[w] \in Intervals /\ chosen[w] \in Int /\ chosen[w] >= 1
        /\ StaleFloor \in Nat /\ StaleFloor \in Int /\ None \notin Nat
    <2>1. pc[w] \in {"locked", "stale"}
      BY DEF Start
    <2>2. seen[w] \in Minutes /\ chosen[w] \in Intervals
      BY <2>1 DEF IInv, Reads
    <2>3. \A t \in Minutes : t \in Int
      BY DEF Minutes
    <2>4. \A m \in Intervals : m \in Int /\ m >= 1
      BY CollectionAssumption
    <2>5. StaleFloor \in Nat /\ StaleFloor \in Int /\ None \notin Nat
      BY CollectionAssumption
    <2> QED
      BY <2>2, <2>3, <2>4, <2>5, Zenon
  <1>3. \A i \in OfSession(s) : /\ i \in 1..Len(runs) /\ runs[i].session = s
                                /\ runs[i].started \in Int
                                /\ runs[i].resume \in Nat \cup {None}
    BY <1>1, RunFields DEF OfSession
  <1>4. Streak(OfSession(s)) \in 0..4
    BY <1>1, StreakBounds DEF OfSession
  <1> DEFINE delay == Backoff(chosen[w], Streak(OfSession(s)))
  <1>5. delay \in Int /\ delay >= chosen[w] /\ (delay <= 5 \/ delay = chosen[w])
    BY <1>2, <1>4, BackoffBounds
  <1> HIDE DEF delay
  <1>6. CASE pc[w] = "locked" /\ ~ Blocked(w) /\ ~ Stale(w)
    <2> SUFFICES ASSUME NEW i \in OfSession(s) PROVE
           /\ runs[i].status # "RUNNING"
           /\ Last(i) =>
                /\ runs[i].started + chosen[w] <= seen[w]
                /\ runs[i].resume # None => runs[i].resume <= seen[w]
                /\ StaleFloor >= 5 /\ runs[i].status \in Failed =>
                     runs[i].started + delay <= seen[w]
      BY DEF Room, delay
    <2>1. /\ Latest(s) \in OfSession(s) /\ Last(Latest(s))
          /\ \A j \in OfSession(s) : Last(j) => j = Latest(s)
      BY <1>1, LatestExists
    <2>2. /\ runs[Latest(s)].status # "RUNNING"
          /\ ~ (NextDue(Latest(s), chosen[w]) > seen[w])
      BY <1>6 DEF Blocked, Stale
    <2>3. runs[i].status # "RUNNING"
      BY <1>1, <1>3, <2>1, <2>2 DEF Ending
    <2>4. ASSUME Last(i)
          PROVE  /\ runs[i].started + chosen[w] <= seen[w]
                 /\ runs[i].resume # None => runs[i].resume <= seen[w]
                 /\ runs[i].status \in Failed => runs[i].started + delay <= seen[w]
      <3>1. i = Latest(s) /\ runs[i].session = s
        BY <1>3, <2>1, <2>4
      <3>2. ~ (NextDue(i, chosen[w]) > seen[w])
        BY <2>2, <3>1
      <3> DEFINE d == IF runs[i].status \in Failed THEN delay ELSE chosen[w]
                 due == runs[i].started + d
      <3>3. NextDue(i, chosen[w])
              = IF runs[i].resume # None THEN Larger(due, runs[i].resume) ELSE due
        BY <3>1 DEF NextDue, delay
      <3>4. d \in Int /\ d >= chosen[w] /\ (runs[i].status \in Failed => d = delay)
        BY <1>2, <1>5
      <3> HIDE DEF d
      <3>5. due <= seen[w] /\ (runs[i].resume # None => runs[i].resume <= seen[w])
        BY <1>2, <1>3, <3>2, <3>3, <3>4 DEF Larger
      <3>6. runs[i].started \in Int /\ chosen[w] \in Int /\ seen[w] \in Int
        BY <1>2, <1>3, Zenon
      <3>7. runs[i].started + chosen[w] <= seen[w]
        BY <3>4, <3>5, <3>6
      <3> QED
        BY <3>4, <3>5, <3>7
    <2> QED
      BY <2>3, <2>4
  <1>7. CASE pc[w] = "stale"
    <2> SUFFICES ASSUME NEW i \in OfSession(s) PROVE
           /\ runs[i].status # "RUNNING"
           /\ Last(i) =>
                /\ runs[i].started + chosen[w] <= seen[w]
                /\ runs[i].resume # None => runs[i].resume <= seen[w]
                /\ StaleFloor >= 5 => runs[i].started + delay <= seen[w]
      BY DEF Room, delay
    <2>1. /\ runs[i].status # "RUNNING"
          /\ Last(i) => /\ runs[i].resume = None
                        /\ runs[i].started + StaleAfter(chosen[w]) <= seen[w]
      BY <1>7 DEF IInv, StaleRead
    <2>2. /\ StaleAfter(chosen[w]) \in Int
          /\ StaleAfter(chosen[w]) >= chosen[w] /\ StaleAfter(chosen[w]) >= StaleFloor
      BY <1>2 DEF StaleAfter, Larger
    <2>3. runs[i].started \in Int /\ chosen[w] \in Int /\ seen[w] \in Int /\ StaleFloor \in Int
      BY <1>2, <1>3, Zenon
    <2>4. StaleFloor >= 5 => delay <= StaleAfter(chosen[w])
      BY <1>5, <2>2, <2>3
    <2>5. Last(i) => runs[i].started + chosen[w] <= seen[w]
      BY <2>1, <2>2, <2>3
    <2>6. Last(i) /\ StaleFloor >= 5 => runs[i].started + delay <= seen[w]
      BY <1>5, <2>1, <2>2, <2>3, <2>4
    <2> QED
      BY <2>1, <2>5, <2>6
  <1> QED
    BY <1>6, <1>7 DEF Start

-----------------------------------------------------------------------------
(* The workers.                                                            *)

\* At most one worker decides or collects.
LEMMA OneInside ==
  ASSUME IInv, losses = 0, NEW v \in Workers, NEW w \in Workers,
         pc[v] \in {"locked", "stale", "collecting"},
         pc[w] \in {"locked", "stale", "collecting"}
  PROVE  v = w
  BY DEF IInv, Held

\* The part of the invariant that follows the workers.
WorkerInv == Held /\ Collecting /\ Filled /\ StaleRead

\* A worker moves on without a word about the runs.
LEMMA StepAside ==
  ASSUME IInv, NEW w \in Workers, UNCHANGED <<runs, losses>>,
         pc' \in [Workers -> WorkerSteps],
         pc'[w] \notin {"stale", "collecting"},
         pc[w] # "collecting" \/ faults' # 0,
         faults' = 0 => faults = 0,
         \A v \in Workers : v # w =>
           pc'[v] = pc[v] /\ seen'[v] = seen[v] /\ chosen'[v] = chosen[v]
             /\ current'[v] = current[v],
         Held'
  PROVE  WorkerInv'
  <1>1. Collecting'
    <2> SUFFICES ASSUME losses = 0, NEW v \in Workers, pc'[v] = "collecting"
                 PROVE  runs[current'[v]].status = "RUNNING"
      BY DEF Collecting
    <2>1. v # w /\ pc[v] = "collecting" /\ current'[v] = current[v]
      OBVIOUS
    <2> QED
      BY <2>1 DEF IInv, Collecting
  <1>2. Filled'
    <2> SUFFICES ASSUME losses = 0, faults' = 0, NEW i \in 1..Len(runs),
                        runs[i].status = "RUNNING"
                 PROVE  \E v \in Workers : current'[v] = i /\ pc'[v] = "collecting"
      BY DEF Filled
    <2>1. PICK v \in Workers : current[v] = i /\ pc[v] = "collecting"
      BY DEF IInv, Filled
    <2> QED
      BY <2>1
  <1>3. StaleRead'
    <2> SUFFICES ASSUME losses = 0, NEW v \in Workers, pc'[v] = "stale",
                        NEW i \in OfSession(Session(seen'[v]))
                 PROVE  /\ runs[i].status # "RUNNING"
                        /\ Last(i) =>
                             /\ runs[i].resume = None
                             /\ runs[i].started + StaleAfter(chosen'[v]) <= seen'[v]
      BY DEF StaleRead, OfSession, Last
    <2>1. v # w /\ pc[v] = "stale" /\ seen'[v] = seen[v] /\ chosen'[v] = chosen[v]
      OBVIOUS
    <2> QED
      BY <2>1 DEF IInv, StaleRead
  <1> QED
    BY <1>1, <1>2, <1>3 DEF WorkerInv

\* The run a collecting worker fills, and the run MarkStale closes, is its session's last.
LEMMA FilledRunIsLast ==
  ASSUME IInv, losses = 0, NEW w \in Workers, pc[w] = "collecting"
  PROVE  /\ current[w] \in 1..Len(runs) /\ runs[current[w]].status = "RUNNING"
         /\ Last(current[w])
  BY DEF IInv, Reads, Collecting, Ending

LEMMA StaleRunIsLast ==
  ASSUME IInv, losses = 0, NEW w \in Workers, MarkStale(w)
  PROVE  LET i == Latest(Session(seen[w])) IN
           /\ i \in 1..Len(runs) /\ runs[i].session = Session(seen[w]) /\ Last(i)
           /\ runs[i].status = "RUNNING" /\ runs[i].resume = None
           /\ runs[i].started + StaleAfter(chosen[w]) <= seen[w]
           /\ \A j \in OfSession(Session(seen[w])) : runs[j].status = "RUNNING" => j = i
  <1> DEFINE s == Session(seen[w])
             i == Latest(s)
  <1>1. OfSession(s) # {} /\ runs[i].status = "RUNNING" /\ ~ Fresh(i, w) /\ pc[w] = "locked"
    BY DEF MarkStale, Stale
  <1>2. i \in OfSession(s) /\ Last(i) /\ \A j \in OfSession(s) : Last(j) => j = i
    BY <1>1, LatestExists DEF IInv
  <1>3. i \in 1..Len(runs) /\ runs[i].session = s
    BY <1>2 DEF OfSession
  <1>4. runs[i].resume = None
    BY <1>1, <1>3 DEF IInv, Ending
  <1>5. \A j \in OfSession(s) : runs[j].status = "RUNNING" => j = i
    BY <1>2 DEF IInv, Ending, OfSession
  <1>6. seen[w] \in Int /\ chosen[w] \in Int /\ StaleFloor \in Int /\ runs[i].started \in Int
    <2>1. seen[w] \in Minutes /\ chosen[w] \in Intervals
      BY <1>1 DEF IInv, Reads
    <2>2. \A m \in Intervals : m \in Int
      BY CollectionAssumption
    <2>3. \A t \in Minutes : t \in Int
      BY DEF Minutes
    <2>4. runs[i].started \in Int
      BY <1>3, RunFields DEF IInv
    <2>5. StaleFloor \in Int
      BY CollectionAssumption
    <2> QED
      BY <2>1, <2>2, <2>3, <2>4, <2>5, Zenon
  <1>7. StaleAfter(chosen[w]) \in Int
    BY <1>6 DEF StaleAfter, Larger
  <1>8. runs[i].started + StaleAfter(chosen[w]) <= seen[w]
    BY <1>1, <1>6, <1>7 DEF Fresh
  <1> QED
    BY <1>1, <1>2, <1>3, <1>4, <1>5, <1>8

LEMMA MarkStaleKeepsWorkers ==
  ASSUME IInv, NEW w \in Workers, MarkStale(w)
  PROVE  WorkerInv'
  <1> SUFFICES ASSUME losses = 0 PROVE WorkerInv'
    <2>1. losses' = losses
      BY DEF MarkStale, faultVars
    <2> QED
      BY <2>1 DEF WorkerInv, Held, Collecting, Filled, StaleRead
  <1> DEFINE s == Session(seen[w])
  <1>0. PICK i \in 1..Len(runs) :
          /\ i = Latest(s) /\ runs[i].session = s /\ Last(i)
          /\ runs[i].status = "RUNNING" /\ runs[i].resume = None
          /\ runs[i].started + StaleAfter(chosen[w]) <= seen[w]
          /\ \A j \in OfSession(s) : runs[j].status = "RUNNING" => j = i
    BY StaleRunIsLast
  <1>1. /\ pc[w] = "locked" /\ pc' = [pc EXCEPT ![w] = "stale"]
        /\ runs' = [runs EXCEPT ![i].status = "FAILED"]
        /\ UNCHANGED <<lock, seen, chosen, current, faults, losses>>
    BY <1>0 DEF MarkStale, faultVars
  <1>2. /\ pc'[w] = "stale" /\ \A v \in Workers : v # w => pc'[v] = pc[v]
    BY <1>1 DEF IInv, TypeOK
  <1>3. Closed(i)
    BY <1>1, CloseEffect DEF IInv, Failed
  <1>4. runs'[i].resume = None
    <2>1. runs[i] \in Run /\ i \in DOMAIN runs
      BY RunFields DEF IInv
    <2> QED
      BY <1>0, <1>1, <2>1 DEF Run
  <1>5. \A v \in Workers : v # w => pc[v] \notin {"locked", "stale", "collecting"}
    BY <1>1, OneInside
  <1>6. Held'
    BY <1>1, <1>2 DEF IInv, Held
  <1>7. Collecting'
    BY <1>2, <1>5 DEF Collecting
  <1>8. Filled'
    <2> SUFFICES ASSUME faults = 0, NEW k \in 1..Len(runs), runs'[k].status = "RUNNING"
                 PROVE  \E v \in Workers : current[v] = k /\ pc'[v] = "collecting"
      BY <1>1, <1>3 DEF Filled, Closed
    <2>1. runs[k].status = "RUNNING"
      BY <1>3 DEF Closed
    <2> QED
      BY <1>1, <1>2, <2>1 DEF IInv, Filled
  <1>9. StaleRead'
    <2> SUFFICES ASSUME NEW v \in Workers, pc'[v] = "stale",
                        NEW j \in 1..Len(runs), runs'[j].session = Session(seen[v])
                 PROVE  /\ runs'[j].status # "RUNNING"
                        /\ Last(j)' =>
                             /\ runs'[j].resume = None
                             /\ runs'[j].started + StaleAfter(chosen[v]) <= seen[v]
      BY <1>1, <1>3 DEF StaleRead, OfSession, Closed
    <2>1. v = w
      BY <1>2, <1>5
    <2>2. runs[j].session = s /\ j \in OfSession(s)
      BY <1>3, <2>1 DEF Closed, OfSession
    <2>3. runs'[j].status # "RUNNING"
      BY <1>0, <1>3, <2>2 DEF Closed
    <2>4. ASSUME Last(j)' PROVE j = i
      <3>1. runs'[i].session = runs'[j].session /\ Len(runs') = Len(runs)
        BY <1>0, <1>3, <2>2 DEF Closed
      <3>2. i <= j
        BY <2>4, <3>1 DEF Last, OfSession
      <3>3. j <= i
        BY <1>0, <2>2 DEF Last
      <3> QED
        BY <3>2, <3>3, RunFields DEF IInv
    <2> QED
      BY <1>0, <1>3, <1>4, <2>1, <2>3, <2>4 DEF Closed
  <1> QED
    BY <1>6, <1>7, <1>8, <1>9 DEF WorkerInv

LEMMA StartKeepsWorkers ==
  ASSUME IInv, NEW w \in Workers, Start(w)
  PROVE  WorkerInv'
  <1> SUFFICES ASSUME losses = 0 PROVE WorkerInv'
    <2>1. losses' = losses
      BY DEF Start, faultVars
    <2> QED
      BY <2>1 DEF WorkerInv, Held, Collecting, Filled, StaleRead
  <1>0. PICK n \in Nat : n = Len(runs) + 1
    BY RunFields DEF IInv
  <1>1. /\ pc[w] \in {"locked", "stale"}
        /\ pc' = [pc EXCEPT ![w] = "collecting"]
        /\ current' = [current EXCEPT ![w] = n]
        /\ UNCHANGED <<lock, faults, losses>>
    BY <1>0 DEF Start, faultVars
  <1>2. /\ pc'[w] = "collecting" /\ current'[w] = n
        /\ \A v \in Workers : v # w => pc'[v] = pc[v] /\ current'[v] = current[v]
    BY <1>1 DEF IInv, TypeOK
  <1>3. Added(Session(seen[w]), chosen[w], seen[w])
    BY StartEffect DEF IInv
  <1>4. Len(runs) \in Nat /\ Len(runs') = n /\ runs'[n].status = "RUNNING"
        /\ \A k \in 1..Len(runs) : runs'[k] = runs[k]
    BY <1>0, <1>3, RunFields DEF IInv, Added
  <1>5. \A v \in Workers : v # w => pc[v] \notin {"locked", "stale", "collecting"}
    BY <1>1, OneInside
  <1>6. Held'
    BY <1>1, <1>2 DEF IInv, Held
  <1>7. Collecting'
    BY <1>2, <1>4, <1>5 DEF Collecting
  <1>8. Filled'
    <2> SUFFICES ASSUME faults = 0, NEW k \in 1..n, runs'[k].status = "RUNNING"
                 PROVE  \E v \in Workers : current'[v] = k /\ pc'[v] = "collecting"
      BY <1>1, <1>4 DEF Filled
    <2>1. CASE k = n
      BY <1>2, <2>1
    <2>2. CASE k # n
      <3>1. k \in 1..Len(runs) /\ runs[k].status = "RUNNING"
        BY <1>0, <1>4, <2>2
      <3>2. PICK v \in Workers : current[v] = k /\ pc[v] = "collecting"
        BY <3>1 DEF IInv, Filled
      <3> QED
        BY <1>1, <1>2, <3>2
    <2> QED
      BY <2>1, <2>2
  <1>9. StaleRead'
    BY <1>2, <1>5 DEF StaleRead
  <1> QED
    BY <1>6, <1>7, <1>8, <1>9 DEF WorkerInv

\* A worker ends its collection: its run is closed and others have none.
LEMMA EndKeepsWorkers ==
  ASSUME IInv, NEW w \in Workers, pc[w] = "collecting",
         pc' = [pc EXCEPT ![w] = "unlocking"], Closed(current[w]),
         UNCHANGED <<lock, seen, chosen, current, losses>>, faults' = 0 => faults = 0
  PROVE  WorkerInv'
  <1> SUFFICES ASSUME losses = 0 PROVE WorkerInv'
    BY DEF WorkerInv, Held, Collecting, Filled, StaleRead
  <1>1. /\ pc'[w] = "unlocking" /\ \A v \in Workers : v # w => pc'[v] = pc[v]
    BY DEF IInv, TypeOK
  <1>2. \A v \in Workers : v # w => pc[v] \notin {"locked", "stale", "collecting"}
    BY OneInside
  <1>3. Held' /\ Collecting' /\ StaleRead'
    BY <1>1, <1>2 DEF Held, Collecting, StaleRead
  <1>4. Filled'
    <2> SUFFICES ASSUME faults = 0, NEW k \in 1..Len(runs), runs'[k].status = "RUNNING"
                 PROVE  FALSE
      BY DEF Filled, Closed
    <2>1. k # current[w] /\ runs[k].status = "RUNNING"
      BY DEF Closed
    <2>2. PICK v \in Workers : current[v] = k /\ pc[v] = "collecting"
      BY <2>1 DEF IInv, Filled
    <2> QED
      BY <1>2, <2>1, <2>2
  <1> QED
    BY <1>3, <1>4 DEF WorkerInv

-----------------------------------------------------------------------------
(* The theorems.                                                           *)

LEMMA ParkedKeepsInv ==
  ASSUME IInv, TypeOK', Reads', NEW w \in Workers, UNCHANGED <<runs, losses>>,
         pc'[w] \notin {"stale", "collecting"},
         pc[w] # "collecting" \/ faults' # 0,
         faults' = 0 => faults = 0,
         \A v \in Workers : v # w =>
           pc'[v] = pc[v] /\ seen'[v] = seen[v] /\ chosen'[v] = chosen[v]
             /\ current'[v] = current[v],
         Held'
  PROVE  IInv'
  <1>1. OrderInv'
    BY QuietKeepsOrder DEF IInv, OrderInv
  <1>2. WorkerInv'
    BY StepAside DEF TypeOK
  <1> QED
    BY <1>1, <1>2 DEF IInv, OrderInv, WorkerInv

LEMMA WorkerStep ==
  ASSUME IInv, TypeOK', Reads', NEW w \in Workers,
         Arrive(w) \/ Proceed(w) \/ Disturbed(w)
  PROVE  IInv'
  <1>0. /\ pc \in [Workers -> WorkerSteps] /\ faults \in Nat /\ None \notin Workers
        /\ seen \in [Workers -> Minutes \cup {None}]
        /\ chosen \in [Workers -> Intervals \cup {None}]
        /\ current \in [Workers -> RunIds \cup {None}]
    BY CollectionAssumption DEF IInv, TypeOK
  <1>1. CASE Arrive(w)
    <2>1. Held'
      BY <1>0, <1>1 DEF Arrive, IInv, Held, faultVars
    <2> QED
      BY <1>0, <1>1, <2>1, ParkedKeepsInv DEF Arrive, faultVars
  <1>2. CASE TryLock(w)
    <2>1. PICK minutes \in Intervals : chosen' = [chosen EXCEPT ![w] = minutes]
      BY <1>2 DEF TryLock
    <2>2. Held'
      BY <1>0, <1>2 DEF TryLock, IInv, Held, faultVars
    <2> QED
      BY <1>0, <1>2, <2>1, <2>2, ParkedKeepsInv DEF TryLock, faultVars
  <1>3. CASE Busy(w)
    <2>1. Held'
      BY <1>0, <1>3 DEF Busy, IInv, Held, faultVars
    <2> QED
      BY <1>0, <1>3, <2>1, ParkedKeepsInv DEF Busy, faultVars
  <1>4. CASE Skip(w) \/ Full(w) \/ Abort(w) \/ LoseFailure(w)
    <2>1. /\ pc' = [pc EXCEPT ![w] = "unlocking"]
          /\ UNCHANGED <<runs, lock, seen, chosen, current, losses>>
          /\ faults' = 0 => faults = 0
          /\ pc[w] # "collecting" \/ faults' # 0
      BY <1>0, <1>4 DEF Skip, Full, Abort, LoseFailure, faultVars
    <2>2. Held'
      BY <1>0, <2>1 DEF IInv, Held
    <2> QED
      BY <1>0, <2>1, <2>2, ParkedKeepsInv
  <1>5. CASE Unlock(w)
    <2>1. Held'
      BY <1>0, <1>5 DEF Unlock, IInv, Held, faultVars
    <2> QED
      BY <1>0, <1>5, <2>1, ParkedKeepsInv DEF Unlock, faultVars
  <1>6. CASE MarkStale(w)
    <2>1. Closed(Latest(Session(seen[w]))) /\ losses' = losses
      BY <1>6, CloseEffect DEF MarkStale, faultVars, IInv, Failed
    <2>2. losses = 0 => Latest(Session(seen[w])) \in 1..Len(runs)
                        /\ Last(Latest(Session(seen[w])))
      BY <1>6, StaleRunIsLast
    <2>3. ASSUME losses = 0 PROVE OrderInv'
      BY <2>1, <2>2, <2>3, CloseKeepsOrder DEF IInv, OrderInv
    <2>4. ASSUME losses # 0 PROVE OrderInv'
      BY <2>1, <2>4 DEF OrderInv, Newest, Ordered, Ending, Paced, BackoffRoom, BacksOff
    <2>5. WorkerInv'
      BY <1>6, MarkStaleKeepsWorkers
    <2> QED
      BY <2>3, <2>4, <2>5 DEF IInv, OrderInv, WorkerInv
  <1>7. CASE Start(w)
    <2>1. Added(Session(seen[w]), chosen[w], seen[w]) /\ losses' = losses
      BY <1>7, StartEffect DEF Start, faultVars, IInv
    <2>2. seen[w] \in Minutes /\ chosen[w] \in Intervals
      BY <1>7 DEF Start, IInv, Reads
    <2>3. losses = 0 => Room(Session(seen[w]), chosen[w], seen[w])
      BY <1>7, StartHasRoom
    <2>4. OrderInv'
      BY <2>1, <2>2, <2>3, AddKeepsOrder DEF IInv, OrderInv
    <2>5. WorkerInv'
      BY <1>7, StartKeepsWorkers
    <2> QED
      BY <2>4, <2>5 DEF IInv, OrderInv, WorkerInv
  <1>8. CASE CollectFails(w) \/ Collected(w) \/ CollectedUnacknowledged(w)
    <2>1. /\ pc[w] = "collecting" /\ pc' = [pc EXCEPT ![w] = "unlocking"]
          /\ UNCHANGED <<lock, seen, chosen, current, losses>>
          /\ faults' = 0 => faults = 0
      BY <1>0, <1>8 DEF CollectFails, Collected, CollectedUnacknowledged, faultVars
    <2>2. Closed(current[w])
      BY <1>8, CloseEffect, SaveEffect
         DEF CollectFails, Collected, CollectedUnacknowledged, Failed, IInv
    <2>3. current[w] \in 1..Len(runs) /\ (losses = 0 => Last(current[w]))
      BY <2>1, FilledRunIsLast DEF IInv, Reads
    <2>4. OrderInv'
      BY <2>1, <2>2, <2>3, CloseKeepsOrder DEF IInv, OrderInv
    <2>5. WorkerInv'
      BY <2>1, <2>2, EndKeepsWorkers
    <2> QED
      BY <2>4, <2>5 DEF IInv, OrderInv, WorkerInv
  <1> QED
    BY <1>1, <1>2, <1>3, <1>4, <1>5, <1>6, <1>7, <1>8 DEF Proceed, Disturbed

LEMMA NextIInv == IInv /\ [Next]_vars => IInv'
  <1> SUFFICES ASSUME IInv, [Next]_vars PROVE IInv'
    OBVIOUS
  <1>0. TypeOK' /\ Reads' /\ faults \in Nat /\ losses \in Nat
    BY TypesKept DEF IInv, TypeOK
  <1>1. ASSUME NEW w \in Workers, Arrive(w) \/ Proceed(w) \/ Disturbed(w)
        PROVE  IInv'
    BY <1>0, <1>1, WorkerStep
  <1>2. CASE Tick \/ UNCHANGED vars
    <2>1. UNCHANGED <<runs, lock, pc, seen, chosen, current, faults, losses>>
      BY <1>2 DEF Tick, vars, workerVars, faultVars
    <2>2. OrderInv'
      BY <2>1, QuietKeepsOrder DEF IInv, OrderInv
    <2>3. Held' /\ Collecting' /\ Filled' /\ StaleRead'
      BY <2>1 DEF IInv, Held, Collecting, Filled, StaleRead, OfSession, Last
    <2> QED
      BY <1>0, <2>2, <2>3 DEF IInv, OrderInv
  <1>3. CASE Crash
    <2>1. /\ \A w \in Workers : pc'[w] = "idle"
          /\ faults' # 0 /\ UNCHANGED <<runs, losses>>
      BY <1>0, <1>3 DEF Crash
    <2>2. OrderInv'
      BY <2>1, QuietKeepsOrder DEF IInv, OrderInv
    <2>3. Held' /\ Collecting' /\ Filled' /\ StaleRead'
      BY <2>1 DEF Held, Collecting, Filled, StaleRead
    <2> QED
      BY <1>0, <2>2, <2>3 DEF IInv, OrderInv
  <1>4. CASE LoseSession
    <2>1. losses' # 0
      BY <1>0, <1>4 DEF LoseSession
    <2> QED
      BY <1>0, <2>1
         DEF IInv, Newest, Ordered, Ending, Paced, BackoffRoom, BacksOff,
             Held, Collecting, Filled, StaleRead
  <1> QED
    BY <1>1, <1>2, <1>3, <1>4 DEF Next

LEMMA AlwaysIInv == Spec => []IInv
  <1> QED
    BY InitIInv, NextIInv, PTL DEF Spec

\* Types: in particular every run that is inserted carries what its worker has read.
THEOREM TypeCorrect == Spec => []TypeOK
  <1>1. IInv => TypeOK
    BY DEF IInv
  <1> QED
    BY <1>1, AlwaysIInv, PTL

\* Whatever requests race, crash or give up, a RUNNING run has no younger one beside
\* it in its session, as long as no lock session ends under its worker.
THEOREM RunningRunIsLast == Spec => []RunningIsLast
  <1>1. IInv => RunningIsLast
    BY DEF IInv, Ending, Filled, RunningIsLast, Last
  <1> QED
    BY <1>1, AlwaysIInv, PTL

\* Collections of a session keep the interval and the rate limit's pause, for any
\* intervals the user switches between.
THEOREM CollectionsArePaced == Spec => []Paced
  <1>1. IInv => Paced
    BY DEF IInv
  <1> QED
    BY <1>1, AlwaysIInv, PTL

\* Failures hold the next collection back, stale runs included: a run has to be as old
\* as the longest backoff to be stale, and the code waits for thirty minutes.
THEOREM FailuresBackOff ==
  ASSUME StaleFloor >= 5
  PROVE  Spec => []BacksOff
  <1>1. IInv => BacksOff
    BY DEF IInv, BackoffRoom
  <1> QED
    BY <1>1, AlwaysIInv, PTL
=============================================================================
