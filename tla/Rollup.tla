------------------------------- MODULE Rollup -------------------------------
(***************************************************************************)
(* Maintenance of the calculated series in the Python backend:             *)
(* run_data_maintenance in app/services/data_lifecycle.py and              *)
(* run_maintenance in app/scheduler/runner.py, against the calculations    *)
(* that store history (SVIXRepository.save, save_custom_result).           *)
(*                                                                         *)
(* Detailed rows older than the retention are folded into one row per day  *)
(* and then deleted by their ids; option quotes are deleted once archived  *)
(* and calculated.  The folding of a table, every batch of its deletion,   *)
(* and every batch of quotes commits by itself, so an error or a crash     *)
(* leaves what is done done.  A commit that takes place and loses its      *)
(* answer is the error in front of the next step.                          *)
(* The scheduler waits for an answer before it posts again, so one         *)
(* maintenance is modelled.  Qualities, feeds and the component values are *)
(* left out: they are carried like the low value and like the close.       *)
(***************************************************************************)
EXTENDS Integers, Sequences, FiniteSets, FiniteSetsExt

CONSTANTS Writers,     \* calculations that can run at the same time
          Results,     \* rows a calculation can produce
          Outcomes,    \* the tables it produces them for
          None,        \* nothing there
          DayLength,   \* time units of a day
          MarketDays,  \* days with option quotes
          DueAt,       \* maintenance_time_utc, in units after midnight
          Retention,   \* detailed_retention_days
          OptionDays,  \* option_retention_days
          BatchSize,   \* rows deleted by one commit
          Archives,    \* values of option_archive_through, and None
          LastTime,    \* bound: the clock stops here
          MaxWrites,   \* bound: calculations begun
          MaxFaults    \* bound: crashes and errors

Tables == <<"svix", "custom">>
Names  == {"svix", "custom"}
Row    == [value: Int, estimated: BOOLEAN]

Times  == 0..LastTime
Day(t) == t \div DayLength
Days   == 0..Day(LastTime)

Daily == [open: Int, high: Int, low: Int, close: Int, estimated: BOOLEAN,
          samples: Nat, openAt: Times, closeAt: Times]

ASSUME RollupAssumption ==
  /\ Results \subseteq Row
  /\ Outcomes \subseteq (SUBSET Names) \ {{}}
  /\ None \notin Writers \cup Int /\ None \notin Row /\ None \notin Daily
  /\ None \in Archives /\ Archives \ {None} \subseteq Nat
  /\ {DayLength, BatchSize} \subseteq Nat \ {0} /\ DueAt \in 0..(DayLength - 1)
  /\ {Retention, OptionDays, LastTime, MaxWrites, MaxFaults} \subseteq Nat

VARIABLES
  now,
  history,   \* table -> timestamp -> row of svix_history or custom_index_history
  inserts,   \* table -> timestamp -> rows inserted for it: tells the ids apart
  daily,     \* table -> day -> row of svix_daily or custom_index_daily
  options,   \* the days with quotes in option_snapshot
  archive,   \* option_archive_through
  requested, \* the setting maintenance_requested
  doneOn,    \* day of the last COMPLETED row of data_maintenance_runs
  pc,        \* what the maintenance is about to do
  job,       \* its cutoffs, settings and table, ids to delete, days to delete
  writing,   \* writer -> what it has calculated and read, and not committed
  writes, faults,
  log,       \* ghost: table -> folds committed, each a function from time to row
  accepted,  \* ghost: table -> time -> the rows accepted for it
  raced,     \* ghost: rows replaced between their fold and their deletion
  again,     \* ghost: table -> time -> interruptions between fold and deletion
  cut        \* ghost: the days some of whose quotes have been deleted

seriesVars == <<history, inserts, daily, options>>
settings   == <<archive, requested>>
runVars    == <<doneOn, pc, job>>
ghosts     == <<log, accepted, raced, again, cut>>
vars       == <<now, seriesVars, settings, runVars, writing, writes, faults, ghosts>>

Steps == {"idle", "fold", "delete", "cleanup", "options", "complete", "failing", "clear"}

NoJob == [cutoff |-> 0, optionCutoff |-> 0, cleanup |-> FALSE, requested |-> FALSE,
          table |-> 1, ids |-> {}, days |-> {}]

Below(n, cutoff) == {t \in Times : t < cutoff /\ history[n][t] # None}

\* A new daily row, for the rows of one day.
Summary(n, ts) ==
  [open |-> history[n][Min(ts)].value,
   high |-> Max({history[n][t].value : t \in ts}),
   low |-> Min({history[n][t].value : t \in ts}),
   close |-> history[n][Max(ts)].value,
   estimated |-> history[n][Max(ts)].estimated,
   samples |-> Cardinality(ts), openAt |-> Min(ts), closeAt |-> Max(ts)]

\* Bug: the later open wins.
MergeReversed(old, new) ==
  LET closes == new.closeAt > old.closeAt
  IN  [open |-> IF new.openAt > old.openAt THEN new.open ELSE old.open,
       high |-> Max({old.high, new.high}),
       low |-> Min({old.low, new.low}),
       close |-> IF closes THEN new.close ELSE old.close,
       estimated |-> IF closes THEN new.estimated ELSE old.estimated,
       samples |-> old.samples + new.samples,
       openAt |-> Min({old.openAt, new.openAt}),
       closeAt |-> Max({old.closeAt, new.closeAt})]

\* More rows for a daily row that is there.
Merge(old, new) ==
  LET opens  == new.openAt < old.openAt
      closes == new.closeAt > old.closeAt
  IN  [open |-> IF opens THEN new.open ELSE old.open,
       high |-> Max({old.high, new.high}),
       low |-> Min({old.low, new.low}),
       close |-> IF closes THEN new.close ELSE old.close,
       estimated |-> IF closes THEN new.estimated ELSE old.estimated,
       samples |-> old.samples + new.samples,
       openAt |-> Min({old.openAt, new.openAt}),
       closeAt |-> Max({old.closeAt, new.closeAt})]

\* save and save_custom_result: an estimate does not replace a real value.  A row
\* that is there and says the same is left alone too: the mapper has nothing to write.
Accepts(n, t, row) ==
  \/ history[n][t] = None
  \/ history[n][t] # row /\ (history[n][t].estimated \/ ~ row.estimated)

\* An UPDATE sets the columns that differ from what was read.
Updated(old, read, new) ==
  [value |-> IF new.value # read.value THEN new.value ELSE old.value,
   estimated |-> IF new.estimated # read.estimated THEN new.estimated ELSE old.estimated]

Init ==
  /\ now = 0
  /\ history = [n \in Names |-> [t \in Times |-> None]]
  /\ inserts = [n \in Names |-> [t \in Times |-> 0]]
  /\ daily = [n \in Names |-> [d \in Days |-> None]]
  /\ options = {}
  /\ archive = None /\ requested = FALSE
  /\ doneOn = None
  /\ pc = "idle" /\ job = NoJob
  /\ writing = [w \in Writers |-> None]
  /\ writes = 0 /\ faults = 0
  /\ log = [n \in Names |-> <<>>]
  /\ accepted = [n \in Names |-> [t \in Times |-> <<>>]]
  /\ raced = {} /\ again = [n \in Names |-> [t \in Times |-> 0]] /\ cut = {}

-----------------------------------------------------------------------------
(* The writers.                                                            *)

\* A collection or a backfill stores quotes of day d.
Quotes(d) ==
  /\ d <= Day(now)
  /\ d \in MarketDays \ options
  /\ options' = options \cup {d}
  /\ UNCHANGED <<now, history, inserts, daily, settings, runVars, writing, writes, faults,
                 ghosts>>

\* calculate_svix reads the quotes of a day and calculates from them: the index
\* alone, custom indices alone, or both.  The time of a row is that of the last
\* quote it used.  The rows that are there for this time are read, and what is to be
\* inserted or changed is settled by them.
Calculate(w, t) ==
  /\ writing[w] = None
  /\ writes < MaxWrites
  /\ t <= now /\ Day(t) \in options
  /\ \E row \in Results, names \in Outcomes :
       writing' = [writing EXCEPT ![w] =
                     [at |-> t, row |-> row, names |-> {n \in names : Accepts(n, t, row)},
                      read |-> [n \in Names |-> history[n][t]],
                      id |-> [n \in Names |-> inserts[n][t]]]]
  /\ writes' = writes + 1
  /\ UNCHANGED <<now, seriesVars, settings, runVars, faults, ghosts>>

\* The rows of n that are folded and still to be deleted.
Pending(n) == IF pc = "delete" /\ Tables[job.table] = n THEN job.ids ELSE {}

\* Where a row was read, the very row is still there; where none was, none is yet: a
\* time is unique.
AsRead(w, n) ==
  LET t == writing[w].at IN
  IF writing[w].read[n] = None THEN history[n][t] = None
  ELSE history[n][t] # None /\ inserts[n][t] = writing[w].id[n]

\* What the commit leaves in n at the time of the result.
Written(w, n) ==
  LET work == writing[w] IN
  IF work.read[n] = None THEN work.row
  ELSE Updated(history[n][work.at], work.read[n], work.row)

\* Its one commit.  A row that is there is updated in place: it keeps its id.
Store(w) ==
  LET t == writing[w].at
      stored == writing[w].names
  IN
  /\ writing[w] # None
  /\ \A n \in stored : AsRead(w, n)
  /\ history' = [n \in Names |->
                   IF n \in stored THEN [history[n] EXCEPT ![t] = Written(w, n)]
                   ELSE history[n]]
  /\ inserts' = [n \in Names |->
                   IF n \in stored /\ writing[w].read[n] = None
                   THEN [inserts[n] EXCEPT ![t] = @ + 1] ELSE inserts[n]]
  /\ accepted' = [n \in Names |->
                    IF n \in stored THEN [accepted[n] EXCEPT ![t] = Append(@, Written(w, n))]
                    ELSE accepted[n]]
  /\ raced' = raced \cup {<<n, t>> : n \in {m \in stored : t \in Pending(m)}}
  /\ writing' = [writing EXCEPT ![w] = None]
  /\ UNCHANGED <<now, daily, options, settings, runVars, writes, faults, log, again, cut>>

\* It fails: always where Store cannot, on an UPDATE that finds no row or an INSERT
\* that finds one.
Discard(w) ==
  /\ writing[w] # None
  /\ writing' = [writing EXCEPT ![w] = None]
  /\ UNCHANGED <<now, seriesVars, settings, runVars, writes, faults, ghosts>>

-----------------------------------------------------------------------------
(* run_maintenance and run_data_maintenance.                               *)

\* force, or maintenance_due.
Due == requested \/ (now % DayLength >= DueAt /\ doneOn # Day(now))

\* The request and the policy are read and the RUNNING row is committed.
Begin ==
  /\ pc = "idle"
  /\ Due
  /\ \E downsample, cleanup \in BOOLEAN :
       /\ job' = [NoJob EXCEPT !.cutoff = now - Retention * DayLength,
                               !.optionCutoff = now - OptionDays * DayLength,
                               !.cleanup = cleanup, !.requested = requested]
       /\ pc' = IF downsample THEN "fold" ELSE "cleanup"
  /\ UNCHANGED <<now, seriesVars, settings, doneOn, writing, writes, faults, ghosts>>

\* The daily row of d with the rows of these times.
Upserted(n, d, ts) ==
  IF ts = {} THEN daily[n][d]
  ELSE IF daily[n][d] = None THEN Summary(n, ts)
  ELSE Merge(daily[n][d], Summary(n, ts))

\* The old rows of a table are read, folded day by day, and the daily rows committed.
Fold ==
  /\ pc = "fold"
  /\ LET n == Tables[job.table]
         rows == Below(n, job.cutoff)
     IN  /\ daily' = [daily EXCEPT ![n] =
                        [d \in Days |-> Upserted(n, d, {t \in rows : Day(t) = d})]]
         /\ job' = [job EXCEPT !.ids = rows]
         /\ log' = IF rows = {} THEN log
                   ELSE [log EXCEPT ![n] = Append(@, [t \in rows |-> history[n][t]])]
  /\ pc' = "delete"
  /\ UNCHANGED <<now, history, inserts, options, settings, doneOn, writing, writes, faults,
                 accepted, raced, again, cut>>

\* The next batch of ids, oldest first.
Batch(ids) == {t \in ids : Cardinality({i \in ids : i < t}) < BatchSize}

\* Bugs: a batch too few or too many is deleted, or a table too many is visited.
DeleteOf(batch, rest, tables) ==
  /\ pc = "delete"
  /\ LET n == Tables[job.table] IN
     /\ history' = [history EXCEPT ![n] = [t \in Times |-> IF t \in batch THEN None ELSE @[t]]]
     /\ IF rest # {}
        THEN pc' = pc /\ job' = [job EXCEPT !.ids = rest]
        ELSE /\ pc' = IF job.table < tables THEN "fold" ELSE "cleanup"
             /\ job' = [job EXCEPT !.ids = {},
                                   !.table = IF job.table < tables THEN @ + 1 ELSE @]
  /\ UNCHANGED <<now, inserts, daily, options, settings, doneOn, writing, writes, faults,
                 ghosts>>

DeleteOneBatch == DeleteOf(Batch(job.ids), {}, Len(Tables))
DeleteByTime   == DeleteOf({t \in Times : t <= job.cutoff}, {}, Len(Tables))
DeleteBeyond   == DeleteOf(Batch(job.ids), job.ids \ Batch(job.ids), Len(Tables) + 1)

\* _delete_ids_in_batches: one batch and its commit; after the last, the next table.
Delete ==
  /\ pc = "delete"
  /\ LET n == Tables[job.table]
         batch == Batch(job.ids)
         rest == job.ids \ batch
         last == job.table = Len(Tables)
     IN
     /\ history' = [history EXCEPT ![n] = [t \in Times |-> IF t \in batch THEN None ELSE @[t]]]
     /\ IF rest # {}
        THEN pc' = pc /\ job' = [job EXCEPT !.ids = rest]
        ELSE /\ pc' = IF last THEN "cleanup" ELSE "fold"
             /\ job' = [job EXCEPT !.ids = {}, !.table = IF last THEN @ ELSE @ + 1]
  /\ UNCHANGED <<now, inserts, daily, options, settings, doneOn, writing, writes, faults,
                 ghosts>>

\* Bug: the calculated value is not asked for.
CoveredAlways(d) == TRUE

\* covered_inputs: a calculated value for day d in one of the four tables.
Covered(d) ==
  \E n \in Names :
    daily[n][d] # None \/ \E t \in Times : Day(t) = d /\ history[n][t] # None

\* The watermark is read, and the days to delete are found: archived, over before
\* the cutoff, and covered.
Cleanup ==
  /\ pc = "cleanup"
  /\ LET days == {d \in Days : /\ job.cleanup /\ archive # None
                               /\ (d + 1) * DayLength <= job.optionCutoff
                               /\ d <= archive
                               /\ Covered(d)}
     IN  /\ job' = [job EXCEPT !.days = days]
         /\ pc' = IF days = {} THEN "complete" ELSE "options"
  /\ UNCHANGED <<now, seriesVars, settings, doneOn, writing, writes, faults, ghosts>>

\* One batch of the quotes of one of them and its commit: more are left, or it was
\* the last, or there was none.
DeleteQuotes(d) ==
  /\ pc = "options" /\ d \in job.days
  /\ cut' = cut \cup ({d} \cap options)
  /\ \/ d \in options /\ UNCHANGED <<options, job, pc>>
     \/ /\ options' = options \ {d}
        /\ job' = [job EXCEPT !.days = @ \ {d}]
        /\ pc' = IF job.days = {d} THEN "complete" ELSE pc
  /\ UNCHANGED <<now, history, inserts, daily, settings, doneOn, writing, writes, faults,
                 log, accepted, raced, again>>

\* The run is COMPLETED at the time it is now.
Complete ==
  /\ pc = "complete"
  /\ doneOn' = Day(now)
  /\ pc' = IF job.requested THEN "clear" ELSE "idle"
  /\ job' = NoJob
  /\ UNCHANGED <<now, seriesVars, settings, writing, writes, faults, ghosts>>

\* The request is taken off the settings, whether or not a new one came meanwhile.
Clear ==
  /\ pc = "clear"
  /\ requested' = FALSE
  /\ pc' = "idle"
  /\ UNCHANGED <<now, seriesVars, archive, doneOn, job, writing, writes, faults, ghosts>>

\* What is folded and not deleted will be folded again.
Interrupted ==
  again' = [n \in Names |-> [t \in Times |->
              again[n][t] + (IF t \in Pending(n) THEN 1 ELSE 0)]]

\* A statement or a commit raises.
Fails ==
  /\ pc \in {"fold", "delete", "cleanup", "options", "complete"}
  /\ faults < MaxFaults
  /\ faults' = faults + 1
  /\ Interrupted
  /\ pc' = "failing" /\ job' = NoJob
  /\ UNCHANGED <<now, seriesVars, settings, doneOn, writing, writes, log, accepted, raced,
                 cut>>

\* The run is FAILED; the exception leaves run_maintenance and the request stays.
RecordFailure ==
  /\ pc = "failing"
  /\ pc' = "idle"
  /\ UNCHANGED <<now, seriesVars, settings, doneOn, job, writing, writes, faults, ghosts>>

-----------------------------------------------------------------------------
(* The environment.                                                        *)

Tick ==
  /\ now < LastTime
  /\ now' = now + 1
  /\ UNCHANGED <<seriesVars, settings, runVars, writing, writes, faults, ghosts>>

\* run_lifecycle_now; asking again changes nothing.
Request ==
  /\ ~ requested
  /\ requested' = TRUE
  /\ UNCHANGED <<now, seriesVars, archive, runVars, writing, writes, faults, ghosts>>

\* A backup process records, or an operator removes, the archive watermark.
SetArchive ==
  /\ archive' \in Archives \ {archive}
  /\ UNCHANGED <<now, seriesVars, requested, runVars, writing, writes, faults, ghosts>>

\* The backend process ends.
Crash ==
  /\ faults < MaxFaults
  /\ faults' = faults + 1
  /\ Interrupted
  /\ pc' = "idle" /\ job' = NoJob
  /\ writing' = [w \in Writers |-> None]
  /\ UNCHANGED <<now, seriesVars, settings, doneOn, writes, log, accepted, raced, cut>>

Maintain ==
  \/ Begin \/ Fold \/ Delete \/ Cleanup \/ \E d \in Days : DeleteQuotes(d)
  \/ Complete \/ Clear \/ RecordFailure

Write(w) == (\E t \in Times : Calculate(w, t)) \/ Store(w) \/ Discard(w)

Next ==
  \/ Maintain
  \/ Fails \/ Crash
  \/ \E w \in Writers : Write(w)
  \/ \E d \in Days : Quotes(d)
  \/ Tick \/ Request \/ SetArchive

Spec == Init /\ [][Next]_vars

-----------------------------------------------------------------------------
(* Properties.                                                             *)

\* The types of the tables, the settings and the run: no row, id or day out of range.
TypeOK ==
  /\ now \in Times
  /\ \A n \in Names :
       /\ \A t \in Times : history[n][t] \in Row \cup {None} /\ inserts[n][t] \in Nat
       /\ \A d \in Days : daily[n][d] \in Daily \cup {None}
  /\ options \cup cut \cup job.days \subseteq Days /\ job.ids \subseteq Times
  /\ archive \in Archives /\ requested \in BOOLEAN
  /\ doneOn \in Days \cup {None}
  /\ pc \in Steps /\ job.table \in DOMAIN Tables
  /\ writes \in 0..MaxWrites /\ faults \in 0..MaxFaults

\* What one fold over all the rows ever folded for day d would have produced.  A
\* time folded twice opens and closes with the row folded first.
Folds(n, d)  == {k \in DOMAIN log[n] : \E t \in DOMAIN log[n][k] : Day(t) = d}
Rows(n, d)   == {e \in Folds(n, d) \X Times : e[2] \in DOMAIN log[n][e[1]] /\ Day(e[2]) = d}
First(n, t)  == log[n][Min({k \in DOMAIN log[n] : t \in DOMAIN log[n][k]})][t]

Aggregate(n, d) ==
  LET times  == {e[2] : e \in Rows(n, d)}
      values == {log[n][e[1]][e[2]].value : e \in Rows(n, d)}
  IN  [open |-> First(n, Min(times)).value, high |-> Max(values), low |-> Min(values),
       close |-> First(n, Max(times)).value, estimated |-> First(n, Max(times)).estimated,
       samples |-> Cardinality(Rows(n, d)), openAt |-> Min(times), closeAt |-> Max(times)]

\* However a day is split over maintenance runs, out of order, interrupted, failed
\* or repeated, its daily row is the aggregate of the rows folded for it.
DailyIsAggregate ==
  \A n \in Names, d \in Days :
    daily[n][d] = IF Folds(n, d) = {} THEN None ELSE Aggregate(n, d)

\* A stored sample is folded once, and once more for every run that was interrupted
\* after the fold and before the deletion of just this sample: batches that were
\* deleted before, other tables and failures at other places count nothing twice.
FoldedOncePerWrite ==
  \A n \in Names, t \in Times :
    LET folds == {k \in DOMAIN log[n] : t \in DOMAIN log[n][k]}
        live  == IF history[n][t] = None \/ t \in Pending(n) THEN 0 ELSE 1
    IN  Cardinality(folds) + live <= Len(accepted[n][t]) + again[n][t]

\* The last row accepted for a time is in the history or was folded, whatever fails
\* and whenever it was stored, unless it replaced a row already folded and not yet
\* deleted.
SamplesSurvive ==
  \A n \in Names, t \in Times :
    LET rows == accepted[n][t] IN
    rows # <<>> /\ <<n, t>> \notin raced =>
      \/ history[n][t] = rows[Len(rows)]
      \/ \E k \in DOMAIN log[n] : t \in DOMAIN log[n][k] /\ log[n][k][t] = rows[Len(rows)]

\* From the first batch of its quotes that is deleted, a day has a calculated value and
\* keeps it: whatever is interrupted, calculated again, folded or deleted later.
DeletedQuotesAreCovered ==
  \A d \in cut : \E n \in Names :
    daily[n][d] # None \/ \E t \in Times : Day(t) = d /\ history[n][t] # None

\* tasks.py calls its functions "Idempotent task functions": a maintenance that is
\* repeated after an interrupted one counts no row a second time.  Rows stored once
\* are enough to see it.
RepeatCountsNothingTwice ==
  \A n \in Names, d \in Days :
    (\A t \in Times : Len(accepted[n][t]) <= 1) /\ daily[n][d] # None
      => daily[n][d].samples <= Cardinality({e[2] : e \in Rows(n, d)})
=============================================================================
