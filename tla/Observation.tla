---------------------------- MODULE Observation ----------------------------
(***************************************************************************)
(* The intraday observations of the Python backend:                        *)
(* app/services/svix_observation.py (calculate_observation) and the end of *)
(* collect_market_data_task in app/scheduler/tasks.py that calls it.       *)
(*                                                                         *)
(* A finished collection is a batch: for each symbol the option quotes it  *)
(* saved.  calculate_observation turns a batch into one row per symbol,    *)
(* calculated from the batch (NEW) or taken from an earlier row (CACHED),  *)
(* and into an observation of the index and its components, and commits    *)
(* them together: one action.  A collection's run is closed before its     *)
(* batch is observed, so that the next collection can begin, and finish,   *)
(* while the calculation goes on: nothing orders the two.                  *)
(* Quotes are told apart by the minute they were taken.  Too old ones give *)
(* no volatility; those that give none for another reason count as not     *)
(* saved.  Whether a component of several symbols has a usable correlation *)
(* matrix is left open.  Weights are in hundredths.                        *)
(***************************************************************************)
EXTENDS Integers, Sequences, FiniteSets, FiniteSetsExt

CONSTANTS Symbols,       \* symbols quoted, of the six of Universe
          Missing,       \* sets of symbols a collection can fail to save
          Moves,         \* sets of symbols whose quotes can change together
          Matrices,      \* sets of values that can have a usable correlation matrix
          None,          \* nothing there
          Indicative,    \* TRUE: the account's feed is the indicative one
          CacheAge,      \* 10 minutes
          QuoteAge,      \* 15 minutes
          OldAge,        \* 5 minutes
          SessionLength, \* minutes of a trading session
          LastMinute,    \* bound: the clock stops here
          MaxBatches,    \* bound: batches collected
          MaxFaults,     \* bound: crashes, errors and lost answers
          MaxOverlaps    \* bound: collections finished beside an unobserved batch

Weight == [SOXX |-> 50, MU |-> 15, SKHY |-> 15, NVDA |-> 10, AMD |-> 5, AVGO |-> 5]
Universe == DOMAIN Weight
Groups == [core |-> {"SOXX"}, memory |-> {"MU", "SKHY"}, ai |-> {"NVDA", "AMD", "AVGO"}]
Values == {"svix", "core", "memory", "ai"}
MinCoverage == 70

Minutes == 0..LastMinute
Calculations == {"PENDING", "NO_VALID_DATA", "NO_NEW_DATA", "COMPLETED", "PARTIAL", "FAILED"}
Statuses == {"NEW", "CACHED", "UNCHANGED_QUOTES", "NO_BATCH_QUOTES", "REJECTED"}
Finals == {"NO_VALID_DATA", "CACHED", "OLD_QUOTES", "PARTIAL_COVERAGE", "FREE_ESTIMATE",
           "ESTIMATE"}

\* A row of svix_asset_observations and one of svix_observations.
Row      == [status: Statuses, at: Minutes \cup {None}, from: (1..MaxBatches) \cup {None}]
Observed == [values: SUBSET Values, status: Finals, coverage: 0..100]

ASSUME ObservationAssumption ==
  /\ Symbols \subseteq Universe
  /\ Missing \subseteq SUBSET Symbols
  /\ Moves \subseteq SUBSET Symbols /\ Matrices \subseteq SUBSET Values
  /\ Indicative \in BOOLEAN
  /\ None \notin Int /\ None \notin [Symbols -> Row] /\ None \notin Observed
  /\ {CacheAge, QuoteAge, OldAge, LastMinute, MaxBatches, MaxFaults, MaxOverlaps} \subseteq Nat
  /\ SessionLength \in Nat \ {0}

VARIABLES
  now,
  market,       \* symbol -> the minute its quotes at the exchange were taken
  batches,      \* finished rows of market_collection_runs
  assets,       \* batch -> symbol -> row of svix_asset_observations
  observations, \* batch -> row of svix_observations
  waiting,      \* batches not observed yet
  failing,      \* batches whose calculation raised
  unsure,       \* ghost: batches whose commit took place without an answer
  faults, overlaps

tables == <<batches, assets, observations>>
counts == <<faults, overlaps>>
vars   == <<now, market, tables, waiting, failing, unsure, counts>>

Init ==
  /\ now = 0
  /\ market = [s \in Symbols |-> 0]
  /\ batches = <<>> /\ assets = <<>> /\ observations = <<>>
  /\ waiting = {} /\ failing = {} /\ unsure = {}
  /\ faults = 0 /\ overlaps = 0

-----------------------------------------------------------------------------
(* _calculate_asset and the choice between the batch and an earlier row.   *)

\* _calculate_asset for the quotes a batch saved, None without any; all its reasons
\* to give no volatility are REJECTED.
Current(at, valuation) ==
  IF at = None THEN "NO_BATCH_QUOTES"
  ELSE IF valuation - at \in 0..QuoteAge THEN "NEW" ELSE "REJECTED"

\* Bug: a cached row can be cached again.
EarlierCached(b, s) ==
  {i \in DOMAIN batches : /\ assets[i] # None /\ assets[i][s].status \in {"NEW", "CACHED"}
                          /\ batches[i].session = batches[b].session
                          /\ batches[i].finished < batches[b].finished}

\* The latest batch of the session, finished before b, with a NEW row of s.
Earlier(b, s) ==
  {i \in DOMAIN batches : /\ assets[i] # None /\ assets[i][s].status = "NEW"
                          /\ batches[i].session = batches[b].session
                          /\ batches[i].finished < batches[b].finished}

Prior(b, s) ==
  CHOOSE i \in Earlier(b, s) : \A j \in Earlier(b, s) : batches[j].finished <= batches[i].finished

\* Bug: quotes seen before are NEW again.
AssetRowRepeated(b, s) ==
  LET status == Current(batches[b].quotes[s], batches[b].finished) IN
  [status |-> status, at |-> IF status = "NEW" THEN batches[b].quotes[s] ELSE None,
   from |-> IF status = "NEW" THEN b ELSE None]

\* The row of s for batch b.  at is oldest_input_at, from the source batch.
AssetRow(b, s) ==
  LET valuation == batches[b].finished
      at        == batches[b].quotes[s]
      found     == Earlier(b, s) # {}
      prior     == Prior(b, s)
      seen      == assets[prior][s].at
      status    == IF Current(at, valuation) = "NEW" /\ found /\ seen = at
                   THEN "UNCHANGED_QUOTES" ELSE Current(at, valuation)
      reusable  == /\ found
                   /\ valuation - batches[prior].finished \in 0..CacheAge
                   /\ valuation - seen \in 0..QuoteAge
  IN  IF status = "NEW" THEN [status |-> "NEW", at |-> at, from |-> b]
      ELSE IF reusable THEN [status |-> "CACHED", at |-> seen, from |-> prior]
      ELSE [status |-> status, at |-> None, from |-> None]

Priced(rows) == {s \in Symbols : rows[s].status \in {"NEW", "CACHED"}}
Coverage(ss) == MapThenSumSet(LAMBDA s : Weight[s], ss)

\* The priced symbols a value is calculated from.
Members(v, priced) == priced \cap (IF v = "svix" THEN Universe ELSE Groups[v])

\* _component for each value: one symbol needs no correlation matrix, several
\* do; usable are the values that have one.
Several(priced) == {v \in Values : Cardinality(Members(v, priced)) > 1}
Available(priced, usable) ==
  {v \in Values :
     /\ Members(v, priced) # {}
     /\ v \in Several(priced) => v \in usable
     /\ v = "svix" => "SOXX" \in priced /\ Coverage(priced) >= MinCoverage}

FinalStatus(rows, valuation, available) ==
  LET priced == Priced(rows) IN
  CASE available = {} -> "NO_VALID_DATA"
    [] \E s \in priced : rows[s].status = "CACHED" -> "CACHED"
    [] \E s \in priced : valuation - rows[s].at > OldAge -> "OLD_QUOTES"
    [] Coverage(priced) < 100 -> "PARTIAL_COVERAGE"
    [] OTHER -> IF Indicative THEN "FREE_ESTIMATE" ELSE "ESTIMATE"

-----------------------------------------------------------------------------
(* collect_market_data_task: the batch is finished, then observed.         *)

\* The commit that closes the run of a collection.  A collection that saved no
\* quotes is not observed.
Finish ==
  /\ Len(batches) < MaxBatches
  /\ overlaps' = overlaps + (IF waiting \cup failing = {} THEN 0 ELSE 1)
  /\ overlaps' <= MaxOverlaps
  /\ \A i \in DOMAIN batches : batches[i].finished < now
  /\ \E missing \in Missing :
       /\ batches' = Append(batches,
            [finished |-> now, session |-> now \div SessionLength,
             quotes |-> [s \in Symbols |-> IF s \in missing THEN None ELSE market[s]],
             calculation |-> IF missing = Symbols THEN "NO_VALID_DATA" ELSE "PENDING"])
       /\ waiting' = IF missing = Symbols THEN waiting ELSE waiting \cup {Len(batches) + 1}
  /\ assets' = Append(assets, None) /\ observations' = Append(observations, None)
  /\ UNCHANGED <<now, market, failing, unsure, faults>>

\* new_count = 0.
NothingNew(rows) == \A s \in Symbols : rows[s].status # "NEW"

\* What calculate_observation commits.  With rows of the batch already there it would
\* return before any write; the task calls it once for a batch.
Record(b) ==
  LET rows == [s \in Symbols |-> AssetRow(b, s)]
      priced == Priced(rows)
  IN
  /\ assets[b] = None
  /\ assets' = [assets EXCEPT ![b] = rows]
  /\ IF NothingNew(rows)
     THEN /\ observations' = observations
          /\ batches' = [batches EXCEPT ![b].calculation = "NO_NEW_DATA"]
     ELSE \E usable \in Matrices :
            LET available == Available(priced, usable) IN
            /\ observations' = [observations EXCEPT ![b] =
                 [values |-> available, coverage |-> Coverage(priced),
                  status |-> FinalStatus(rows, batches[b].finished, available)]]
            /\ batches' = [batches EXCEPT ![b].calculation =
                 IF available = Values THEN "COMPLETED" ELSE "PARTIAL"]

Observe(b) ==
  /\ b \in waiting
  /\ Record(b)
  /\ waiting' = waiting \ {b}
  /\ UNCHANGED <<now, market, failing, unsure, counts>>

\* It commits and the answer is lost.
ObserveUnacknowledged(b) ==
  /\ b \in waiting
  /\ faults < MaxFaults
  /\ Record(b)
  /\ waiting' = waiting \ {b} /\ failing' = failing \cup {b} /\ unsure' = unsure \cup {b}
  /\ faults' = faults + 1
  /\ UNCHANGED <<now, market, overlaps>>

\* Bug: the asset rows are committed by themselves before the error.
ObserveHalf(b) ==
  /\ b \in waiting
  /\ faults < MaxFaults
  /\ assets' = [assets EXCEPT ![b] = [s \in Symbols |-> AssetRow(b, s)]]
  /\ waiting' = waiting \ {b} /\ failing' = failing \cup {b}
  /\ faults' = faults + 1
  /\ UNCHANGED <<now, market, batches, observations, unsure, overlaps>>

\* It raises before the commit: its session is closed, which rolls back.
ObserveFails(b) ==
  /\ b \in waiting
  /\ faults < MaxFaults
  /\ waiting' = waiting \ {b} /\ failing' = failing \cup {b}
  /\ faults' = faults + 1
  /\ UNCHANGED <<now, market, tables, unsure, overlaps>>

\* Bug: a status nothing else knows.
RecordReworded(b) ==
  /\ b \in failing
  /\ batches' = [batches EXCEPT ![b].calculation = "ERROR"]
  /\ failing' = failing \ {b}
  /\ UNCHANGED <<now, market, assets, observations, waiting, unsure, counts>>

\* The task marks the calculation FAILED after an error, whatever was committed.
RecordFailure(b) ==
  /\ b \in failing
  /\ batches' = [batches EXCEPT ![b].calculation = "FAILED"]
  /\ failing' = failing \ {b}
  /\ UNCHANGED <<now, market, assets, observations, waiting, unsure, counts>>

-----------------------------------------------------------------------------
(* The environment.                                                        *)

\* The quotes of some symbols change at the exchange; after the last batch nobody
\* looks.
Trade(moved) ==
  /\ \E s \in moved : market[s] # now
  /\ Len(batches) < MaxBatches
  /\ market' = [s \in Symbols |-> IF s \in moved THEN now ELSE market[s]]
  /\ UNCHANGED <<now, tables, waiting, failing, unsure, counts>>

Tick ==
  /\ now < LastMinute
  /\ now' = now + 1
  /\ UNCHANGED <<market, tables, waiting, failing, unsure, counts>>

\* The backend process ends: what its collections had left to do is not done.
Crash ==
  /\ faults < MaxFaults
  /\ waiting \cup failing # {}
  /\ faults' = faults + 1
  /\ waiting' = {} /\ failing' = {}
  /\ UNCHANGED <<now, market, tables, unsure, overlaps>>

Next ==
  \/ Finish
  \/ \E b \in DOMAIN batches : \/ Observe(b) \/ ObserveUnacknowledged(b) \/ ObserveFails(b)
                               \/ RecordFailure(b)
  \/ \E moved \in Moves : Trade(moved)
  \/ Tick \/ Crash

Spec == Init /\ [][Next]_vars

-----------------------------------------------------------------------------
(* Properties.                                                             *)

\* The types of the batches, of the rows of their symbols and of their observations.
TypeOK ==
  /\ now \in Minutes
  /\ market \in [Symbols -> Minutes]
  /\ Len(batches) <= MaxBatches
  /\ Len(assets) = Len(batches) /\ Len(observations) = Len(batches)
  /\ \A b \in DOMAIN batches :
       /\ batches[b].finished \in Minutes /\ batches[b].calculation \in Calculations
       /\ batches[b].quotes \in [Symbols -> Minutes \cup {None}]
       /\ assets[b] # None => assets[b] \in [Symbols -> Row]
       /\ observations[b] # None => observations[b] \in Observed
  /\ waiting \cup failing \cup unsure \subseteq DOMAIN batches
  /\ faults \in 0..MaxFaults /\ overlaps \in 0..MaxOverlaps

Uses(b, s) == assets[b] # None /\ s \in Priced(assets[b])

\* Inputs age across batches, not only inside one: however quotes come, go, repeat
\* or are rejected, all the rows of a session that rest on the same quotes of a
\* symbol lie within CacheAge of the first, only that one is NEW, and none uses
\* quotes older than QuoteAge.  A collection that finishes before the batch of the
\* one before it is observed breaks it.
InputLifetime ==
  overlaps = 0 =>
    \A b, c \in DOMAIN batches, s \in Symbols :
      Uses(b, s) /\ Uses(c, s) /\ assets[b][s].at = assets[c][s].at
        /\ batches[b].session = batches[c].session /\ b < c
      => /\ batches[c].finished - batches[b].finished <= CacheAge
         /\ batches[c].finished - assets[c][s].at <= QuoteAge
         /\ assets[c][s].status = "CACHED"

\* A cached row repeats, for the same session, quotes its source batch really
\* saved: it names the batch they came with, not a batch that cached them too,
\* even when collections overlap.
CachedRowsAreTraceable ==
  \A b \in DOMAIN batches, s \in Symbols :
    Uses(b, s) =>
      LET source == assets[b][s].from IN
      /\ assets[source][s].status = "NEW"
      /\ batches[source].quotes[s] = assets[b][s].at
      /\ batches[source].session = batches[b].session
      /\ batches[source].finished <= batches[b].finished

\* calculation_status tells what was committed, through errors and crashes: nothing
\* while PENDING or NO_VALID_DATA, nothing on FAILED unless the answer to the commit
\* was lost, an observation for COMPLETED and PARTIAL and none for NO_NEW_DATA.
CalculationAgrees ==
  \A b \in DOMAIN batches :
    LET calculation == batches[b].calculation IN
    /\ (assets[b] = None) <=> \/ calculation \in {"PENDING", "NO_VALID_DATA"}
                              \/ calculation = "FAILED" /\ b \notin unsure
    /\ calculation \in {"COMPLETED", "PARTIAL"} => observations[b] # None
    /\ calculation = "NO_NEW_DATA" => observations[b] = None
    /\ observations[b] # None /\ calculation = "COMPLETED" => observations[b].values = Values
=============================================================================
