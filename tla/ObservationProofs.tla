------------------------- MODULE ObservationProofs -------------------------
(***************************************************************************)
(* What the observations of the Python backend rest on, for any symbols,   *)
(* collections, moves of the market, ages and overlaps.                    *)
(***************************************************************************)
EXTENDS Observation, FiniteSetTheorems, WellFoundedInduction, TLAPS

Batch == [finished : Minutes, session : Int, quotes : [Symbols -> Minutes \cup {None}],
          calculation : Calculations]

\* Types of the tables, and of what is left to do.
Shape ==
  /\ now \in Minutes /\ market \in [Symbols -> Minutes]
  /\ batches \in Seq(Batch) /\ Len(batches) <= MaxBatches
  /\ assets \in Seq([Symbols -> Row] \cup {None}) /\ Len(assets) = Len(batches)
  /\ observations \in Seq(Observed \cup {None}) /\ Len(observations) = Len(batches)
  /\ waiting \cup failing \cup unsure \subseteq DOMAIN batches
  /\ faults \in 0..MaxFaults /\ overlaps \in 0..MaxOverlaps

\* Batches are numbered as they finish, and the quotes of a symbol only get newer.
Ordered ==
  /\ \A s \in Symbols : market[s] <= now
  /\ \A b \in DOMAIN batches :
       /\ batches[b].finished <= now
       /\ \A s \in Symbols : batches[b].quotes[s] # None => batches[b].quotes[s] <= market[s]
  /\ \A b, c \in DOMAIN batches : b < c =>
       /\ batches[b].finished < batches[c].finished
       /\ \A s \in Symbols :
            batches[b].quotes[s] # None /\ batches[c].quotes[s] # None
              => batches[b].quotes[s] <= batches[c].quotes[s]

\* Without overlaps, only the last batch can be unobserved.
InTurn == overlaps = 0 => waiting \cup failing \subseteq {Len(batches)}

\* A batch that waits has no rows; one whose calculation raised has rows only if the
\* answer to their commit was lost; an observation is not there without its rows.
Untouched ==
  /\ waiting \cap failing = {}
  /\ \A b \in waiting : assets[b] = None /\ b \notin unsure
  /\ \A b \in failing : assets[b] = None <=> b \notin unsure
  /\ \A b \in DOMAIN batches : assets[b] = None => observations[b] = None

\* A priced row rests on quotes a batch of the session really saved.
Traced(b, s) ==
  Uses(b, s) =>
    LET row == assets[b][s] IN
    /\ row.from \in 1..b /\ row.at \in Minutes
    /\ row.from = b <=> row.status = "NEW"
    /\ Uses(row.from, s) /\ assets[row.from][s].status = "NEW"
    /\ batches[row.from].quotes[s] = row.at
    /\ batches[row.from].session = batches[b].session

IInv ==
  /\ Shape /\ Ordered /\ InTurn /\ Untouched
  /\ \A b \in DOMAIN batches, s \in Symbols : Traced(b, s)
  /\ InputLifetime /\ CalculationAgrees

-----------------------------------------------------------------------------
(* The earlier batches, and the rows taken from them.                      *)

\* A bounded set of numbers that is not empty has a largest one.
LEMMA LargestIn ==
  ASSUME NEW n \in Nat, NEW S \in SUBSET (1..n), S # {}
  PROVE  \E m \in S : \A x \in S : x <= m
  <1> DEFINE T == {n - x : x \in S}
  <1>0. S \subseteq Int /\ \A x \in S : x \in Int /\ x <= n
    OBVIOUS
  <1>1. T \subseteq Nat /\ T # {}
    <2>1. \A x \in S : n - x \in Nat
      BY <1>0
    <2>2. PICK x : x \in S
      OBVIOUS
    <2>3. n - x \in T
      BY <2>2
    <2> QED
      BY <2>1, <2>3
  <1>2. IsWellFoundedOn(OpToRel(<, Nat), Nat)
    BY NatLessThanWellFounded
  <1>3. PICK y \in T : \A z \in T : ~ (<<z, y>> \in OpToRel(<, Nat))
    <2> HIDE DEF T
    <2> QED
      BY <1>1, <1>2, WFMin
  <1>4. PICK m \in S : y = n - m
    OBVIOUS
  <1>5. ASSUME NEW x \in S PROVE x <= m
    <2>1. n - x \in T /\ n - x \in Nat /\ y \in Nat
      BY <1>1
    <2> HIDE DEF T
    <2>2. ~ (n - x < y)
      BY <1>3, <2>1 DEF OpToRel
    <2> QED
      BY <1>0, <1>4, <2>2
  <1> QED
    BY <1>5

\* The latest of the earlier batches is chosen among them, when there are any.
LEMMA PriorIsLatest ==
  ASSUME Shape, Ordered, NEW b \in DOMAIN batches, NEW s, Earlier(b, s) # {}
  PROVE  /\ Prior(b, s) \in Earlier(b, s) /\ Prior(b, s) \in DOMAIN batches
         /\ \A j \in Earlier(b, s) : j <= Prior(b, s)
  <1> DEFINE E == Earlier(b, s)
             n == Len(batches)
             latest(i) == \A j \in E : batches[j].finished <= batches[i].finished
  <1>1. n \in Nat /\ DOMAIN batches = 1..n /\ E \in SUBSET (1..n) /\ E # {}
    BY DEF Shape, Earlier
  <1>2. \A i, j \in 1..n : /\ batches[i].finished \in Int
                           /\ i < j => batches[i].finished < batches[j].finished
    <2>1. \A i \in 1..n : batches[i] \in Batch
      BY <1>1 DEF Shape
    <2>2. \A i \in 1..n : batches[i].finished \in Int
      BY <2>1 DEF Batch, Minutes
    <2> QED
      BY <1>1, <2>2 DEF Ordered
  <1>3. PICK m \in E : \A x \in E : x <= m
    <2> HIDE DEF E, n
    <2> QED
      BY <1>1, LargestIn
  <1>4. m \in 1..n /\ m \in Int
    BY <1>1
  <1>5. latest(m)
    <2> SUFFICES ASSUME NEW j \in E PROVE batches[j].finished <= batches[m].finished
      OBVIOUS
    <2>1. j \in 1..n /\ j <= m
      BY <1>1, <1>3
    <2> HIDE DEF E, n
    <2> QED
      BY <1>2, <1>4, <2>1
  <1>6. Prior(b, s) \in E /\ latest(Prior(b, s))
    <2>1. Prior(b, s) = CHOOSE i \in E : latest(i)
      BY DEF Prior
    <2> HIDE DEF E, latest
    <2> QED
      BY <1>5, <2>1
  <1>7. Prior(b, s) \in 1..n
    BY <1>1, <1>6
  <1>8. ASSUME NEW j \in E PROVE j <= Prior(b, s)
    <2>1. j \in 1..n /\ batches[j].finished <= batches[Prior(b, s)].finished
      BY <1>1, <1>6
    <2> HIDE DEF E, n
    <2>2. ~ (Prior(b, s) < j)
      BY <1>2, <1>7, <2>1
    <2> QED
      BY <1>7, <2>1, <2>2
  <1> QED
    BY <1>1, <1>6, <1>7, <1>8

\* What the row of a symbol is: new, with quotes other than those of the last new
\* row; taken from that row, and not too old; or neither.
NewRow(b, s, row) ==
  /\ row = [status |-> "NEW", at |-> batches[b].quotes[s], from |-> b]
  /\ batches[b].quotes[s] # None
  /\ Earlier(b, s) # {} => assets[Prior(b, s)][s].at # batches[b].quotes[s]

CachedRow(b, s, row) ==
  LET prior == Prior(b, s) IN
  /\ Earlier(b, s) # {}
  /\ row = [status |-> "CACHED", at |-> assets[prior][s].at, from |-> prior]
  /\ batches[b].finished - batches[prior].finished \in 0..CacheAge
  /\ batches[b].finished - row.at \in 0..QuoteAge

EmptyRow(row) ==
  /\ row.status \in Statuses \ {"NEW", "CACHED"}
  /\ row = [status |-> row.status, at |-> None, from |-> None]

LEMMA RowCases ==
  ASSUME NEW b, NEW s
  PROVE  LET row == AssetRow(b, s) IN
         NewRow(b, s, row) \/ CachedRow(b, s, row) \/ EmptyRow(row)
  <1> DEFINE at == batches[b].quotes[s]
             current == Current(at, batches[b].finished)
  <1>1. /\ current \in {"NEW", "REJECTED", "NO_BATCH_QUOTES"}
        /\ current = "NEW" => at # None
    BY DEF Current
  <1> HIDE DEF current, at
  <1> QED
    BY <1>1 DEF AssetRow, NewRow, CachedRow, EmptyRow, Statuses, current, at

-----------------------------------------------------------------------------
(* Coverage.                                                               *)

\* The library's sum over a set is the function of its subsets that takes an element
\* off at a time.
Pick(t) == CHOOSE y \in t : TRUE
Sums(w, h, S) ==
  w = [t \in SUBSET S |-> IF t = {} THEN 0 ELSE h[Pick(t)] + w[t \ {Pick(t)}]]

LEMMA SumIs ==
  ASSUME NEW h, NEW S
  PROVE  MapThenSumSet(LAMBDA s : h[s], S) = (CHOOSE w : Sums(w, h, S))[S]
  BY DEF MapThenSumSet, MapThenFoldSet, Sums, Pick

\* There is one such function for a finite set: a smallest subset where two
\* differ would be one element more than one where they agree.
LEMMA SumsUnique ==
  ASSUME NEW S, IsFiniteSet(S), NEW h, NEW w, NEW v, Sums(w, h, S), Sums(v, h, S)
  PROVE  w = v
  <1> DEFINE T == {t \in SUBSET S : w[t] # v[t]}
  <1>1. ASSUME T # {} PROVE FALSE
    <2>1. T \subseteq FiniteSubsetsOf(S)
      <3> SUFFICES ASSUME NEW t \in T PROVE t \in SUBSET S /\ IsFiniteSet(t)
        BY DEF FiniteSubsetsOf
      <3> QED
        BY FS_Subset
    <2>2. IsWellFoundedOn(StrictSubsetOrdering(S), FiniteSubsetsOf(S))
      BY FS_StrictSubsetOrderingWellFounded
    <2>3. PICK t \in T : \A u \in T : ~ (<<u, t>> \in StrictSubsetOrdering(S))
      <3> HIDE DEF T
      <3> QED
        BY <1>1, <2>1, <2>2, WFMin
    <2>4. t \in SUBSET S /\ w[t] # v[t]
      OBVIOUS
    <2> DEFINE u == t \ {Pick(t)}
    <2>5. /\ w[t] = IF t = {} THEN 0 ELSE h[Pick(t)] + w[u]
          /\ v[t] = IF t = {} THEN 0 ELSE h[Pick(t)] + v[u]
      BY <2>4 DEF Sums
    <2>6. t # {} /\ w[u] # v[u]
      BY <2>4, <2>5
    <2>7. Pick(t) \in t
      BY <2>6 DEF Pick
    <2>8. u \in T /\ u \in SUBSET S /\ u # t /\ u \subseteq t
      BY <2>4, <2>6, <2>7
    <2> HIDE DEF T, u
    <2>9. <<u, t>> \in StrictSubsetOrdering(S)
      BY <2>4, <2>8 DEF StrictSubsetOrdering
    <2> QED
      BY <2>3, <2>8, <2>9
  <1>2. \A t \in SUBSET S : w[t] = v[t]
    BY <1>1
  <1> QED
    <2>1. w = [t \in SUBSET S |-> w[t]] /\ v = [t \in SUBSET S |-> v[t]]
      BY DEF Sums
    <2> QED
      BY <1>2, <2>1, Zenon

\* The coverage of any priced symbols is a percentage.
LEMMA CoverageInRange ==
  ASSUME NEW S \in SUBSET Universe
  PROVE  Coverage(S) \in 0..100
  <1> DEFINE C(s, t) == IF s \in t THEN Weight[s] ELSE 0
             total(t) == C("SOXX", t) + C("MU", t) + C("SKHY", t) + C("NVDA", t)
                         + C("AMD", t) + C("AVGO", t)
             w == [t \in SUBSET S |-> total(t)]
  <1>1. /\ Universe = {"SOXX", "MU", "SKHY", "NVDA", "AMD", "AVGO"}
        /\ Weight["SOXX"] = 50 /\ Weight["MU"] = 15 /\ Weight["SKHY"] = 15
        /\ Weight["NVDA"] = 10 /\ Weight["AMD"] = 5 /\ Weight["AVGO"] = 5
    BY DEF Universe, Weight
  <1>2. IsFiniteSet(S)
    <2>1. \A s, u, v : IsFiniteSet(({s} \cup {u}) \cup {v})
      BY FS_Singleton, FS_Union
    <2>2. IsFiniteSet(((({"SOXX"} \cup {"MU"}) \cup {"SKHY"})
                       \cup (({"NVDA"} \cup {"AMD"}) \cup {"AVGO"})))
      BY <2>1, FS_Union
    <2>3. Universe = (({"SOXX"} \cup {"MU"}) \cup {"SKHY"})
                     \cup (({"NVDA"} \cup {"AMD"}) \cup {"AVGO"})
      BY <1>1
    <2> QED
      BY <2>2, <2>3, FS_Subset
  <1>3. \A t \in SUBSET S : total(t) \in 0..100
    BY <1>1
  <1>4. ASSUME NEW t \in SUBSET S, NEW p \in t
        PROVE  total(t) = Weight[p] + total(t \ {p})
    <2>1. p \in {"SOXX", "MU", "SKHY", "NVDA", "AMD", "AVGO"}
      BY <1>1
    <2>2. \A s : s # p => C(s, t) = C(s, t \ {p})
      OBVIOUS
    <2>3. C(p, t) = Weight[p] /\ C(p, t \ {p}) = 0
      OBVIOUS
    <2>4. \A s \in {"SOXX", "MU", "SKHY", "NVDA", "AMD", "AVGO"} :
             C(s, t) \in Int /\ C(s, t \ {p}) \in Int
      BY <1>1
    <2> HIDE DEF C
    <2> QED
      BY <2>1, <2>2, <2>3, <2>4
  <1>5. total({}) = 0
    OBVIOUS
  <1> HIDE DEF C, total
  <1>6. Sums(w, Weight, S)
    <2> SUFFICES ASSUME NEW t \in SUBSET S
                 PROVE  w[t] = IF t = {} THEN 0 ELSE Weight[Pick(t)] + w[t \ {Pick(t)}]
      BY DEF Sums
    <2>1. CASE t = {}
      BY <1>5, <2>1
    <2>2. CASE t # {}
      <3>1. Pick(t) \in t
        BY <2>2 DEF Pick
      <3> QED
        BY <1>4, <2>2, <3>1
    <2> QED
      BY <2>1, <2>2
  <1>7. (CHOOSE v : Sums(v, Weight, S)) = w
    <2> HIDE DEF w
    <2>1. Sums(CHOOSE v : Sums(v, Weight, S), Weight, S)
      BY <1>6
    <2> QED
      BY <1>2, <1>6, <2>1, SumsUnique
  <1>8. Coverage(S) = w[S]
    BY <1>7, SumIs DEF Coverage
  <1> QED
    BY <1>3, <1>8

-----------------------------------------------------------------------------
(* The steps.                                                              *)

\* Every step but a commit leaves the rows alone, and what the batches saved.
Grown ==
  /\ DOMAIN batches \subseteq DOMAIN batches'
  /\ \A i \in DOMAIN batches :
       /\ assets'[i] = assets[i]
       /\ batches'[i].finished = batches[i].finished
       /\ batches'[i].session = batches[i].session
       /\ batches'[i].quotes = batches[i].quotes
  /\ \A i \in DOMAIN batches' : assets'[i] # None => i \in DOMAIN batches

LEMMA TracedKept ==
  ASSUME Shape, Grown, \A b \in DOMAIN batches, s \in Symbols : Traced(b, s)
  PROVE  \A b \in DOMAIN batches', s \in Symbols : Traced(b, s)'
  <1> SUFFICES ASSUME NEW b \in DOMAIN batches', NEW s \in Symbols, Uses(b, s)'
               PROVE  Traced(b, s)'
    BY DEF Traced
  <1>1. b \in DOMAIN batches /\ Uses(b, s) /\ assets'[b] = assets[b]
    BY DEF Grown, Uses, Priced
  <1>0. PICK i : i = assets[b][s].from
    OBVIOUS
  <1>2. /\ i \in 1..b /\ assets[b][s].at \in Minutes
        /\ i = b <=> assets[b][s].status = "NEW"
        /\ Uses(i, s) /\ assets[i][s].status = "NEW"
        /\ batches[i].quotes[s] = assets[b][s].at
        /\ batches[i].session = batches[b].session
    BY <1>0, <1>1 DEF Traced
  <1>3. i \in DOMAIN batches
    BY <1>1, <1>2 DEF Shape
  <1>4. Uses(i, s)' /\ assets'[i] = assets[i]
    BY <1>2, <1>3 DEF Grown, Uses, Priced
  <1>5. i = assets'[b][s].from
    BY <1>0, <1>1
  <1> QED
    BY <1>1, <1>2, <1>3, <1>4, <1>5 DEF Traced, Grown

LEMMA LifetimeKept ==
  ASSUME Grown, overlaps' = 0 => overlaps = 0, InputLifetime
  PROVE  InputLifetime'
  <1> SUFFICES ASSUME overlaps = 0,
                      NEW b \in DOMAIN batches', NEW c \in DOMAIN batches', NEW s \in Symbols,
                      Uses(b, s)', Uses(c, s)', assets'[b][s].at = assets'[c][s].at,
                      batches'[b].session = batches'[c].session, b < c
               PROVE  /\ batches'[c].finished - batches'[b].finished <= CacheAge
                      /\ batches'[c].finished - assets'[c][s].at <= QuoteAge
                      /\ assets'[c][s].status = "CACHED"
    BY DEF InputLifetime
  <1>1. /\ b \in DOMAIN batches /\ Uses(b, s) /\ assets'[b] = assets[b]
        /\ c \in DOMAIN batches /\ Uses(c, s) /\ assets'[c] = assets[c]
    BY DEF Grown, Uses, Priced
  <1>2. /\ batches'[b].finished = batches[b].finished /\ batches'[b].session = batches[b].session
        /\ batches'[c].finished = batches[c].finished /\ batches'[c].session = batches[c].session
    BY <1>1 DEF Grown
  <1> QED
    BY <1>1, <1>2 DEF InputLifetime

\* What a commit writes.
Recorded(b, rows, seen, calculation) ==
  /\ b \in DOMAIN batches /\ assets[b] = None
  /\ rows \in [Symbols -> Row] /\ \A s \in Symbols : rows[s] = AssetRow(b, s)
  /\ assets' = [assets EXCEPT ![b] = rows]
  /\ observations' = [observations EXCEPT ![b] = seen]
  /\ batches' = [batches EXCEPT ![b].calculation = calculation]
  /\ \/ calculation = "NO_NEW_DATA" /\ seen = None
     \/ /\ calculation \in {"COMPLETED", "PARTIAL"} /\ seen \in Observed
        /\ calculation = "COMPLETED" => seen.values = Values

LEMMA EarlierRow ==
  ASSUME Shape, Ordered, \A i \in DOMAIN batches, s \in Symbols : Traced(i, s),
         NEW b \in DOMAIN batches, NEW s \in Symbols, NEW i \in Earlier(b, s)
  PROVE  /\ i \in DOMAIN batches /\ i \in Int /\ b \in Int /\ i < b
         /\ Uses(i, s) /\ assets[i] # None
         /\ assets[i][s].status = "NEW" /\ assets[i][s].from = i
         /\ assets[i][s].at \in Minutes /\ batches[i].quotes[s] = assets[i][s].at
         /\ batches[i].session = batches[b].session
  <1>1. /\ i \in DOMAIN batches /\ assets[i] # None /\ assets[i][s].status = "NEW"
        /\ batches[i].session = batches[b].session
        /\ batches[i].finished < batches[b].finished
    BY DEF Earlier
  <1>2. Uses(i, s)
    BY <1>1 DEF Uses, Priced
  <1>3. /\ i \in Int /\ b \in Int
        /\ batches[i].finished \in Int /\ batches[b].finished \in Int
    <2>1. DOMAIN batches = 1..Len(batches) /\ batches[i] \in Batch /\ batches[b] \in Batch
      BY <1>1 DEF Shape
    <2> QED
      BY <1>1, <2>1 DEF Batch, Minutes
  <1>4. ~ (b < i) /\ b # i
    <2>1. b < i => batches[b].finished < batches[i].finished
      BY <1>1 DEF Ordered
    <2> QED
      BY <1>1, <1>3, <2>1
  <1> QED
    BY <1>1, <1>2, <1>3, <1>4 DEF Traced

LEMMA AssetRowType ==
  ASSUME Shape, Ordered, \A i \in DOMAIN batches, s \in Symbols : Traced(i, s),
         NEW b \in DOMAIN batches, NEW s \in Symbols
  PROVE  AssetRow(b, s) \in Row
  <1> DEFINE row == AssetRow(b, s)
  <1>1. /\ b \in 1..MaxBatches /\ batches[b].quotes[s] \in Minutes \cup {None}
        /\ \A i \in DOMAIN batches : i \in 1..MaxBatches
    <2>1. MaxBatches \in Nat
      BY ObservationAssumption
    <2>2. Len(batches) \in Nat /\ DOMAIN batches = 1..Len(batches) /\ batches[b] \in Batch
          /\ Len(batches) <= MaxBatches
      BY DEF Shape
    <2> QED
      BY <2>1, <2>2 DEF Batch
  <1>2. CASE NewRow(b, s, row)
    BY <1>1, <1>2 DEF NewRow, Row, Statuses
  <1>3. CASE CachedRow(b, s, row)
    <2>1. Prior(b, s) \in Earlier(b, s)
      BY <1>3, PriorIsLatest DEF CachedRow
    <2>2. Prior(b, s) \in 1..MaxBatches /\ assets[Prior(b, s)][s].at \in Minutes
      BY <1>1, <2>1, EarlierRow
    <2> QED
      BY <1>3, <2>2 DEF CachedRow, Row, Statuses
  <1>4. CASE EmptyRow(row)
    BY <1>4 DEF EmptyRow, Row
  <1> QED
    BY <1>2, <1>3, <1>4, RowCases

LEMMA RecordEffect ==
  ASSUME IInv, NEW b \in DOMAIN batches, Record(b)
  PROVE  \E rows, seen, calculation : Recorded(b, rows, seen, calculation)
  <1> DEFINE rows == [s \in Symbols |-> AssetRow(b, s)]
             priced == Priced(rows)
  <1>1. rows \in [Symbols -> Row] /\ \A s \in Symbols : rows[s] = AssetRow(b, s)
    BY AssetRowType DEF IInv
  <1>2. /\ assets[b] = None /\ observations[b] = None
        /\ observations = [observations EXCEPT ![b] = None]
    BY DEF Record, IInv, Untouched, Shape
  <1>3. assets' = [assets EXCEPT ![b] = rows]
    BY DEF Record
  <1>4. priced \in SUBSET Universe
    BY ObservationAssumption DEF Priced
  <1>5. Coverage(priced) \in 0..100
    BY <1>4, CoverageInRange
  <1>6. CASE NothingNew(rows)
    <2>1. observations' = observations
          /\ batches' = [batches EXCEPT ![b].calculation = "NO_NEW_DATA"]
      BY <1>6 DEF Record
    <2> HIDE DEF rows
    <2>2. Recorded(b, rows, None, "NO_NEW_DATA")
      BY <1>1, <1>2, <1>3, <2>1 DEF Recorded
    <2> QED
      BY <2>2
  <1>7. CASE ~ NothingNew(rows)
    <2>1. PICK usable \in Matrices :
            LET available == Available(priced, usable) IN
            /\ observations' = [observations EXCEPT ![b] =
                 [values |-> available, coverage |-> Coverage(priced),
                  status |-> FinalStatus(rows, batches[b].finished, available)]]
            /\ batches' = [batches EXCEPT ![b].calculation =
                 IF available = Values THEN "COMPLETED" ELSE "PARTIAL"]
      BY <1>7 DEF Record
    <2> DEFINE available == Available(priced, usable)
               final == FinalStatus(rows, batches[b].finished, available)
               seen == [values |-> available, coverage |-> Coverage(priced), status |-> final]
               calculation == IF available = Values THEN "COMPLETED" ELSE "PARTIAL"
    <2>2. available \in SUBSET Values
      BY DEF Available
    <2>3. final \in Finals
      <3> HIDE DEF rows, available
      <3> QED
        BY DEF FinalStatus, Finals
    <2>4. /\ observations' = [observations EXCEPT ![b] = seen]
          /\ batches' = [batches EXCEPT ![b].calculation = calculation]
      BY <2>1
    <2> HIDE DEF rows, priced, available, final
    <2>5. seen \in Observed /\ seen.values = available
      BY <1>5, <2>2, <2>3 DEF Observed
    <2>6. Recorded(b, rows, seen, calculation)
      BY <1>1, <1>2, <1>3, <2>4, <2>5 DEF Recorded
    <2> QED
      BY <2>6
  <1> QED
    BY <1>6, <1>7

\* A commit changes the rows of its own batch only, and no quotes.
LEMMA RecordedFrame ==
  ASSUME Shape, NEW b, NEW rows, NEW seen, NEW calculation, Recorded(b, rows, seen, calculation)
  PROVE  /\ DOMAIN batches' = DOMAIN batches /\ Len(batches') = Len(batches)
         /\ assets'[b] = rows /\ rows # None
         /\ \A i \in DOMAIN batches : i # b => assets'[i] = assets[i]
         /\ \A i \in DOMAIN batches :
              /\ batches'[i].finished = batches[i].finished
              /\ batches'[i].session = batches[i].session
              /\ batches'[i].quotes = batches[i].quotes
         /\ \A i \in DOMAIN batches, s \in Symbols : i # b => Uses(i, s)' = Uses(i, s)
         /\ \A s \in Symbols : Uses(b, s)' <=> rows[s].status \in {"NEW", "CACHED"}
  <1>1. /\ b \in DOMAIN batches /\ assets' = [assets EXCEPT ![b] = rows]
        /\ batches' = [batches EXCEPT ![b].calculation = calculation]
        /\ rows \in [Symbols -> Row]
    BY DEF Recorded
  <1>2. DOMAIN batches = 1..Len(batches) /\ DOMAIN assets = DOMAIN batches
        /\ batches \in Seq(Batch)
    BY DEF Shape
  <1>3. batches' = [i \in DOMAIN batches |->
                      IF i = b THEN [batches[b] EXCEPT !.calculation = calculation] ELSE batches[i]]
    BY <1>1, <1>2
  <1>4. DOMAIN batches' = DOMAIN batches /\ Len(batches') = Len(batches)
    BY <1>1, <1>2
  <1>5. \A i \in DOMAIN batches :
              /\ batches'[i].finished = batches[i].finished
              /\ batches'[i].session = batches[i].session
              /\ batches'[i].quotes = batches[i].quotes
    <2> SUFFICES ASSUME NEW i \in DOMAIN batches
                 PROVE  /\ batches'[i].finished = batches[i].finished
                        /\ batches'[i].session = batches[i].session
                        /\ batches'[i].quotes = batches[i].quotes
      OBVIOUS
    <2>1. batches[i] \in Batch
      BY <1>2
    <2> QED
      BY <1>1, <1>3, <2>1 DEF Batch
  <1>6. assets'[b] = rows /\ \A i \in DOMAIN batches : i # b => assets'[i] = assets[i]
    BY <1>1, <1>2
  <1>7. rows # None
    BY <1>1, ObservationAssumption
  <1>8. \A i \in DOMAIN batches, s \in Symbols : i # b => Uses(i, s)' = Uses(i, s)
    BY <1>6 DEF Uses, Priced
  <1>9. \A s \in Symbols : Uses(b, s)' <=> rows[s].status \in {"NEW", "CACHED"}
    BY <1>6, <1>7 DEF Uses, Priced
  <1> QED
    BY <1>4, <1>5, <1>6, <1>7, <1>8, <1>9

LEMMA TracedRecorded ==
  ASSUME IInv, NEW b, NEW rows, NEW seen, NEW calculation, Recorded(b, rows, seen, calculation)
  PROVE  \A c \in DOMAIN batches', s \in Symbols : Traced(c, s)'
  <1> SUFFICES ASSUME NEW c \in DOMAIN batches', NEW s \in Symbols, Uses(c, s)'
               PROVE  Traced(c, s)'
    BY DEF Traced
  <1>1. Shape /\ Ordered /\ \A i \in DOMAIN batches, t \in Symbols : Traced(i, t)
    BY DEF IInv
  <1>2. c \in DOMAIN batches /\ b \in DOMAIN batches /\ assets[b] = None
    BY <1>1, RecordedFrame DEF Recorded
  <1>3. PICK i : i = assets'[c][s].from
    OBVIOUS
  <1>4. CASE c # b
    <2>1. Uses(c, s) /\ assets'[c] = assets[c]
      BY <1>1, <1>2, <1>4, RecordedFrame
    <2>2. /\ i \in 1..c /\ assets[c][s].at \in Minutes
          /\ i = c <=> assets[c][s].status = "NEW"
          /\ Uses(i, s) /\ assets[i][s].status = "NEW"
          /\ batches[i].quotes[s] = assets[c][s].at
          /\ batches[i].session = batches[c].session
      BY <1>1, <1>2, <1>3, <2>1 DEF Traced
    <2>3. i \in DOMAIN batches /\ i # b
      BY <1>1, <1>2, <2>2 DEF Shape, Uses
    <2>4. Uses(i, s)' /\ assets'[i] = assets[i]
      BY <1>1, <2>2, <2>3, RecordedFrame
    <2> QED
      BY <1>1, <1>2, <1>3, <2>1, <2>2, <2>3, <2>4, RecordedFrame DEF Traced
  <1>5. CASE c = b
    <2>1. assets'[b] = rows /\ rows[s] = AssetRow(b, s) /\ b \in 1..b
      BY <1>1, RecordedFrame DEF Recorded, Shape
    <2>2. CASE NewRow(b, s, rows[s])
      <3>1. batches[b].quotes[s] \in Minutes
        <4>1. batches[b] \in Batch
          BY <1>1, <1>2 DEF Shape
        <4> QED
          BY <2>2, <4>1 DEF NewRow, Batch
      <3>2. i = b /\ assets'[b][s].status = "NEW" /\ assets'[b][s].at = batches[b].quotes[s]
        BY <1>3, <1>5, <2>1, <2>2 DEF NewRow
      <3> QED
        BY <1>1, <1>2, <1>3, <1>5, <2>1, <3>1, <3>2, RecordedFrame DEF Traced
    <2>3. CASE CachedRow(b, s, rows[s])
      <3>1. Prior(b, s) \in Earlier(b, s)
        BY <1>1, <1>2, <2>3, PriorIsLatest DEF CachedRow
      <3>2. i = Prior(b, s) /\ assets'[b][s].status = "CACHED" /\ assets'[b][s].at = assets[i][s].at
        BY <1>3, <1>5, <2>1, <2>3 DEF CachedRow
      <3>3. /\ i \in DOMAIN batches /\ i \in Int /\ b \in Int /\ i < b
            /\ Uses(i, s) /\ assets[i][s].status = "NEW"
            /\ assets[i][s].at \in Minutes /\ batches[i].quotes[s] = assets[i][s].at
            /\ batches[i].session = batches[b].session
        BY <1>1, <1>2, <3>1, <3>2, EarlierRow
      <3>4. i \in 1..b /\ i # b
        BY <1>1, <3>3 DEF Shape
      <3>5. Uses(i, s)' /\ assets'[i] = assets[i]
        BY <1>1, <3>3, <3>4, RecordedFrame
      <3> QED
        BY <1>1, <1>2, <1>3, <1>5, <3>2, <3>3, <3>4, <3>5, RecordedFrame DEF Traced
    <2>4. CASE EmptyRow(rows[s])
      BY <1>1, <1>5, <2>4, RecordedFrame DEF EmptyRow
    <2> QED
      BY <2>1, <2>2, <2>3, <2>4, RowCases
  <1> QED
    BY <1>4, <1>5

\* Without overlaps the batch observed is the last one.  A new row has quotes no row
\* of the session rests on; a cached one repeats the last new row, which no earlier
\* batch can have the same quotes from.
LEMMA LifetimeRecorded ==
  ASSUME IInv, NEW b, NEW rows, NEW seen, NEW calculation, Recorded(b, rows, seen, calculation),
         overlaps' = overlaps, b \in waiting
  PROVE  InputLifetime'
  <1> SUFFICES ASSUME overlaps = 0,
                      NEW x \in DOMAIN batches', NEW c \in DOMAIN batches', NEW s \in Symbols,
                      Uses(x, s)', Uses(c, s)', assets'[x][s].at = assets'[c][s].at,
                      batches'[x].session = batches'[c].session, x < c
               PROVE  /\ batches'[c].finished - batches'[x].finished <= CacheAge
                      /\ batches'[c].finished - assets'[c][s].at <= QuoteAge
                      /\ assets'[c][s].status = "CACHED"
    BY DEF InputLifetime
  <1>1. Shape /\ Ordered /\ \A i \in DOMAIN batches, t \in Symbols : Traced(i, t)
    BY DEF IInv
  <1>2. /\ x \in DOMAIN batches /\ c \in DOMAIN batches /\ b \in DOMAIN batches
        /\ assets[b] = None /\ b = Len(batches)
        /\ batches'[x].finished = batches[x].finished /\ batches'[x].session = batches[x].session
        /\ batches'[c].finished = batches[c].finished /\ batches'[c].session = batches[c].session
    BY <1>1, RecordedFrame DEF Recorded, IInv, InTurn
  <1>3. x \in Int /\ c \in Int /\ b \in Int /\ x <= b /\ c <= b /\ x # b
    BY <1>1, <1>2 DEF Shape
  <1>4. Uses(x, s) /\ assets'[x] = assets[x]
    BY <1>1, <1>2, <1>3, RecordedFrame
  <1>5. CASE c # b
    <2>1. Uses(c, s) /\ assets'[c] = assets[c]
      BY <1>1, <1>2, <1>5, RecordedFrame
    <2> QED
      BY <1>2, <1>4, <2>1 DEF IInv, InputLifetime
  <1>6. CASE c = b
    <2>1. assets'[b] = rows /\ rows[s] = AssetRow(b, s)
      <3>1. assets'[b] = rows
        BY <1>1, RecordedFrame
      <3>2. rows[s] = AssetRow(b, s)
        BY DEF Recorded
      <3> QED
        BY <3>1, <3>2
    <2>2. rows[s].at = assets[x][s].at /\ batches[x].session = batches[b].session
      BY <1>2, <1>4, <1>6, <2>1
    <2>3. PICK f : f = assets[x][s].from
      OBVIOUS
    <2>4. /\ f \in 1..x /\ assets[x][s].at \in Minutes
          /\ Uses(f, s) /\ assets[f][s].status = "NEW"
          /\ batches[f].quotes[s] = assets[x][s].at
          /\ batches[f].session = batches[x].session
      BY <1>1, <1>2, <1>4, <2>3 DEF Traced
    <2>5. f \in DOMAIN batches /\ f \in Int /\ f <= x /\ f < b
      BY <1>1, <1>2, <1>3, <2>4 DEF Shape
    <2>6. f \in Earlier(b, s)
      BY <1>1, <1>2, <2>2, <2>4, <2>5 DEF Earlier, Uses, Ordered
    <2>7. PICK p : p = Prior(b, s)
      OBVIOUS
    <2>8. p \in Earlier(b, s) /\ f <= p
      BY <1>1, <1>2, <2>6, <2>7, PriorIsLatest
    <2>9. /\ p \in DOMAIN batches /\ p \in Int /\ p < b
          /\ Uses(p, s) /\ assets[p][s].status = "NEW"
          /\ assets[p][s].at \in Minutes /\ batches[p].quotes[s] = assets[p][s].at
          /\ batches[p].session = batches[b].session
      BY <1>1, <1>2, <2>8, EarlierRow
    <2>10. assets[f][s].at = assets[x][s].at
      BY <1>1, <2>4, <2>5, <2>6, <1>2, EarlierRow
    <2>11. ASSUME assets[p][s].at = assets[f][s].at PROVE p = f
      <3>1. ~ (f < p)
        <4>1. f < p => assets[p][s].status = "CACHED"
          BY <1>2, <2>2, <2>4, <2>5, <2>9, <2>11 DEF IInv, InputLifetime
        <4> QED
          BY <2>9, <4>1
      <3> QED
        BY <2>5, <2>8, <2>9, <3>1
    <2>12. CASE NewRow(b, s, rows[s])
      <3>1. /\ batches[b].quotes[s] = assets[x][s].at /\ batches[b].quotes[s] # None
            /\ assets[p][s].at # batches[b].quotes[s]
        BY <2>2, <2>6, <2>7, <2>12 DEF NewRow
      <3>2. f = p \/ f < p
        BY <2>5, <2>8, <2>9
      <3>3. f # p
        BY <2>10, <3>1
      <3>4. f < p /\ batches[f].quotes[s] # None /\ batches[p].quotes[s] # None
        BY <2>4, <2>9, <3>1, <3>2, <3>3, ObservationAssumption DEF Minutes
      <3>5. /\ batches[f].quotes[s] <= batches[p].quotes[s]
            /\ batches[p].quotes[s] <= batches[b].quotes[s]
        BY <1>1, <1>2, <2>5, <2>9, <3>1, <3>4 DEF Ordered
      <3> QED
        BY <2>4, <2>9, <3>1, <3>5 DEF Minutes
    <2>13. CASE CachedRow(b, s, rows[s])
      <3>1. /\ rows[s].at = assets[p][s].at /\ rows[s].status = "CACHED"
            /\ batches[b].finished - batches[p].finished \in 0..CacheAge
            /\ batches[b].finished - rows[s].at \in 0..QuoteAge
        BY <2>7, <2>13 DEF CachedRow
      <3>2. p = f
        BY <2>2, <2>10, <2>11, <3>1
      <3>3. p = x \/ p < x
        BY <1>3, <2>5, <3>2
      <3>4. batches[p].finished <= batches[x].finished
        <4>1. batches[p] \in Batch /\ batches[x] \in Batch
          BY <1>1, <1>2, <2>9 DEF Shape
        <4>2. batches[p].finished \in Int /\ batches[x].finished \in Int
          BY <4>1 DEF Batch, Minutes
        <4> QED
          BY <1>1, <1>2, <2>9, <3>3, <4>2 DEF Ordered
      <3>5. batches[b].finished \in Int /\ batches[p].finished \in Int /\ batches[x].finished \in Int
        <4>1. batches[p] \in Batch /\ batches[x] \in Batch /\ batches[b] \in Batch
          BY <1>1, <1>2, <2>9 DEF Shape
        <4> QED
          BY <4>1 DEF Batch, Minutes
      <3>6. CacheAge \in Nat /\ QuoteAge \in Nat
        BY ObservationAssumption
      <3>7. batches[b].finished - batches[x].finished <= CacheAge
        BY <3>1, <3>4, <3>5, <3>6
      <3>8. batches[b].finished - rows[s].at <= QuoteAge
        BY <3>1, <3>6
      <3> QED
        BY <1>2, <1>6, <2>1, <3>1, <3>7, <3>8
    <2>14. CASE EmptyRow(rows[s])
      BY <1>1, <1>6, <2>14, RecordedFrame DEF EmptyRow
    <2> QED
      BY <2>1, <2>12, <2>13, <2>14, RowCases
  <1> QED
    BY <1>5, <1>6

\* The parts of the invariant that only speak of the batches and the market.
LEMMA OrderedRecorded ==
  ASSUME IInv, NEW b, NEW rows, NEW seen, NEW calculation, Recorded(b, rows, seen, calculation),
         calculation \in Calculations, UNCHANGED <<now, market>>
  PROVE  Ordered' /\ batches' \in Seq(Batch)
  <1>1. Shape /\ Ordered
    BY DEF IInv
  <1>2. batches' \in Seq(Batch)
    <2>1. /\ b \in DOMAIN batches /\ batches \in Seq(Batch)
          /\ batches' = [batches EXCEPT ![b].calculation = calculation]
      BY <1>1 DEF Recorded, Shape
    <2>2. batches[b] \in Batch
      BY <2>1
    <2>3. [batches[b] EXCEPT !.calculation = calculation] \in Batch
      BY <2>2 DEF Batch
    <2>4. batches' = [batches EXCEPT ![b] = [batches[b] EXCEPT !.calculation = calculation]]
      BY <2>1
    <2> QED
      BY <2>1, <2>3, <2>4
  <1>3. Ordered'
    BY <1>1, RecordedFrame DEF Ordered
  <1> QED
    BY <1>2, <1>3

LEMMA CommitStep ==
  ASSUME IInv, NEW b \in DOMAIN batches, b \in waiting, Record(b),
         waiting' = waiting \ {b}, UNCHANGED <<now, market, overlaps>>,
         faults' \in 0..MaxFaults,
         \/ failing' = failing /\ unsure' = unsure
         \/ failing' = failing \cup {b} /\ unsure' = unsure \cup {b}
  PROVE  IInv'
  <1>1. PICK rows, seen, calculation : Recorded(b, rows, seen, calculation)
    BY RecordEffect
  <1>2. Shape /\ Ordered /\ Untouched /\ InTurn /\ CalculationAgrees
    BY DEF IInv
  <1>3. /\ calculation \in {"NO_NEW_DATA", "COMPLETED", "PARTIAL"}
        /\ rows \in [Symbols -> Row] /\ seen \in Observed \cup {None} /\ assets[b] = None
        /\ assets' = [assets EXCEPT ![b] = rows]
        /\ observations' = [observations EXCEPT ![b] = seen]
        /\ batches' = [batches EXCEPT ![b].calculation = calculation]
        /\ calculation = "NO_NEW_DATA" => seen = None
        /\ calculation # "NO_NEW_DATA" => seen \in Observed
        /\ calculation = "COMPLETED" => seen.values = Values
    BY <1>1 DEF Recorded
  <1>4. /\ DOMAIN batches' = DOMAIN batches /\ Len(batches') = Len(batches)
        /\ assets'[b] # None
        /\ \A i \in DOMAIN batches : i # b => assets'[i] = assets[i]
    BY <1>1, <1>2, RecordedFrame
  <1>5. /\ observations'[b] = seen
        /\ \A i \in DOMAIN batches : i # b => observations'[i] = observations[i]
    BY <1>2, <1>3 DEF Shape
  <1>6. /\ batches'[b].calculation = calculation
        /\ \A i \in DOMAIN batches : i # b => batches'[i].calculation = batches[i].calculation
    <2>1. batches[b] \in Batch
      BY <1>2 DEF Shape
    <2> QED
      BY <1>2, <1>3, <2>1 DEF Shape, Batch
  <1>7. Ordered' /\ batches' \in Seq(Batch)
    BY <1>1, <1>3, OrderedRecorded DEF Calculations
  <1>8. Shape'
    <2>1. assets' \in Seq([Symbols -> Row] \cup {None}) /\ Len(assets') = Len(batches)
      BY <1>2, <1>3 DEF Shape
    <2>2. observations' \in Seq(Observed \cup {None}) /\ Len(observations') = Len(batches)
      BY <1>2, <1>3 DEF Shape
    <2> QED
      BY <1>2, <1>4, <1>7, <2>1, <2>2 DEF Shape
  <1>9. InTurn'
    BY <1>2, <1>4 DEF InTurn
  <1>10. Untouched'
    <2>1. waiting \cap failing = {} /\ waiting \cup failing \subseteq DOMAIN batches
      BY <1>2 DEF Untouched, Shape
    <2>2. waiting' \cap failing' = {}
      BY <2>1
    <2>3. ASSUME NEW i \in waiting' PROVE assets'[i] = None /\ i \notin unsure'
      BY <1>2, <1>4, <2>1 DEF Untouched
    <2>4. ASSUME NEW i \in failing' PROVE assets'[i] = None <=> i \notin unsure'
      <3>1. CASE i = b
        BY <1>4, <2>1, <3>1
      <3>2. CASE i # b
        BY <1>2, <1>4, <2>1, <3>2 DEF Untouched
      <3> QED
        BY <3>1, <3>2
    <2>5. ASSUME NEW i \in DOMAIN batches, assets'[i] = None PROVE observations'[i] = None
      BY <1>2, <1>4, <1>5, <2>5 DEF Untouched
    <2> QED
      BY <1>4, <2>2, <2>3, <2>4, <2>5 DEF Untouched
  <1>11. \A c \in DOMAIN batches', s \in Symbols : Traced(c, s)'
    BY <1>1, TracedRecorded
  <1>12. InputLifetime'
    BY <1>1, LifetimeRecorded
  <1>13. CalculationAgrees'
    <2> SUFFICES ASSUME NEW c \in DOMAIN batches'
                 PROVE  LET k == batches'[c].calculation IN
                        /\ (assets'[c] = None) <=> \/ k \in {"PENDING", "NO_VALID_DATA"}
                                                   \/ k = "FAILED" /\ c \notin unsure'
                        /\ k \in {"COMPLETED", "PARTIAL"} => observations'[c] # None
                        /\ k = "NO_NEW_DATA" => observations'[c] = None
                        /\ observations'[c] # None /\ k = "COMPLETED"
                             => observations'[c].values = Values
      BY DEF CalculationAgrees
    <2>1. CASE c = b
      <3>1. None \notin Observed
        BY ObservationAssumption
      <3> QED
        BY <1>3, <1>4, <1>5, <1>6, <2>1, <3>1
    <2>2. CASE c # b
      <3>1. /\ assets'[c] = assets[c] /\ observations'[c] = observations[c]
            /\ batches'[c].calculation = batches[c].calculation
            /\ c \in DOMAIN batches /\ (c \in unsure' <=> c \in unsure)
        BY <1>4, <1>5, <1>6, <2>2
      <3> QED
        BY <1>2, <3>1 DEF CalculationAgrees
    <2> QED
      BY <2>1, <2>2
  <1> QED
    BY <1>7, <1>8, <1>9, <1>10, <1>11, <1>12, <1>13 DEF IInv

LEMMA InitIInv == ASSUME Init PROVE IInv
  <1>1. batches = <<>> /\ assets = <<>> /\ observations = <<>> /\ DOMAIN batches = {}
    BY DEF Init
  <1>2. Shape
    BY <1>1, ObservationAssumption DEF Init, Shape, Minutes
  <1>3. Ordered
    BY <1>1 DEF Init, Ordered
  <1> QED
    BY <1>1, <1>2, <1>3
    DEF Init, IInv, InTurn, Untouched, InputLifetime, CalculationAgrees

LEMMA FinishStep ==
  ASSUME IInv, Finish
  PROVE  IInv'
  <1>1. Shape /\ Ordered /\ Untouched /\ InTurn /\ CalculationAgrees /\ InputLifetime
        /\ \A i \in DOMAIN batches, t \in Symbols : Traced(i, t)
    BY DEF IInv
  <1> DEFINE n == Len(batches)
  <1>0. PICK missing \in Missing :
          /\ batches' = Append(batches,
               [finished |-> now, session |-> now \div SessionLength,
                quotes |-> [s \in Symbols |-> IF s \in missing THEN None ELSE market[s]],
                calculation |-> IF missing = Symbols THEN "NO_VALID_DATA" ELSE "PENDING"])
          /\ waiting' = IF missing = Symbols THEN waiting ELSE waiting \cup {n + 1}
    BY DEF Finish
  <1>2. PICK finished :
          /\ finished = [finished |-> now, session |-> now \div SessionLength,
               quotes |-> [s \in Symbols |-> IF s \in missing THEN None ELSE market[s]],
               calculation |-> IF missing = Symbols THEN "NO_VALID_DATA" ELSE "PENDING"]
          /\ batches' = Append(batches, finished)
          /\ waiting' = IF missing = Symbols THEN waiting ELSE waiting \cup {n + 1}
    BY <1>0
  <1>3. /\ n < MaxBatches /\ n \in Nat
        /\ assets' = Append(assets, None) /\ observations' = Append(observations, None)
        /\ UNCHANGED <<now, market, failing, unsure, faults>>
        /\ overlaps' = overlaps + (IF waiting \cup failing = {} THEN 0 ELSE 1)
        /\ overlaps' <= MaxOverlaps
        /\ \A i \in DOMAIN batches : batches[i].finished < now
    BY <1>1 DEF Finish, Shape
  <1>4. /\ finished \in Batch /\ finished.finished = now
        /\ finished.calculation \in {"NO_VALID_DATA", "PENDING"}
        /\ \A s \in Symbols : finished.quotes[s] \in {None, market[s]}
    <2>1. now \in Minutes /\ market \in [Symbols -> Minutes]
      BY <1>1 DEF Shape
    <2>2. now \div SessionLength \in Int
      BY <2>1, ObservationAssumption DEF Minutes
    <2>3. [s \in Symbols |-> IF s \in missing THEN None ELSE market[s]]
            \in [Symbols -> Minutes \cup {None}]
      BY <2>1
    <2> QED
      BY <1>2, <2>1, <2>2, <2>3 DEF Batch, Calculations
  <1>5. /\ DOMAIN batches = 1..n /\ DOMAIN batches' = 1..(n + 1) /\ Len(batches') = n + 1
        /\ batches'[n + 1] = finished /\ assets'[n + 1] = None /\ observations'[n + 1] = None
        /\ \A i \in 1..n : /\ batches'[i] = batches[i] /\ assets'[i] = assets[i]
                           /\ observations'[i] = observations[i]
    BY <1>1, <1>2, <1>3 DEF Shape
  <1>6. \A i \in 1..(n + 1) : i \in 1..n \/ i = n + 1
    BY <1>3
  <1>7. overlaps \in Nat /\ overlaps' \in 0..MaxOverlaps
        /\ (overlaps' = 0 => overlaps = 0 /\ waiting \cup failing = {})
    <2>1. MaxOverlaps \in Nat /\ overlaps \in 0..MaxOverlaps
      BY <1>1, ObservationAssumption DEF Shape
    <2> QED
      BY <1>3, <2>1
  <1>8. Shape'
    <2>1. batches' \in Seq(Batch)
      BY <1>1, <1>2, <1>4 DEF Shape
    <2>2. assets' \in Seq([Symbols -> Row] \cup {None}) /\ Len(assets') = n + 1
      BY <1>1, <1>3 DEF Shape
    <2>3. observations' \in Seq(Observed \cup {None}) /\ Len(observations') = n + 1
      BY <1>1, <1>3 DEF Shape
    <2>4. n + 1 <= MaxBatches
      BY <1>3, ObservationAssumption
    <2>5. waiting' \cup failing' \cup unsure' \subseteq DOMAIN batches'
      BY <1>1, <1>2, <1>3, <1>5 DEF Shape
    <2> QED
      BY <1>1, <1>3, <1>5, <1>7, <2>1, <2>2, <2>3, <2>4, <2>5 DEF Shape
  <1>9. Ordered'
    <2>1. ASSUME NEW i \in 1..n
          PROVE  /\ batches'[i].finished < batches'[n + 1].finished
                 /\ \A s \in Symbols :
                      batches'[i].quotes[s] # None /\ batches'[n + 1].quotes[s] # None
                        => batches'[i].quotes[s] <= batches'[n + 1].quotes[s]
      BY <1>1, <1>3, <1>4, <1>5 DEF Ordered
    <2>2. ASSUME NEW i \in 1..n
          PROVE  /\ batches'[i].finished <= now
                 /\ \A s \in Symbols : batches'[i].quotes[s] # None
                                         => batches'[i].quotes[s] <= market[s]
      BY <1>1, <1>5 DEF Ordered
    <2>3. /\ batches'[n + 1].finished <= now
          /\ \A s \in Symbols : batches'[n + 1].quotes[s] # None
                                  => batches'[n + 1].quotes[s] <= market[s]
      <3>1. now \in Int /\ \A s \in Symbols : market[s] \in Int
        BY <1>1 DEF Shape, Minutes
      <3> QED
        BY <1>4, <1>5, <3>1
    <2>4. \A i, j \in DOMAIN batches' : i < j =>
             i \in 1..n /\ (j \in 1..n \/ j = n + 1)
      BY <1>3, <1>5
    <2>5. ASSUME NEW i \in DOMAIN batches', NEW j \in DOMAIN batches', i < j
          PROVE  /\ batches'[i].finished < batches'[j].finished
                 /\ \A s \in Symbols :
                      batches'[i].quotes[s] # None /\ batches'[j].quotes[s] # None
                        => batches'[i].quotes[s] <= batches'[j].quotes[s]
      <3>1. CASE j = n + 1
        BY <2>1, <2>4, <2>5, <3>1
      <3>2. CASE j \in 1..n
        BY <1>1, <1>5, <2>4, <2>5, <3>2 DEF Ordered
      <3> QED
        BY <2>4, <2>5, <3>1, <3>2
    <2>6. \A s \in Symbols : market[s] <= now
      BY <1>1 DEF Ordered
    <2> HIDE DEF n
    <2> QED
      BY <1>3, <1>5, <1>6, <2>2, <2>3, <2>5, <2>6 DEF Ordered
  <1>10. InTurn'
    BY <1>2, <1>3, <1>5, <1>7 DEF InTurn
  <1>11. Untouched'
    <2>1. waiting \cup failing \cup unsure \subseteq 1..n /\ n + 1 \notin 1..n
      BY <1>1, <1>3 DEF Shape
    <2>2. waiting' \cap failing' = {}
      BY <1>1, <1>2, <1>3, <2>1 DEF Untouched
    <2>3. ASSUME NEW i \in waiting' PROVE assets'[i] = None /\ i \notin unsure'
      BY <1>1, <1>2, <1>3, <1>5, <2>1 DEF Untouched
    <2>4. ASSUME NEW i \in failing' PROVE assets'[i] = None <=> i \notin unsure'
      BY <1>1, <1>3, <1>5, <2>1 DEF Untouched
    <2>5. ASSUME NEW i \in DOMAIN batches', assets'[i] = None PROVE observations'[i] = None
      BY <1>1, <1>5, <1>6, <2>5 DEF Untouched
    <2> QED
      BY <2>2, <2>3, <2>4, <2>5 DEF Untouched
  <1>12. Grown
    <2>1. DOMAIN batches \subseteq DOMAIN batches'
      BY <1>3, <1>5
    <2>2. \A i \in DOMAIN batches' : assets'[i] # None => i \in DOMAIN batches
      BY <1>5, <1>6
    <2> QED
      BY <1>5, <2>1, <2>2 DEF Grown
  <1>13. (\A c \in DOMAIN batches', s \in Symbols : Traced(c, s)') /\ InputLifetime'
    BY <1>1, <1>7, <1>12, TracedKept, LifetimeKept
  <1>14. CalculationAgrees'
    <2> SUFFICES ASSUME NEW c \in DOMAIN batches'
                 PROVE  LET k == batches'[c].calculation IN
                        /\ (assets'[c] = None) <=> \/ k \in {"PENDING", "NO_VALID_DATA"}
                                                   \/ k = "FAILED" /\ c \notin unsure'
                        /\ k \in {"COMPLETED", "PARTIAL"} => observations'[c] # None
                        /\ k = "NO_NEW_DATA" => observations'[c] = None
                        /\ observations'[c] # None /\ k = "COMPLETED"
                             => observations'[c].values = Values
      BY DEF CalculationAgrees
    <2>1. CASE c = n + 1
      BY <1>4, <1>5, <2>1
    <2>2. CASE c \in 1..n
      BY <1>1, <1>3, <1>5, <2>2 DEF CalculationAgrees
    <2> QED
      BY <1>5, <1>6, <2>1, <2>2
  <1> QED
    BY <1>8, <1>9, <1>10, <1>11, <1>13, <1>14 DEF IInv

\* A step that leaves the tables alone.
LEMMA QuietStep ==
  ASSUME IInv, UNCHANGED tables, overlaps' = overlaps, faults' \in 0..MaxFaults,
         now' \in Minutes, now' >= now, market' \in [Symbols -> Minutes],
         \A s \in Symbols : market[s] <= market'[s] /\ market'[s] <= now',
         unsure' = unsure, waiting' \cup failing' \subseteq waiting \cup failing,
         Untouched'
  PROVE  IInv'
  <1>1. Shape /\ Ordered /\ InTurn /\ CalculationAgrees /\ InputLifetime
        /\ \A i \in DOMAIN batches, t \in Symbols : Traced(i, t)
    BY DEF IInv
  <1>2. batches' = batches /\ assets' = assets /\ observations' = observations
    BY DEF tables
  <1>3. Grown
    <2>1. \A i \in DOMAIN batches' : assets'[i] # None => i \in DOMAIN batches
      BY <1>2
    <2> QED
      BY <1>2, <2>1 DEF Grown
  <1>4. (\A c \in DOMAIN batches', s \in Symbols : Traced(c, s)') /\ InputLifetime'
    BY <1>1, <1>3, TracedKept, LifetimeKept
  <1>5. Shape'
    BY <1>1, <1>2 DEF Shape
  <1>6. Ordered'
    <2>1. \A i \in DOMAIN batches : batches[i] \in Batch
      BY <1>1 DEF Shape
    <2>2. /\ now \in Int /\ now' \in Int /\ \A s \in Symbols : market[s] \in Int /\ market'[s] \in Int
          /\ \A i \in DOMAIN batches :
               /\ batches[i].finished \in Int
               /\ \A s \in Symbols : batches[i].quotes[s] # None => batches[i].quotes[s] \in Int
      BY <1>1, <2>1 DEF Shape, Batch, Minutes
    <2>3. \A s \in Symbols : market'[s] <= now'
      OBVIOUS
    <2>4. \A i \in DOMAIN batches :
             /\ batches[i].finished <= now'
             /\ \A s \in Symbols : batches[i].quotes[s] # None
                                     => batches[i].quotes[s] <= market'[s]
      BY <1>1, <2>2 DEF Ordered
    <2> QED
      BY <1>1, <1>2, <2>3, <2>4 DEF Ordered
  <1>7. InTurn' /\ CalculationAgrees'
    BY <1>1, <1>2 DEF InTurn, CalculationAgrees
  <1> QED
    BY <1>4, <1>5, <1>6, <1>7 DEF IInv

LEMMA RecordFailureStep ==
  ASSUME IInv, NEW b \in DOMAIN batches, RecordFailure(b)
  PROVE  IInv'
  <1>1. Shape /\ Ordered /\ Untouched /\ InTurn /\ CalculationAgrees /\ InputLifetime
        /\ \A i \in DOMAIN batches, t \in Symbols : Traced(i, t)
    BY DEF IInv
  <1>2. /\ b \in failing /\ failing' = failing \ {b}
        /\ batches' = [batches EXCEPT ![b].calculation = "FAILED"]
        /\ now' = now /\ market' = market /\ assets' = assets /\ observations' = observations
        /\ waiting' = waiting /\ unsure' = unsure /\ faults' = faults /\ overlaps' = overlaps
    BY DEF RecordFailure, counts
  <1>3. batches \in Seq(Batch) /\ batches[b] \in Batch
    BY <1>1 DEF Shape
  <1>4. [batches[b] EXCEPT !.calculation = "FAILED"] \in Batch
    BY <1>3 DEF Batch, Calculations
  <1>5. /\ batches' = [batches EXCEPT ![b] = [batches[b] EXCEPT !.calculation = "FAILED"]]
        /\ batches' \in Seq(Batch) /\ DOMAIN batches' = DOMAIN batches
        /\ Len(batches') = Len(batches)
    BY <1>2, <1>3, <1>4
  <1>6. \A i \in DOMAIN batches :
          /\ batches'[i].finished = batches[i].finished
          /\ batches'[i].session = batches[i].session
          /\ batches'[i].quotes = batches[i].quotes
          /\ batches'[i].calculation = IF i = b THEN "FAILED" ELSE batches[i].calculation
    <2> SUFFICES ASSUME NEW i \in DOMAIN batches
                 PROVE  /\ batches'[i].finished = batches[i].finished
                        /\ batches'[i].session = batches[i].session
                        /\ batches'[i].quotes = batches[i].quotes
                        /\ batches'[i].calculation =
                             IF i = b THEN "FAILED" ELSE batches[i].calculation
      OBVIOUS
    <2> QED
      BY <1>3, <1>5 DEF Batch
  <1>7. Grown
    BY <1>2, <1>5, <1>6 DEF Grown
  <1>8. (\A c \in DOMAIN batches', s \in Symbols : Traced(c, s)') /\ InputLifetime'
    BY <1>1, <1>2, <1>7, TracedKept, LifetimeKept
  <1>9. Shape'
    BY <1>1, <1>2, <1>5 DEF Shape
  <1>10. Ordered'
    BY <1>1, <1>2, <1>5, <1>6 DEF Ordered
  <1>11. InTurn' /\ Untouched'
    BY <1>1, <1>2, <1>5 DEF InTurn, Untouched
  <1>12. CalculationAgrees'
    <2> SUFFICES ASSUME NEW c \in DOMAIN batches
                 PROVE  LET k == batches'[c].calculation IN
                        /\ (assets[c] = None) <=> \/ k \in {"PENDING", "NO_VALID_DATA"}
                                                  \/ k = "FAILED" /\ c \notin unsure
                        /\ k \in {"COMPLETED", "PARTIAL"} => observations[c] # None
                        /\ k = "NO_NEW_DATA" => observations[c] = None
                        /\ observations[c] # None /\ k = "COMPLETED"
                             => observations[c].values = Values
      BY <1>2, <1>5 DEF CalculationAgrees
    <2>1. CASE c = b
      <3>1. batches'[b].calculation = "FAILED"
        BY <1>6
      <3>2. (assets[b] = None) <=> b \notin unsure
        BY <1>1, <1>2 DEF Untouched
      <3> QED
        BY <2>1, <3>1, <3>2
    <2>2. CASE c # b
      BY <1>1, <1>6, <2>2 DEF CalculationAgrees
    <2> QED
      BY <2>1, <2>2
  <1> QED
    BY <1>8, <1>9, <1>10, <1>11, <1>12 DEF IInv

LEMMA FaultCounted ==
  ASSUME IInv, faults < MaxFaults, faults' = faults + 1 PROVE faults' \in 0..MaxFaults
  BY ObservationAssumption DEF IInv, Shape

LEMMA NextStep ==
  ASSUME IInv, [Next]_vars
  PROVE  IInv'
  <1>0. /\ now \in Minutes /\ market \in [Symbols -> Minutes] /\ faults \in 0..MaxFaults
        /\ \A s \in Symbols : market[s] <= now /\ market[s] \in Int
        /\ waiting \cup failing \cup unsure \subseteq DOMAIN batches /\ Untouched
        /\ now \in Int /\ LastMinute \in Nat
    BY ObservationAssumption DEF IInv, Shape, Ordered, Minutes
  <1>1. CASE Finish
    BY <1>1, FinishStep
  <1>2. ASSUME NEW b \in DOMAIN batches, Observe(b) PROVE IInv'
    BY <1>0, <1>2, CommitStep DEF Observe, counts
  <1>3. ASSUME NEW b \in DOMAIN batches, ObserveUnacknowledged(b) PROVE IInv'
    BY <1>0, <1>3, CommitStep, FaultCounted DEF ObserveUnacknowledged
  <1>4. ASSUME NEW b \in DOMAIN batches, ObserveFails(b) PROVE IInv'
    <2>1. /\ b \in waiting /\ waiting' = waiting \ {b} /\ failing' = failing \cup {b}
          /\ UNCHANGED tables /\ unsure' = unsure /\ overlaps' = overlaps
          /\ now' = now /\ market' = market /\ faults' \in 0..MaxFaults
          /\ assets' = assets /\ observations' = observations /\ batches' = batches
      BY <1>4, FaultCounted DEF ObserveFails, tables
    <2>2. Untouched'
      BY <1>0, <2>1 DEF Untouched
    <2> QED
      BY <1>0, <2>1, <2>2, QuietStep
  <1>5. ASSUME NEW b \in DOMAIN batches, RecordFailure(b) PROVE IInv'
    BY <1>5, RecordFailureStep
  <1>6. ASSUME NEW moved \in Moves, Trade(moved) PROVE IInv'
    <2>1. /\ market' = [s \in Symbols |-> IF s \in moved THEN now ELSE market[s]]
          /\ UNCHANGED tables /\ waiting' = waiting /\ failing' = failing /\ unsure' = unsure
          /\ faults' = faults /\ overlaps' = overlaps /\ now' = now
          /\ assets' = assets /\ observations' = observations /\ batches' = batches
      BY <1>6 DEF Trade, tables, counts
    <2>2. Untouched'
      BY <1>0, <2>1 DEF Untouched
    <2>3. market' \in [Symbols -> Minutes]
          /\ \A s \in Symbols : market[s] <= market'[s] /\ market'[s] <= now'
      BY <1>0, <2>1
    <2> QED
      BY <1>0, <2>1, <2>2, <2>3, QuietStep
  <1>7. CASE Tick
    <2>1. /\ now < LastMinute /\ now' = now + 1
          /\ UNCHANGED tables /\ waiting' = waiting /\ failing' = failing /\ unsure' = unsure
          /\ faults' = faults /\ overlaps' = overlaps /\ market' = market
          /\ assets' = assets /\ observations' = observations /\ batches' = batches
      BY <1>7 DEF Tick, tables, counts
    <2>2. Untouched'
      BY <1>0, <2>1 DEF Untouched
    <2>3. now' \in Minutes /\ now' >= now
      BY <1>0, <2>1 DEF Minutes
    <2>4. \A s \in Symbols : market[s] <= market'[s] /\ market'[s] <= now'
      BY <1>0, <2>1
    <2> QED
      BY <1>0, <2>1, <2>2, <2>3, <2>4, QuietStep
  <1>8. CASE Crash
    <2>1. /\ waiting' = {} /\ failing' = {}
          /\ UNCHANGED tables /\ unsure' = unsure /\ overlaps' = overlaps
          /\ now' = now /\ market' = market /\ faults' \in 0..MaxFaults
          /\ assets' = assets /\ observations' = observations /\ batches' = batches
      BY <1>8, FaultCounted DEF Crash, tables
    <2>2. Untouched'
      BY <1>0, <2>1 DEF Untouched
    <2> QED
      BY <1>0, <2>1, <2>2, QuietStep
  <1>9. CASE UNCHANGED vars
    <2>1. /\ UNCHANGED tables /\ waiting' = waiting /\ failing' = failing /\ unsure' = unsure
          /\ faults' = faults /\ overlaps' = overlaps /\ market' = market /\ now' = now
          /\ assets' = assets /\ observations' = observations /\ batches' = batches
      BY <1>9 DEF vars, tables, counts
    <2>2. Untouched'
      BY <1>0, <2>1 DEF Untouched
    <2> QED
      BY <1>0, <2>1, <2>2, QuietStep
  <1> QED
    BY <1>1, <1>2, <1>3, <1>4, <1>5, <1>6, <1>7, <1>8, <1>9 DEF Next

LEMMA IInvAlways == Spec => []IInv
  BY InitIInv, NextStep, PTL DEF Spec

LEMMA ShapeTypes == ASSUME IInv PROVE TypeOK
  <1>1. Shape
    BY DEF IInv
  <1>2. /\ DOMAIN assets = DOMAIN batches /\ DOMAIN observations = DOMAIN batches
        /\ \A b \in DOMAIN batches : /\ batches[b] \in Batch
                                     /\ assets[b] \in [Symbols -> Row] \cup {None}
                                     /\ observations[b] \in Observed \cup {None}
    BY <1>1 DEF Shape
  <1> QED
    BY <1>1, <1>2 DEF TypeOK, Shape, Batch

\* A batch has rows and an observation of its own at most, in the order in which collections
\* finished, and the coverage of whatever symbols were priced is a percentage
\* (svix_observation.py, lines 285-286).
THEOREM TypeCorrect == Spec => []TypeOK
  <1>1. IInv => TypeOK
    BY ShapeTypes
  <1> QED
    BY <1>1, IInvAlways, PTL

\* All the rows of a session that rest on the same quotes of a symbol lie within the
\* cache age of the first, the only new one, and none uses quotes past their age, when
\* no collection finished beside an unobserved batch.
THEOREM InputsExpire == Spec => []InputLifetime
  <1>1. IInv => InputLifetime
    BY DEF IInv
  <1> QED
    BY <1>1, IInvAlways, PTL

LEMMA TracedSources == ASSUME IInv PROVE CachedRowsAreTraceable
  <1> SUFFICES ASSUME NEW b \in DOMAIN batches, NEW s \in Symbols, Uses(b, s)
               PROVE  LET source == assets[b][s].from IN
                      /\ assets[source][s].status = "NEW"
                      /\ batches[source].quotes[s] = assets[b][s].at
                      /\ batches[source].session = batches[b].session
                      /\ batches[source].finished <= batches[b].finished
    BY DEF CachedRowsAreTraceable
  <1>1. Shape /\ Ordered /\ Traced(b, s)
    BY DEF IInv
  <1>2. PICK i : i = assets[b][s].from
    OBVIOUS
  <1>3. /\ i \in 1..b /\ assets[i][s].status = "NEW"
        /\ batches[i].quotes[s] = assets[b][s].at
        /\ batches[i].session = batches[b].session
    BY <1>1, <1>2 DEF Traced
  <1>4. i \in DOMAIN batches /\ (i = b \/ i < b)
    BY <1>1, <1>3 DEF Shape
  <1>5. batches[b].finished \in Int /\ batches[i].finished \in Int
    <2>1. batches[b] \in Batch /\ batches[i] \in Batch
      BY <1>1, <1>4 DEF Shape
    <2> QED
      BY <2>1 DEF Batch, Minutes
  <1>6. batches[i].finished <= batches[b].finished
    BY <1>1, <1>4, <1>5 DEF Ordered
  <1> QED
    BY <1>2, <1>3, <1>6

\* A cached row repeats, for the same session, quotes that the batch it names saved,
\* a batch for which they were new, however collections overlap.
THEOREM SourcesAreReal == Spec => []CachedRowsAreTraceable
  <1>1. IInv => CachedRowsAreTraceable
    BY TracedSources
  <1> QED
    BY <1>1, IInvAlways, PTL

\* The calculation status of a batch tells what was committed for it, through errors,
\* lost answers and crashes.
THEOREM StatusTellsTheCommit == Spec => []CalculationAgrees
  <1>1. IInv => CalculationAgrees
    BY DEF IInv
  <1> QED
    BY <1>1, IInvAlways, PTL
=============================================================================
