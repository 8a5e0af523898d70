--------------------------- MODULE HistoryProofs ---------------------------
(***************************************************************************)
(* What the Python backend's calculations do to jobs, bars and results, for *)
(* any threads, dates, requests and providers.                             *)
(***************************************************************************)
EXTENDS History, FiniteSetTheorems, WellFoundedInduction, TLAPS

Kept == [request : Requests, status : Active \cup Settled, progress : 0..100,
         finished : BOOLEAN, covered : SUBSET Days]

Places == Executing \cup {"idle", "picked", "checked", "retrying"}

\* Types of what is stored and of what the threads carry along.
Shape ==
  /\ jobs \in Seq(Kept)
  /\ bars \in [Bar -> Nat]
  /\ pc \in [Threads -> Places] /\ held \in [Threads -> Nat]
  /\ wanted \in [Threads -> Requests \cup {None}]
  /\ parts \in [Threads -> SUBSET Bar] /\ rows \in [Threads -> SUBSET Bar]
  /\ dates \in [Threads -> SUBSET Days] /\ draft \in [Threads -> SUBSET Write]

\* A thread past the poll holds a job that exists, unless the user calculates directly.
Holding(t) ==
  /\ pc[t] = "idle" => held[t] = 0
  /\ pc[t] = "checked" => wanted[t] \in Requests /\ held[t] = 0
  /\ pc[t] \in {"picked", "retrying", "fetch", "save", "report", "finish"} => held[t] \in JobIds
  /\ pc[t] = "calc" => held[t] \in JobIds \cup {0}

\* The parts it has yet to download are of its job, rows are saved before the next one, and
\* progress is reported for a part that is saved.
Downloads(t) ==
  /\ pc[t] \in {"fetch", "save", "report"} =>
       /\ Past(jobs[held[t]].request.days) # {}
       /\ parts[t] \subseteq Parts(jobs[held[t]].request)
  /\ pc[t] = "save" => parts[t] # {}
  /\ pc[t] = "report" => parts[t] # Parts(jobs[held[t]].request)
  /\ rows[t] # {} => pc[t] = "save"

DatesOf(W) == {w.at[2] : w \in W}

\* It calculates dates of its job that have quotes, each once.
Drafts(t) ==
  /\ pc[t] \in {"calc", "finish"} /\ held[t] # 0 =>
       /\ dates[t] \cup DatesOf(draft[t]) \subseteq Stored(jobs[held[t]].request.days)
       /\ dates[t] \cap DatesOf(draft[t]) = {}
       /\ \A v, w \in draft[t] : v.at[2] = w.at[2] => v = w
  /\ pc[t] = "finish" => \A w \in draft[t] : w.at \in history
  /\ pc[t] \notin {"calc", "finish"} => draft[t] = {}

ThreadInv(t) == Holding(t) /\ Downloads(t) /\ Drafts(t)

\* A bar about to be saved is not stored, and nobody else is about to save it, unless
\* two downloads of it overlapped.
Fresh ==
  \A t \in Threads : \A b \in rows[t] \ raced :
    bars[b] = 0 /\ \A u \in Others(t) : b \notin rows[u]

Runs(t, j) == held[t] = j /\ pc[t] \in Executing

\* ExecutionAgrees, without cardinalities.
Executed(j) ==
  /\ jobs[j].status = "RUNNING" <=> (\E t \in Threads : Runs(t, j)) \/ j \in abandoned
  /\ \A t \in Threads : Runs(t, j) => j \notin abandoned
  /\ \A t, u \in Threads : Runs(t, j) /\ Runs(u, j) => t = u
  /\ jobs[j].status = "RUNNING" => jobs[j].progress \in 10..85
  /\ jobs[j].status = "PENDING" => jobs[j].progress = 0
  /\ jobs[j].status \in Settled => jobs[j].progress = 100
  /\ jobs[j].finished = TRUE <=> jobs[j].status \in Settled

IInv == /\ Shape /\ \A t \in Threads : ThreadInv(t)
        /\ Fresh /\ NoDuplicateBars /\ abandoned \subseteq JobIds
        /\ \A j \in JobIds \ doubled : Executed(j)
        /\ CompletedIsComplete

-----------------------------------------------------------------------------
(* Least and greatest dates.                                               *)

LEMMA LeastIn ==
  ASSUME NEW S \in SUBSET Nat, IsFiniteSet(S), S # {}
  PROVE  LeastOf(S) \in S
  <1> DEFINE below(x) == {y \in S : y < x}
             T == {below(x) : x \in S}
  <1>1. T \subseteq FiniteSubsetsOf(S)
    <2> SUFFICES ASSUME NEW x \in S PROVE below(x) \in FiniteSubsetsOf(S)
      OBVIOUS
    <2>1. below(x) \in SUBSET S
      OBVIOUS
    <2>2. IsFiniteSet(below(x))
      BY <2>1, FS_Subset
    <2> QED
      BY <2>1, <2>2 DEF FiniteSubsetsOf
  <1>2. T # {}
    OBVIOUS
  <1>3. IsWellFoundedOn(StrictSubsetOrdering(S), FiniteSubsetsOf(S))
    BY FS_StrictSubsetOrderingWellFounded
  <1>4. PICK m \in T : \A B \in T : ~ (<<B, m>> \in StrictSubsetOrdering(S))
    <2> HIDE DEF T
    <2> QED
      BY <1>1, <1>2, <1>3, WFMin
  <1>5. PICK x \in S : m = below(x)
    OBVIOUS
  <1>6. \A y \in S : x <= y
    <2> SUFFICES ASSUME NEW y \in S, y < x PROVE FALSE
      OBVIOUS
    <2>1. below(y) \subseteq below(x) /\ y \in below(x) /\ y \notin below(y)
      <3>1. S \subseteq Nat
        OBVIOUS
      <3>2. \A z \in S : z < y => z < x
        BY <3>1
      <3>3. ~ (y < y)
        BY <3>1
      <3> QED
        BY <3>2, <3>3
    <2>2. below(y) \in SUBSET S /\ below(x) \in SUBSET S /\ below(y) \in T
      OBVIOUS
    <2> HIDE DEF below, T
    <2>3. <<below(y), below(x)>> \in StrictSubsetOrdering(S)
      BY <2>1, <2>2 DEF StrictSubsetOrdering
    <2> QED
      BY <1>4, <1>5, <2>2, <2>3
  <1> QED
    BY <1>6 DEF LeastOf

LEMMA GreatestIn ==
  ASSUME NEW S \in SUBSET Nat, IsFiniteSet(S), S # {}
  PROVE  GreatestOf(S) \in S
  <1> DEFINE above(x) == {y \in S : y > x}
             T == {above(x) : x \in S}
  <1>1. T \subseteq FiniteSubsetsOf(S)
    <2> SUFFICES ASSUME NEW x \in S PROVE above(x) \in FiniteSubsetsOf(S)
      OBVIOUS
    <2>1. above(x) \in SUBSET S
      OBVIOUS
    <2>2. IsFiniteSet(above(x))
      BY <2>1, FS_Subset
    <2> QED
      BY <2>1, <2>2 DEF FiniteSubsetsOf
  <1>2. T # {}
    OBVIOUS
  <1>3. IsWellFoundedOn(StrictSubsetOrdering(S), FiniteSubsetsOf(S))
    BY FS_StrictSubsetOrderingWellFounded
  <1>4. PICK m \in T : \A B \in T : ~ (<<B, m>> \in StrictSubsetOrdering(S))
    <2> HIDE DEF T
    <2> QED
      BY <1>1, <1>2, <1>3, WFMin
  <1>5. PICK x \in S : m = above(x)
    OBVIOUS
  <1>6. \A y \in S : x >= y
    <2> SUFFICES ASSUME NEW y \in S, y > x PROVE FALSE
      OBVIOUS
    <2>1. above(y) \subseteq above(x) /\ y \in above(x) /\ y \notin above(y)
      <3>1. S \subseteq Nat
        OBVIOUS
      <3>2. \A z \in S : z > y => z > x
        BY <3>1
      <3>3. ~ (y > y)
        BY <3>1
      <3> QED
        BY <3>2, <3>3
    <2>2. above(y) \in SUBSET S /\ above(x) \in SUBSET S /\ above(y) \in T
      OBVIOUS
    <2> HIDE DEF above, T
    <2>3. <<above(y), above(x)>> \in StrictSubsetOrdering(S)
      BY <2>1, <2>2 DEF StrictSubsetOrdering
    <2> QED
      BY <1>4, <1>5, <2>2, <2>3
  <1> QED
    BY <1>6 DEF GreatestOf

\* Dates are finite sets of numbers.
LEMMA DaysFinite ==
  ASSUME NEW S \in SUBSET Days
  PROVE  S \in SUBSET Nat /\ IsFiniteSet(S)
  BY HistoryAssumption, FS_Subset

\* Only dates with rows are calculated.
LEMMA AvailableStored ==
  ASSUME NEW r \in Requests
  PROVE  AvailableDates(r) \subseteq Stored(r.days) /\ AvailableDates(r) \subseteq Days
  <1> DEFINE S == Stored(r.days)
  <1>1. S \subseteq Days
    BY HistoryAssumption DEF Stored
  <1>2. CASE r.frequency = "daily"
    BY <1>1, <1>2 DEF AvailableDates
  <1>3. CASE r.frequency # "daily"
    <2>1. ASSUME NEW e \in S
          PROVE  GreatestOf({d \in S : Week[d] = Week[e]}) \in S
      <3> DEFINE W == {d \in S : Week[d] = Week[e]}
      <3>1. W \in SUBSET Days /\ W # {} /\ W \subseteq S
        BY <1>1
      <3> HIDE DEF S, W
      <3>2. GreatestOf(W) \in W
        BY <3>1, DaysFinite, GreatestIn
      <3> QED
        BY <3>1, <3>2 DEF W
    <2>2. AvailableDates(r) = {GreatestOf({d \in S : Week[d] = Week[e]}) : e \in S}
      BY <1>3 DEF AvailableDates
    <2> QED
      BY <1>1, <2>1, <2>2
  <1> QED
    BY <1>2, <1>3

\* The backfill of a job has a part for stocks and one for a window at least.
LEMMA PartsFinite ==
  ASSUME NEW r \in Requests, Past(r.days) # {}
  PROVE  /\ Parts(r) \subseteq Bar /\ IsFiniteSet(Parts(r))
         /\ Cardinality(Parts(r)) \in Nat /\ Cardinality(Parts(r)) >= 2
  <1> DEFINE P == Past(r.days)
             first == <<"stock", LeastOf(P)>>
             O == {Option(d) : d \in P}
  <1>1. P \in SUBSET Days /\ IsFiniteSet(P) /\ LeastOf(P) \in P
    <2>1. P \in SUBSET Days
      BY HistoryAssumption DEF Past
    <2> HIDE DEF P
    <2> QED
      BY <2>1, DaysFinite, LeastIn DEF P
  <1>2. IsFiniteSet(O)
    <2> DEFINE f == [d \in P |-> Option(d)]
    <2>1. f \in Surjection(P, O)
      BY DEF Surjection
    <2> HIDE DEF f, P, O
    <2> QED
      BY <1>1, <2>1, FS_Surjection
  <1>3. Parts(r) = {first} \cup O
    BY DEF Parts
  <1>4. first \in Bar /\ O \subseteq Bar
    BY <1>1 DEF Bar, Option
  <1>5. first \notin O
    BY DEF Option
  <1>6. PICK d \in P : TRUE
    OBVIOUS
  <1>7. Option(d) \in O
    BY <1>6
  <1> HIDE DEF first, O, P
  <1>8. IsFiniteSet(Parts(r)) /\ Cardinality(Parts(r)) = Cardinality(O) + 1
    <2>1. Parts(r) = O \cup {first}
      BY <1>3
    <2>2. Cardinality(O) \in Nat
      BY <1>2, FS_CardinalityType
    <2> QED
      BY <1>2, <1>5, <2>1, FS_AddElement
  <1>9. Cardinality(O) \in Nat /\ Cardinality(O) # 0
    BY <1>2, <1>7, FS_CardinalityType, FS_EmptySet
  <1> QED
    BY <1>3, <1>4, <1>8, <1>9

LEMMA NextPartIn ==
  ASSUME NEW r \in Requests, Past(r.days) # {},
         NEW S \in SUBSET Parts(r), S # {}
  PROVE  NextPart(S) \in S
  <1>1. CASE \E p \in S : p[1] = "stock"
    BY <1>1 DEF NextPart
  <1>2. CASE ~ \E p \in S : p[1] = "stock"
    <2> DEFINE D == {p[2] : p \in S}
    <2>1. \A p \in S : \E d \in Past(r.days) : p = Option(d) /\ p[2] = d
      BY <1>2 DEF Parts, Option
    <2>2. D \in SUBSET Days /\ D # {}
      BY <2>1, HistoryAssumption DEF Past
    <2>3. \A d \in D : Option(d) \in S
      BY <2>1
    <2> HIDE DEF D
    <2>4. LeastOf(D) \in D
      BY <2>2, DaysFinite, LeastIn
    <2> QED
      BY <1>2, <2>3, <2>4 DEF NextPart, D
  <1> QED
    BY <1>1, <1>2

LEMMA ProgressBounds ==
  ASSUME NEW total \in Nat, total >= 2, NEW rest \in Nat, rest <= total - 1
  PROVE  BackfillProgress(total, rest) \in 15..80
  <1> DEFINE a == 65 * (total - 1 - rest)
             b == total - 1
  <1>1. a \in Nat /\ b \in Nat \ {0} /\ a <= 65 * b
    OBVIOUS
  <1> HIDE DEF a, b
  <1>2. a \div b \in 0..65
    BY <1>1
  <1> QED
    BY <1>2 DEF BackfillProgress, a, b

-----------------------------------------------------------------------------
(* What a step of one thread leaves alone.                                 *)

StaysAt(u) ==
  /\ pc'[u] = pc[u] /\ held'[u] = held[u] /\ wanted'[u] = wanted[u]
  /\ parts'[u] = parts[u] /\ rows'[u] = rows[u]
  /\ dates'[u] = dates[u] /\ draft'[u] = draft[u]

\* Jobs keep their requests, bars and results are not deleted.
StoreGrows ==
  /\ provider' = provider /\ history \subseteq history'
  /\ Len(jobs) <= Len(jobs') /\ \A j \in JobIds : jobs'[j].request = jobs[j].request
  /\ \A b \in Bar : bars[b] <= bars'[b]

LEMMA StoredGrows ==
  ASSUME Shape, Shape', StoreGrows, NEW S \in SUBSET Days
  PROVE  Stored(S) \subseteq Stored(S)'
  <1> SUFFICES ASSUME NEW d \in S, Content(d) # {} PROVE Content(d)' # {}
    BY DEF Stored
  <1>1. Option(d) \in Bar
    BY DEF Option, Bar
  <1>2. bars[Option(d)] \in Nat /\ bars'[Option(d)] \in Nat
    BY <1>1 DEF Shape
  <1>3. bars[Option(d)] <= bars'[Option(d)] /\ provider' = provider
    BY <1>1 DEF StoreGrows
  <1>4. PICK k \in {"live", "bar"} :
          IF k = "live" THEN d \in Collected[provider]
          ELSE provider = "ALPACA" /\ bars[Option(d)] > 0
    BY DEF Content
  <1>5. IF k = "live" THEN d \in Collected[provider']
        ELSE provider' = "ALPACA" /\ bars'[Option(d)] > 0
    BY <1>2, <1>3, <1>4
  <1>6. k \in Content(d)'
    BY <1>5 DEF Content
  <1> QED
    BY <1>6

\* The job a thread holds, and its request.
LEMMA JobOf ==
  ASSUME Shape, NEW j \in JobIds
  PROVE  /\ jobs[j] \in Kept /\ jobs[j].request \in Requests
         /\ jobs[j].request.days \in SUBSET Days /\ j \in Nat /\ j # 0
  <1>1. jobs[j] \in Kept /\ j \in Nat /\ j # 0
    BY DEF Shape, JobIds
  <1> QED
    BY <1>1, HistoryAssumption DEF Kept

LEMMA OthersKept ==
  ASSUME Shape, Shape', StoreGrows, NEW u \in Threads, ThreadInv(u), StaysAt(u)
  PROVE  ThreadInv(u)'
  <1>1. JobIds \subseteq JobIds'
    BY DEF Shape, StoreGrows, JobIds
  <1>2. Holding(u)'
    BY <1>1 DEF ThreadInv, Holding, StaysAt
  <1>3. Downloads(u)'
    <2>1. ASSUME pc[u] \in {"fetch", "save", "report"}
          PROVE  jobs'[held[u]].request = jobs[held[u]].request
      BY <2>1 DEF ThreadInv, Holding, StoreGrows
    <2> QED
      BY <2>1 DEF ThreadInv, Downloads, StaysAt
  <1>4. Drafts(u)'
    <2>1. ASSUME pc[u] \in {"calc", "finish"}, held[u] # 0
          PROVE  dates[u] \cup DatesOf(draft[u]) \subseteq Stored(jobs[held[u]].request.days)'
      <3>1. held[u] \in JobIds
        BY <2>1 DEF ThreadInv, Holding
      <3>2. /\ jobs'[held[u]].request = jobs[held[u]].request
            /\ jobs[held[u]].request.days \in SUBSET Days
        BY <3>1, JobOf DEF StoreGrows
      <3>3. PICK D \in SUBSET Days : D = jobs[held[u]].request.days
        BY <3>2
      <3>4. Stored(D) \subseteq Stored(D)'
        BY StoredGrows
      <3>5. Stored(jobs[held[u]].request.days)' = Stored(D)'
        BY <3>2, <3>3 DEF Stored, Content, StaysAt
      <3>6. dates[u] \cup DatesOf(draft[u]) \subseteq Stored(D)
        BY <2>1, <3>3 DEF ThreadInv, Drafts
      <3> QED
        BY <3>4, <3>5, <3>6
    <2>2. ASSUME pc[u] \in {"calc", "finish"}, held[u] # 0
          PROVE  /\ dates[u] \cap DatesOf(draft[u]) = {}
                 /\ \A v, w \in draft[u] : v.at[2] = w.at[2] => v = w
      BY <2>2 DEF ThreadInv, Drafts
    <2>3. pc[u] = "finish" => \A w \in draft[u] : w.at \in history'
      BY DEF ThreadInv, Drafts, StoreGrows
    <2>4. pc[u] \notin {"calc", "finish"} => draft[u] = {}
      BY DEF ThreadInv, Drafts
    <2> QED
      BY <2>1, <2>2, <2>3, <2>4 DEF Drafts, StaysAt, DatesOf
  <1> QED
    BY <1>2, <1>3, <1>4 DEF ThreadInv

LEMMA UpdateJob ==
  ASSUME Shape, NEW j \in JobIds, NEW new \in Kept, new.request = jobs[j].request,
         jobs' = [jobs EXCEPT ![j] = new]
  PROVE  /\ jobs' \in Seq(Kept) /\ Len(jobs') = Len(jobs) /\ JobIds' = JobIds
         /\ jobs'[j] = new /\ \A i \in JobIds \ {j} : jobs'[i] = jobs[i]
         /\ \A i \in JobIds : jobs'[i].request = jobs[i].request
  <1>1. jobs' \in Seq(Kept) /\ Len(jobs') = Len(jobs)
    BY DEF Shape, JobIds
  <1>2. jobs'[j] = new /\ \A i \in JobIds \ {j} : jobs'[i] = jobs[i]
    BY DEF Shape, JobIds
  <1>3. JobIds' = JobIds
    BY <1>1 DEF JobIds
  <1> QED
    BY <1>1, <1>2, <1>3

LEMMA AnswerEffect ==
  ASSUME Shape, NEW t \in Threads, Answer(t)
  PROVE  /\ pc' \in [Threads -> Places] /\ held' \in [Threads -> Nat]
         /\ wanted' \in [Threads -> Requests \cup {None}]
         /\ parts' \in [Threads -> SUBSET Bar] /\ rows' \in [Threads -> SUBSET Bar]
         /\ dates' \in [Threads -> SUBSET Days] /\ draft' \in [Threads -> SUBSET Write]
         /\ ThreadInv(t)' /\ \A u \in Others(t) : StaysAt(u)
         /\ pc'[t] = "idle" /\ held'[t] = 0 /\ rows'[t] = {}
  <1>1. /\ pc' \in [Threads -> Places] /\ held' \in [Threads -> Nat]
        /\ wanted' \in [Threads -> Requests \cup {None}]
    BY DEF Shape, Answer, Places
  <1>2. /\ parts' \in [Threads -> SUBSET Bar] /\ rows' \in [Threads -> SUBSET Bar]
        /\ dates' \in [Threads -> SUBSET Days] /\ draft' \in [Threads -> SUBSET Write]
    BY DEF Shape, Answer
  <1>3. /\ pc'[t] = "idle" /\ held'[t] = 0 /\ rows'[t] = {} /\ draft'[t] = {}
        /\ \A u \in Others(t) : StaysAt(u)
    BY DEF Shape, Answer, Others, StaysAt
  <1>4. ThreadInv(t)'
    BY <1>3 DEF ThreadInv, Holding, Downloads, Drafts
  <1> QED
    BY <1>1, <1>2, <1>3, <1>4

\* Nothing is stored and rows are not prepared, only dropped.
LEMMA RowsQuiet ==
  ASSUME Fresh, NoDuplicateBars, bars' = bars, raced' = raced,
         \A u \in Threads : rows'[u] \subseteq rows[u]
  PROVE  Fresh' /\ NoDuplicateBars'
  BY DEF Fresh, NoDuplicateBars, Others

\* The jobs stay as they are, and who executes them.
LEMMA QuietStep ==
  ASSUME IInv, NEW t \in Threads, Shape', ThreadInv(t)', Fresh', NoDuplicateBars',
         jobs' = jobs, provider' = provider, history \subseteq history',
         bars' = bars \/ \A b \in Bar : bars[b] <= bars'[b],
         doubled' = doubled, abandoned' = abandoned, \A u \in Others(t) : StaysAt(u),
         \A j \in JobIds : Runs(t, j)' <=> Runs(t, j)
  PROVE  IInv'
  <1>1. StoreGrows
    BY DEF IInv, Shape, StoreGrows
  <1>2. \A u \in Threads : ThreadInv(u)'
    BY <1>1, OthersKept DEF IInv, Others
  <1>3. ASSUME NEW j \in JobIds' \ doubled' PROVE Executed(j)'
    <2>1. j \in JobIds /\ Executed(j)
      BY <1>3 DEF IInv, JobIds
    <2>2. \A u \in Threads : Runs(u, j)' <=> Runs(u, j)
      BY <2>1 DEF Others, Runs, StaysAt
    <2> HIDE DEF Runs
    <2> QED
      BY <2>1, <2>2 DEF Executed
  <1>4. CompletedIsComplete'
    BY DEF IInv, CompletedIsComplete, JobIds
  <1>5. abandoned' \subseteq JobIds'
    BY DEF IInv, JobIds
  <1> QED
    BY <1>2, <1>3, <1>4, <1>5 DEF IInv

\* The job of the thread is changed.
LEMMA JobStep ==
  ASSUME IInv, NEW t \in Threads, NEW j \in JobIds, NEW new \in Kept,
         new.request = jobs[j].request, jobs' = [jobs EXCEPT ![j] = new],
         Shape', ThreadInv(t)', Fresh', NoDuplicateBars',
         provider' = provider, history' = history, \A b \in Bar : bars[b] <= bars'[b],
         doubled \subseteq doubled', \A u \in Others(t) : StaysAt(u),
         held[t] = j, held'[t] \in {0, j}, abandoned' \subseteq abandoned \cup {j},
         \A i \in JobIds \ {j} : i \in abandoned' <=> i \in abandoned,
         j \notin doubled' => Executed(j)',
         new.status = "COMPLETED" => \A d \in new.covered : \E at \in history : at[2] = d
  PROVE  IInv'
  <1>1. /\ Len(jobs') = Len(jobs) /\ JobIds' = JobIds
        /\ jobs'[j] = new /\ \A i \in JobIds \ {j} : jobs'[i] = jobs[i]
        /\ \A i \in JobIds : jobs'[i].request = jobs[i].request
    BY UpdateJob DEF IInv
  <1>2. StoreGrows
    BY <1>1 DEF IInv, Shape, StoreGrows
  <1>3. \A u \in Threads : ThreadInv(u)'
    BY <1>2, OthersKept DEF IInv, Others
  <1>4. ASSUME NEW i \in JobIds' \ doubled', i # j PROVE Executed(i)'
    <2>1. i \in JobIds /\ Executed(i) /\ jobs'[i] = jobs[i] /\ i # 0
      BY <1>1, <1>4, JobOf DEF IInv
    <2>2. \A u \in Threads : Runs(u, i)' <=> Runs(u, i)
      BY <1>4, <2>1 DEF Others, Runs, StaysAt
    <2>3. i \in abandoned' <=> i \in abandoned
      BY <1>4, <2>1
    <2> HIDE DEF Runs
    <2> QED
      BY <2>1, <2>2, <2>3 DEF Executed
  <1>5. CompletedIsComplete'
    BY <1>1 DEF IInv, CompletedIsComplete
  <1>6. abandoned' \subseteq JobIds'
    BY <1>1 DEF IInv
  <1> QED
    BY <1>3, <1>4, <1>5, <1>6 DEF IInv

-----------------------------------------------------------------------------
(* The steps.                                                              *)

LEMMA InitIInv == Init => IInv
  <1> SUFFICES ASSUME Init PROVE IInv
    OBVIOUS
  <1>1. Shape
    <2>1. jobs \in Seq(Kept) /\ bars \in [Bar -> Nat]
      BY DEF Init
    <2>2. /\ pc \in [Threads -> Places] /\ held \in [Threads -> Nat]
          /\ wanted \in [Threads -> Requests \cup {None}]
      BY DEF Init, Places
    <2>3. /\ parts \in [Threads -> SUBSET Bar] /\ rows \in [Threads -> SUBSET Bar]
          /\ dates \in [Threads -> SUBSET Days] /\ draft \in [Threads -> SUBSET Write]
      BY DEF Init
    <2> QED
      BY <2>1, <2>2, <2>3 DEF Shape
  <1>2. JobIds = {}
    BY DEF Init, JobIds
  <1>3. ASSUME NEW t \in Threads PROVE ThreadInv(t)
    BY DEF Init, ThreadInv, Holding, Downloads, Drafts
  <1>4. Fresh /\ NoDuplicateBars
    BY DEF Init, Fresh, NoDuplicateBars
  <1>5. abandoned \subseteq JobIds
    BY DEF Init
  <1> QED
    BY <1>1, <1>2, <1>3, <1>4, <1>5 DEF IInv, CompletedIsComplete

\* An idle thread carries nothing along.
LEMMA IdleThread ==
  ASSUME IInv, NEW t \in Threads, pc[t] = "idle"
  PROVE  held[t] = 0 /\ rows[t] = {} /\ draft[t] = {}
  BY DEF IInv, ThreadInv, Holding, Downloads, Drafts

LEMMA CreateKeepsInv ==
  ASSUME IInv, NEW t \in Threads, NEW r \in Requests, CreateJob(t, r)
  PROVE  IInv'
  <1>1. /\ pc[t] = "idle" /\ pc' = [pc EXCEPT ![t] = "checked"]
        /\ wanted' = [wanted EXCEPT ![t] = r]
        /\ UNCHANGED <<provider, jobs, bars, history, held, parts, rows, dates, draft, raced,
                       doubled, abandoned>>
    BY DEF CreateJob
  <1>2. held[t] = 0 /\ rows[t] = {} /\ draft[t] = {}
    BY <1>1, IdleThread
  <1>3. Shape' /\ pc'[t] = "checked" /\ wanted'[t] = r
    BY <1>1 DEF IInv, Shape, Places
  <1>4. \A u \in Others(t) : StaysAt(u)
    BY <1>1 DEF IInv, Shape, Others, StaysAt
  <1>5. ThreadInv(t)'
    BY <1>1, <1>2, <1>3 DEF ThreadInv, Holding, Downloads, Drafts
  <1>6. Fresh' /\ NoDuplicateBars'
    BY <1>1, RowsQuiet DEF IInv
  <1>7. \A j \in JobIds : Runs(t, j)' <=> Runs(t, j)
    BY <1>1, <1>3 DEF Runs, Executing
  <1> QED
    BY <1>1, <1>3, <1>4, <1>5, <1>6, <1>7, QuietStep

LEMMA CalculateKeepsInv ==
  ASSUME IInv, NEW t \in Threads, NEW r \in Requests, CalculateHistory(t, r)
  PROVE  IInv'
  <1>1. /\ pc[t] = "idle" /\ pc' = [pc EXCEPT ![t] = "calc"]
        /\ wanted' = [wanted EXCEPT ![t] = r]
        /\ dates' = [dates EXCEPT ![t] = AvailableDates(r)]
        /\ UNCHANGED <<provider, jobs, bars, history, held, parts, rows, draft, raced, doubled,
                       abandoned>>
    BY DEF CalculateHistory
  <1>2. held[t] = 0 /\ rows[t] = {} /\ draft[t] = {} /\ AvailableDates(r) \subseteq Days
    BY <1>1, IdleThread, AvailableStored
  <1>3. Shape' /\ pc'[t] = "calc"
    BY <1>1, <1>2 DEF IInv, Shape, Places, Executing
  <1>4. \A u \in Others(t) : StaysAt(u)
    BY <1>1 DEF IInv, Shape, Others, StaysAt
  <1>5. ThreadInv(t)'
    BY <1>1, <1>2, <1>3 DEF ThreadInv, Holding, Downloads, Drafts
  <1>6. Fresh' /\ NoDuplicateBars'
    BY <1>1, RowsQuiet DEF IInv
  <1>7. \A j \in JobIds : Runs(t, j)' <=> Runs(t, j)
    BY <1>1, <1>2, JobOf DEF Runs, IInv
  <1> QED
    BY <1>1, <1>3, <1>4, <1>5, <1>6, <1>7, QuietStep

LEMMA RetryKeepsInv ==
  ASSUME IInv, NEW t \in Threads, NEW j \in JobIds, RetryJob(t, j)
  PROVE  IInv'
  <1>1. /\ pc[t] = "idle" /\ pc' = [pc EXCEPT ![t] = "retrying"]
        /\ held' = [held EXCEPT ![t] = j]
        /\ UNCHANGED <<provider, jobs, bars, history, wanted, parts, rows, dates, draft, raced,
                       doubled, abandoned>>
    BY DEF RetryJob
  <1>2. held[t] = 0 /\ rows[t] = {} /\ draft[t] = {} /\ j \in Nat
    BY <1>1, IdleThread, JobOf DEF IInv
  <1>3. Shape' /\ pc'[t] = "retrying" /\ held'[t] = j
    BY <1>1, <1>2 DEF IInv, Shape, Places
  <1>4. \A u \in Others(t) : StaysAt(u)
    BY <1>1 DEF IInv, Shape, Others, StaysAt
  <1>5. ThreadInv(t)'
    BY <1>1, <1>2, <1>3 DEF ThreadInv, Holding, Downloads, Drafts, JobIds
  <1>6. Fresh' /\ NoDuplicateBars'
    BY <1>1, RowsQuiet DEF IInv
  <1>7. \A i \in JobIds : Runs(t, i)' <=> Runs(t, i)
    BY <1>1, <1>3 DEF Runs, Executing
  <1> QED
    BY <1>1, <1>3, <1>4, <1>5, <1>6, <1>7, QuietStep

LEMMA PollKeepsInv ==
  ASSUME IInv, NEW t \in Threads, Poll(t)
  PROVE  IInv'
  <1> DEFINE pending == {j \in JobIds : jobs[j].status = "PENDING"}
             j == LeastOf(pending)
  <1>1. /\ pc[t] = "idle" /\ pc' = [pc EXCEPT ![t] = "picked"]
        /\ held' = [held EXCEPT ![t] = j] /\ pending # {}
        /\ UNCHANGED <<provider, jobs, bars, history, wanted, parts, rows, dates, draft, raced,
                       doubled, abandoned>>
    BY DEF Poll
  <1>2. j \in JobIds /\ j \in Nat
    <2>1. JobIds \in SUBSET Nat /\ IsFiniteSet(JobIds)
      BY FS_Interval DEF IInv, Shape, JobIds
    <2>2. pending \in SUBSET Nat /\ IsFiniteSet(pending) /\ pending \subseteq JobIds
      BY <2>1, FS_Subset
    <2> HIDE DEF pending
    <2> QED
      BY <1>1, <2>2, LeastIn
  <1> HIDE DEF j
  <1>3. held[t] = 0 /\ rows[t] = {} /\ draft[t] = {}
    BY <1>1, IdleThread
  <1>4. Shape' /\ pc'[t] = "picked" /\ held'[t] = j
    BY <1>1, <1>2 DEF IInv, Shape, Places
  <1>5. \A u \in Others(t) : StaysAt(u)
    BY <1>1 DEF IInv, Shape, Others, StaysAt
  <1>6. ThreadInv(t)'
    BY <1>1, <1>2, <1>3, <1>4 DEF ThreadInv, Holding, Downloads, Drafts, JobIds
  <1>7. Fresh' /\ NoDuplicateBars'
    BY <1>1, RowsQuiet DEF IInv
  <1>8. \A i \in JobIds : Runs(t, i)' <=> Runs(t, i)
    BY <1>1, <1>4 DEF Runs, Executing
  <1> QED
    BY <1>1, <1>4, <1>5, <1>6, <1>7, <1>8, QuietStep

LEMMA FetchKeepsInv ==
  ASSUME IInv, NEW t \in Threads, Fetch(t)
  PROVE  IInv'
  <1>1. PICK got \in {{}, Asked(t, NextPart(parts[t]))} :
          /\ rows' = [rows EXCEPT ![t] = Missing(got)]
          /\ raced' = raced \cup {b \in got : \E u \in Others(t) : pc[u] = "save" /\ b \in rows[u]}
    BY DEF Fetch
  <1>2. /\ pc[t] = "fetch" /\ parts[t] # {} /\ pc' = [pc EXCEPT ![t] = "save"]
        /\ UNCHANGED <<provider, jobs, bars, history, held, wanted, parts, dates, draft, doubled,
                       abandoned>>
    BY DEF Fetch
  <1>3. got \subseteq Bar
    <2> DEFINE r == jobs[held[t]].request
               p == NextPart(parts[t])
    <2>1. /\ r \in Requests /\ Past(r.days) # {}
          /\ parts[t] \in SUBSET Parts(r)
      BY <1>2, JobOf DEF IInv, ThreadInv, Holding, Downloads
    <2> HIDE DEF r
    <2>2. p \in Bar
      BY <1>2, <2>1, NextPartIn, PartsFinite
    <2>3. \A d \in Past(Days) : Stock(d) \in Bar
      BY DEF Past, Stock, Bar
    <2>4. Asked(t, p) \subseteq Bar
      BY <2>2, <2>3 DEF Asked, r
    <2> QED
      BY <2>4
  <1>4. Shape' /\ pc'[t] = "save" /\ rows'[t] = Missing(got)
    BY <1>1, <1>2, <1>3 DEF IInv, Shape, Places, Executing, Missing
  <1>5. \A u \in Others(t) : StaysAt(u)
    BY <1>1, <1>2 DEF IInv, Shape, Others, StaysAt
  <1>6. ThreadInv(t)'
    BY <1>2, <1>4 DEF IInv, ThreadInv, Holding, Downloads, Drafts, JobIds, Parts, Past
  <1>7. Fresh'
    <2> SUFFICES ASSUME NEW u \in Threads, NEW b \in rows'[u], b \notin raced'
                 PROVE  bars[b] = 0 /\ \A v \in Others(u) : b \notin rows'[v]
      BY <1>2 DEF Fresh, Others
    <2>1. \A v \in Others(t) : rows'[v] = rows[v] /\ (rows[v] # {} => pc[v] = "save")
      BY <1>5 DEF StaysAt, IInv, ThreadInv, Downloads, Others
    <2>2. b \notin raced
      BY <1>1
    <2>3. CASE u = t
      BY <1>1, <1>4, <2>1, <2>3 DEF Missing
    <2>4. CASE u # t
      <3>1. u \in Others(t) /\ b \in rows[u]
        BY <2>1, <2>4 DEF Others
      <3>2. bars[b] = 0 /\ \A v \in Others(u) : b \notin rows[v]
        BY <2>2, <3>1 DEF IInv, Fresh
      <3>3. b \notin rows'[t]
        BY <1>1, <1>4, <2>1, <3>1 DEF Missing
      <3> QED
        BY <2>1, <3>2, <3>3 DEF Others
    <2> QED
      BY <2>3, <2>4
  <1>8. NoDuplicateBars'
    BY <1>1, <1>2 DEF IInv, NoDuplicateBars
  <1>9. \A j \in JobIds : Runs(t, j)' <=> Runs(t, j)
    BY <1>2, <1>4 DEF Runs, Executing
  <1> QED
    BY <1>2, <1>4, <1>5, <1>6, <1>7, <1>8, <1>9, QuietStep

LEMMA SaveKeepsInv ==
  ASSUME IInv, NEW t \in Threads, Save(t)
  PROVE  IInv'
  <1> DEFINE r == jobs[held[t]].request
             rest == parts[t] \ {NextPart(parts[t])}
  <1>1. /\ pc[t] = "save" /\ pc' = [pc EXCEPT ![t] = "report"]
        /\ bars' = [b \in Bar |-> bars[b] + (IF b \in rows[t] THEN 1 ELSE 0)]
        /\ parts' = [parts EXCEPT ![t] = rest] /\ rows' = [rows EXCEPT ![t] = {}]
        /\ UNCHANGED <<provider, jobs, history, held, wanted, dates, draft, raced, doubled,
                       abandoned>>
    BY DEF Save
  <1>2. /\ held[t] \in JobIds /\ parts[t] # {} /\ parts[t] \in SUBSET Parts(r)
        /\ Past(r.days) # {} /\ draft[t] = {}
    BY <1>1 DEF IInv, ThreadInv, Holding, Downloads, Drafts
  <1>3. NextPart(parts[t]) \in parts[t]
    BY <1>2, JobOf, NextPartIn DEF IInv
  <1>4. rest \subseteq Parts(r) /\ rest # Parts(r)
    BY <1>2, <1>3
  <1> HIDE DEF rest, r
  <1>5. Shape' /\ pc'[t] = "report" /\ parts'[t] = rest /\ rows'[t] = {}
    <2>1. bars' \in [Bar -> Nat]
      BY <1>1 DEF IInv, Shape
    <2>2. rest \subseteq parts[t]
      BY DEF rest
    <2> QED
      BY <1>1, <2>1, <2>2 DEF IInv, Shape, Places, Executing
  <1>6. \A u \in Others(t) : StaysAt(u)
    BY <1>1 DEF IInv, Shape, Others, StaysAt
  <1>7. ThreadInv(t)'
    <2>1. jobs'[held'[t]].request = r /\ held'[t] \in JobIds'
      BY <1>1, <1>2 DEF r, JobIds
    <2>2. Holding(t)' /\ Downloads(t)'
      BY <1>2, <1>4, <1>5, <2>1 DEF Holding, Downloads, Parts, Past
    <2>3. Drafts(t)'
      BY <1>1, <1>2, <1>5 DEF Drafts
    <2> QED
      BY <2>2, <2>3 DEF ThreadInv
  <1>8. Fresh'
    <2> SUFFICES ASSUME NEW u \in Threads, NEW b \in rows'[u], b \notin raced'
                 PROVE  bars'[b] = 0 /\ \A v \in Others(u) : b \notin rows'[v]
      BY <1>1 DEF Fresh, Others
    <2>1. u \in Others(t) /\ b \in rows[u] /\ b \in Bar
      BY <1>5, <1>6 DEF Others, StaysAt, IInv, Shape
    <2>2. bars[b] = 0 /\ \A v \in Others(u) : b \notin rows[v]
      BY <1>1, <2>1 DEF IInv, Fresh, Others
    <2>3. b \notin rows[t]
      BY <2>1, <2>2 DEF Others
    <2> QED
      BY <1>1, <1>5, <1>6, <2>1, <2>2, <2>3 DEF Others, StaysAt
  <1>9. NoDuplicateBars'
    <2> SUFFICES ASSUME NEW b \in Bar, b \notin raced PROVE ~ (bars'[b] > 1)
      BY <1>1 DEF NoDuplicateBars
    <2>1. bars[b] \in Nat /\ ~ (bars[b] > 1)
      BY DEF IInv, Shape, NoDuplicateBars
    <2>2. b \in rows[t] => bars[b] = 0
      BY DEF IInv, Fresh
    <2> QED
      BY <1>1, <2>1, <2>2
  <1>10. \A b \in Bar : bars[b] <= bars'[b]
    BY <1>1 DEF IInv, Shape
  <1>11. \A i \in JobIds : Runs(t, i)' <=> Runs(t, i)
    BY <1>1, <1>5 DEF Runs, Executing
  <1> QED
    BY <1>1, <1>5, <1>6, <1>7, <1>8, <1>9, <1>10, <1>11, QuietStep

LEMMA ReportKeepsInv ==
  ASSUME IInv, NEW t \in Threads, Report(t)
  PROVE  IInv'
  <1>0. PICK j \in JobIds : j = held[t]
    BY DEF Report, IInv, ThreadInv, Holding
  <1> DEFINE r == jobs[j].request
             rest == parts[t]
             done == BackfillProgress(Cardinality(Parts(r)), Cardinality(rest))
             new == [jobs[j] EXCEPT !.progress = done]
  <1>1. /\ held[t] = j /\ pc[t] = "report" /\ pc' = [pc EXCEPT ![t] = "fetch"]
        /\ jobs' = [jobs EXCEPT ![j] = new]
        /\ UNCHANGED <<provider, bars, history, held, wanted, parts, rows, dates, draft, raced,
                       doubled, abandoned>>
    BY <1>0 DEF Report
  <1>2. /\ rest \in SUBSET Parts(r) /\ rest # Parts(r)
        /\ Past(r.days) # {} /\ draft[t] = {} /\ rows[t] = {}
    BY <1>1 DEF IInv, ThreadInv, Holding, Downloads, Drafts
  <1>3. jobs[j] \in Kept /\ r \in Requests /\ j # 0
    BY JobOf DEF IInv
  <1>4. done \in 15..80
    <2> DEFINE total == Cardinality(Parts(r))
               left  == Cardinality(rest)
    <2>1. /\ IsFiniteSet(Parts(r)) /\ total \in Nat /\ total >= 2
      BY <1>2, <1>3, PartsFinite
    <2>2. IsFiniteSet(rest) /\ left \in Nat /\ left <= total
      BY <1>2, <2>1, FS_Subset, FS_CardinalityType
    <2>3. left # total
      BY <1>2, <2>1, FS_Subset
    <2> HIDE DEF total, left
    <2>4. left <= total - 1
      BY <2>1, <2>2, <2>3
    <2>5. BackfillProgress(total, left) \in 15..80
      BY <2>1, <2>2, <2>4, ProgressBounds
    <2> QED
      BY <2>5 DEF total, left
  <1>5. PICK x \in Kept : /\ x = new /\ x.request = r /\ x.status = jobs[j].status
                          /\ x.progress \in 15..80 /\ x.finished = jobs[j].finished
                          /\ x.covered = jobs[j].covered
    <2> HIDE DEF done
    <2>1. new \in Kept
      BY <1>3, <1>4 DEF Kept
    <2> QED
      BY <1>3, <1>4, <2>1 DEF Kept
  <1>6. jobs' = [jobs EXCEPT ![j] = x]
    BY <1>1, <1>5
  <1> HIDE DEF new, done, r, rest
  <1>7. jobs' \in Seq(Kept) /\ jobs'[j] = x /\ JobIds' = JobIds
    BY <1>5, <1>6, UpdateJob DEF IInv, r
  <1>8. Shape' /\ pc'[t] = "fetch"
    BY <1>1, <1>7 DEF IInv, Shape, Places, Executing
  <1>9. \A u \in Others(t) : StaysAt(u)
    BY <1>1 DEF IInv, Shape, Others, StaysAt
  <1>10. ThreadInv(t)'
    <2>1. Holding(t)'
      BY <1>1, <1>7, <1>8 DEF Holding
    <2>2. Downloads(t)'
      <3>1. jobs'[held'[t]].request = r /\ parts'[t] = rest /\ rows'[t] = {}
        BY <1>1, <1>2, <1>5, <1>7 DEF rest
      <3> QED
        BY <1>2, <1>8, <3>1 DEF Downloads, Past, Parts
    <2>3. Drafts(t)'
      BY <1>1, <1>2, <1>8 DEF Drafts
    <2> QED
      BY <2>1, <2>2, <2>3 DEF ThreadInv
  <1>11. Fresh' /\ NoDuplicateBars'
    BY <1>1, RowsQuiet DEF IInv
  <1>12. \A b \in Bar : bars[b] <= bars'[b]
    BY <1>1 DEF IInv, Shape
  <1>13. ASSUME j \notin doubled PROVE Executed(j)'
    <2>1. Executed(j) /\ Runs(t, j)
      BY <1>1, <1>13 DEF IInv, Runs, Executing
    <2>2. \A u \in Threads : Runs(u, j)' <=> Runs(u, j)
      BY <1>1, <1>8, <1>9 DEF Runs, Executing, Others, StaysAt
    <2>3. jobs[j].status = "RUNNING" /\ abandoned' = abandoned
      BY <1>1, <2>1 DEF Executed
    <2>4. x.progress \in 10..85
      BY <1>5
    <2> HIDE DEF Runs
    <2> QED
      BY <1>5, <1>7, <2>1, <2>2, <2>3, <2>4 DEF Executed, Settled
  <1>14. /\ x.request = jobs[j].request /\ jobs' = [jobs EXCEPT ![j] = x]
         /\ x.status = "COMPLETED" => \A d \in x.covered : \E at \in history : at[2] = d
    BY <1>5, <1>6 DEF r, IInv, CompletedIsComplete
  <1>15. held'[t] \in {0, j} /\ doubled' = doubled /\ provider' = provider /\ history' = history
         /\ abandoned' = abandoned
    BY <1>1
  <1> QED
    BY <1>1, <1>8, <1>9, <1>10, <1>11, <1>12, <1>13, <1>14, <1>15, JobStep

LEMMA BackfilledKeepsInv ==
  ASSUME IInv, NEW t \in Threads, Backfilled(t)
  PROVE  IInv'
  <1>0. PICK j \in JobIds : j = held[t]
    BY DEF Backfilled, IInv, ThreadInv, Holding
  <1> DEFINE r == jobs[j].request
             new == [jobs[j] EXCEPT !.progress = 85]
  <1>1. /\ held[t] = j /\ pc[t] = "fetch" /\ pc' = [pc EXCEPT ![t] = "calc"]
        /\ dates' = [dates EXCEPT ![t] = AvailableDates(r)]
        /\ jobs' = [jobs EXCEPT ![j] = new]
        /\ UNCHANGED <<provider, bars, history, held, wanted, parts, rows, draft, raced, doubled,
                       abandoned>>
    BY <1>0 DEF Backfilled
  <1>2. j \in JobIds /\ draft[t] = {} /\ rows[t] = {}
    BY <1>1 DEF IInv, ThreadInv, Holding, Downloads, Drafts
  <1>3. jobs[j] \in Kept /\ r \in Requests /\ j # 0
    BY <1>2, JobOf DEF IInv
  <1>4. AvailableDates(r) \subseteq Stored(r.days) /\ AvailableDates(r) \subseteq Days
    BY <1>3, AvailableStored
  <1>5. PICK x \in Kept : /\ x = new /\ x.request = r /\ x.status = jobs[j].status
                          /\ x.progress = 85 /\ x.finished = jobs[j].finished
                          /\ x.covered = jobs[j].covered
    <2>1. new \in Kept
      BY <1>3 DEF Kept
    <2> QED
      BY <1>3, <2>1 DEF Kept
  <1>6. jobs' = [jobs EXCEPT ![j] = x]
    BY <1>1, <1>5
  <1> HIDE DEF new, r
  <1>7. jobs' \in Seq(Kept) /\ jobs'[j] = x /\ JobIds' = JobIds
    BY <1>2, <1>5, <1>6, UpdateJob DEF IInv, r
  <1>8. Shape' /\ pc'[t] = "calc" /\ dates'[t] = AvailableDates(r)
    BY <1>1, <1>4, <1>7 DEF IInv, Shape, Places, Executing
  <1>9. \A u \in Others(t) : StaysAt(u)
    BY <1>1 DEF IInv, Shape, Others, StaysAt
  <1>10. ThreadInv(t)'
    <2>1. Holding(t)'
      BY <1>1, <1>2, <1>7, <1>8 DEF Holding
    <2>2. Downloads(t)'
      BY <1>1, <1>2, <1>8 DEF Downloads
    <2>3. Drafts(t)'
      <3>1. Stored(jobs[held[t]].request.days)' = Stored(r.days)
        BY <1>1, <1>5, <1>7 DEF Stored, Content
      <3>2. draft'[t] = {} /\ DatesOf(draft'[t]) = {}
        BY <1>1, <1>2 DEF DatesOf
      <3> QED
        BY <1>4, <1>8, <3>1, <3>2 DEF Drafts, DatesOf
    <2> QED
      BY <2>1, <2>2, <2>3 DEF ThreadInv
  <1>11. Fresh' /\ NoDuplicateBars'
    BY <1>1, RowsQuiet DEF IInv
  <1>12. \A b \in Bar : bars[b] <= bars'[b]
    BY <1>1 DEF IInv, Shape
  <1>13. ASSUME j \notin doubled PROVE Executed(j)'
    <2>1. Executed(j) /\ Runs(t, j)
      BY <1>1, <1>2, <1>13 DEF IInv, Runs, Executing
    <2>2. \A u \in Threads : Runs(u, j)' <=> Runs(u, j)
      BY <1>1, <1>8, <1>9 DEF Runs, Executing, Others, StaysAt
    <2>3. jobs[j].status = "RUNNING" /\ abandoned' = abandoned
      BY <1>1, <2>1 DEF Executed
    <2> HIDE DEF Runs
    <2> QED
      BY <1>5, <1>7, <2>1, <2>2, <2>3 DEF Executed, Settled
  <1>14. /\ x.request = jobs[j].request /\ jobs' = [jobs EXCEPT ![j] = x]
         /\ x.status = "COMPLETED" => \A d \in x.covered : \E at \in history : at[2] = d
    BY <1>2, <1>5, <1>6 DEF r, IInv, CompletedIsComplete
  <1>15. held'[t] \in {0, j} /\ doubled' = doubled /\ provider' = provider /\ history' = history
         /\ abandoned' = abandoned
    BY <1>1
  <1> QED
    BY <1>1, <1>8, <1>9, <1>10, <1>11, <1>12, <1>13, <1>14, <1>15, JobStep

LEMMA BeginKeepsInv ==
  ASSUME IInv, NEW t \in Threads, BeginJob(t)
  PROVE  IInv'
  <1>0. PICK j \in JobIds : j = held[t]
    BY DEF BeginJob, IInv, ThreadInv, Holding
  <1> DEFINE r == jobs[j].request
             backfills == provider = "ALPACA" /\ Past(r.days) # {}
             new == [jobs[j] EXCEPT !.status = "RUNNING", !.progress = 10]
  <1>1. /\ held[t] = j /\ pc[t] = "picked" /\ pc' = [pc EXCEPT ![t] = IF backfills THEN "fetch" ELSE "calc"]
        /\ parts' = [parts EXCEPT ![t] = IF backfills THEN Parts(r) ELSE {}]
        /\ dates' = [dates EXCEPT ![t] = IF backfills THEN {} ELSE AvailableDates(r)]
        /\ doubled' = IF jobs[j].status # "PENDING" THEN doubled \cup {j} ELSE doubled
        /\ abandoned' = abandoned \ {j}
        /\ UNCHANGED <<provider, bars, history, held, wanted, rows, draft, raced>>
    BY <1>0 DEF BeginJob
  <1>2. j \in JobIds /\ draft[t] = {} /\ rows[t] = {}
    BY <1>1 DEF IInv, ThreadInv, Holding, Downloads, Drafts
  <1>3. jobs[j] \in Kept /\ r \in Requests /\ j # 0
    BY <1>2, JobOf DEF IInv
  <1>4. AvailableDates(r) \subseteq Stored(r.days) /\ AvailableDates(r) \subseteq Days
    BY <1>3, AvailableStored
  <1>5. PICK x \in Kept : /\ x = new /\ x.request = r /\ x.status = "RUNNING"
                          /\ x.progress = 10 /\ x.finished = jobs[j].finished
    <2>1. PICK y \in Kept : y = [jobs[j] EXCEPT !.status = "RUNNING"]
      BY <1>3 DEF Kept, Active
    <2>2. new = [y EXCEPT !.progress = 10]
      BY <1>3, <2>1 DEF Kept
    <2> HIDE DEF new
    <2>3. new \in Kept
      BY <2>2 DEF Kept
    <2> USE DEF new
    <2> QED
      BY <1>3, <2>3 DEF Kept
  <1>6. jobs' = [jobs EXCEPT ![j] = x]
    <2>1. jobs' = [jobs EXCEPT ![j].status = "RUNNING", ![j].progress = 10]
      BY <1>0 DEF BeginJob
    <2>2. jobs \in Seq(Kept) /\ j \in 1..Len(jobs)
      BY <1>2 DEF IInv, Shape, JobIds
    <2> QED
      BY <1>3, <1>5, <2>1, <2>2 DEF Kept
  <1> HIDE DEF new, r, backfills
  <1>7. jobs' \in Seq(Kept) /\ jobs'[j] = x /\ JobIds' = JobIds
    BY <1>2, <1>5, <1>6, UpdateJob DEF IInv, r
  <1>8. backfills => Parts(r) \subseteq Bar
    BY <1>3, PartsFinite DEF backfills
  <1>9. /\ Shape' /\ pc'[t] = IF backfills THEN "fetch" ELSE "calc"
        /\ parts'[t] = IF backfills THEN Parts(r) ELSE {}
        /\ dates'[t] = IF backfills THEN {} ELSE AvailableDates(r)
    BY <1>1, <1>4, <1>7, <1>8 DEF IInv, Shape, Places, Executing
  <1>10. \A u \in Others(t) : StaysAt(u)
    BY <1>1 DEF IInv, Shape, Others, StaysAt
  <1>11. ThreadInv(t)'
    <2>1. Holding(t)'
      BY <1>1, <1>2, <1>7, <1>9 DEF Holding
    <2>2. Downloads(t)'
      <3>1. jobs'[held'[t]].request = r
        BY <1>1, <1>2, <1>5, <1>7, <1>9
      <3>2. CASE backfills
        <4>1. pc'[t] = "fetch" /\ parts'[t] = Parts(r) /\ Past(r.days) # {}
          BY <1>9, <3>2 DEF backfills
        <4> QED
          BY <1>1, <1>2, <3>1, <4>1 DEF Downloads, Past, Parts
      <3>3. CASE ~ backfills
        BY <1>1, <1>2, <1>9, <3>3 DEF Downloads
      <3> QED
        BY <3>2, <3>3
    <2>3. Drafts(t)'
      <3>1. Stored(jobs[held[t]].request.days)' = Stored(r.days)
        BY <1>1, <1>5, <1>7 DEF Stored, Content
      <3>2. draft'[t] = {} /\ DatesOf(draft'[t]) = {}
        BY <1>1, <1>2 DEF DatesOf
      <3> QED
        BY <1>4, <1>9, <3>1, <3>2 DEF Drafts, DatesOf
    <2> QED
      BY <2>1, <2>2, <2>3 DEF ThreadInv
  <1>12. Fresh' /\ NoDuplicateBars'
    BY <1>1, RowsQuiet DEF IInv
  <1>13. \A b \in Bar : bars[b] <= bars'[b]
    BY <1>1 DEF IInv, Shape
  <1>14. ASSUME j \notin doubled' PROVE Executed(j)'
    <2>1. jobs[j].status = "PENDING" /\ Executed(j)
      BY <1>1, <1>2, <1>14 DEF IInv
    <2>2. \A u \in Threads : ~ Runs(u, j)
      BY <2>1 DEF Executed
    <2>3. Runs(t, j)' /\ \A u \in Others(t) : ~ Runs(u, j)'
      BY <1>1, <1>9, <1>10, <2>2 DEF Runs, Executing, Others, StaysAt
    <2>4. jobs[j].finished # TRUE
      BY <2>1 DEF Executed, Settled
    <2> HIDE DEF Runs
    <2>5. /\ \E u \in Threads : Runs(u, j)'
          /\ \A u, v \in Threads : Runs(u, j)' /\ Runs(v, j)' => u = v
      BY <2>3 DEF Others
    <2>6. /\ jobs'[j].status = "RUNNING" /\ "RUNNING" \notin Settled
          /\ jobs'[j].progress \in 10..85
      BY <1>5, <1>7 DEF Settled
    <2>7. jobs'[j].finished # TRUE
      BY <1>5, <1>7, <2>4, Zenon
    <2>8. jobs'[j].status \notin {"PENDING"} \cup Settled
      BY <2>6
    <2>9. j \notin abandoned'
      BY <1>1
    <2> QED
      BY <2>5, <2>6, <2>7, <2>8, <2>9, Zenon DEF Executed
  <1>15. /\ x.request = jobs[j].request /\ jobs' = [jobs EXCEPT ![j] = x]
         /\ x.status = "COMPLETED" => \A d \in x.covered : \E at \in history : at[2] = d
    BY <1>5, <1>6 DEF r
  <1>16. held'[t] \in {0, j} /\ doubled \subseteq doubled' /\ provider' = provider
         /\ history' = history /\ abandoned' \subseteq abandoned \cup {j}
         /\ \A i \in JobIds \ {j} : i \in abandoned' <=> i \in abandoned
    BY <1>1
  <1> QED
    BY <1>1, <1>9, <1>10, <1>11, <1>12, <1>13, <1>14, <1>15, <1>16, JobStep

\* A thread that stops executing a job settles it.
LEMMA EndExecutes ==
  ASSUME IInv, NEW t \in Threads, NEW j \in JobIds, Runs(t, j), j \notin doubled,
         \A u \in Others(t) : StaysAt(u), pc'[t] = "idle",
         abandoned' = abandoned,
         NEW x, jobs'[j] = x, x.status \in Settled, x.progress = 100, x.finished = TRUE
  PROVE  Executed(j)'
  <1>1. \A u \in Threads : Runs(u, j) => u = t
    BY DEF IInv, Executed
  <1>2. \A u \in Threads : ~ Runs(u, j)'
    BY <1>1 DEF Runs, Executing, Others, StaysAt
  <1>3. x.status \notin {"RUNNING", "PENDING"}
    BY DEF Settled
  <1>4. j \notin abandoned'
    BY DEF IInv, Executed
  <1> HIDE DEF Runs
  <1> QED
    BY <1>2, <1>3, <1>4 DEF Executed

\* A thread whose failure cannot be recorded leaves its job RUNNING.
LEMMA LeftRunning ==
  ASSUME IInv, NEW t \in Threads, NEW j \in JobIds, Runs(t, j), j \notin doubled,
         \A u \in Others(t) : StaysAt(u), pc'[t] = "idle",
         abandoned' = abandoned \cup {j}, jobs' = jobs
  PROVE  Executed(j)'
  <1>1. \A u \in Threads : Runs(u, j) => u = t
    BY DEF IInv, Executed
  <1>2. \A u \in Threads : ~ Runs(u, j)'
    BY <1>1 DEF Runs, Executing, Others, StaysAt
  <1>3. Executed(j) /\ jobs'[j].status = "RUNNING" /\ j \in abandoned'
    BY DEF IInv, Executed
  <1> HIDE DEF Runs
  <1> QED
    BY <1>2, <1>3 DEF Executed

LEMMA FailedKeepsInv ==
  ASSUME IInv, NEW t \in Threads, Failed(t), pc[t] \in {"fetch", "calc"},
         UNCHANGED <<provider, bars, history, raced, doubled>>
  PROVE  IInv'
  <1> DEFINE recorded == /\ jobs' = [jobs EXCEPT ![held[t]] =
                              [@ EXCEPT !.status = "FAILED", !.progress = 100, !.finished = TRUE]]
                         /\ abandoned' = abandoned
             unrecorded == abandoned' = abandoned \cup {held[t]} /\ jobs' = jobs
  <1>1. /\ pc' \in [Threads -> Places] /\ held' \in [Threads -> Nat]
        /\ wanted' \in [Threads -> Requests \cup {None}]
        /\ parts' \in [Threads -> SUBSET Bar] /\ rows' \in [Threads -> SUBSET Bar]
        /\ dates' \in [Threads -> SUBSET Days] /\ draft' \in [Threads -> SUBSET Write]
        /\ ThreadInv(t)' /\ \A u \in Others(t) : StaysAt(u)
        /\ pc'[t] = "idle" /\ held'[t] = 0 /\ rows'[t] = {}
    BY AnswerEffect DEF Failed, IInv
  <1>2. Fresh' /\ NoDuplicateBars'
    BY <1>1, RowsQuiet DEF IInv, StaysAt, Others
  <1>3. CASE held[t] = 0
    <2>1. jobs' = jobs /\ abandoned' = abandoned
      BY <1>3 DEF Failed
    <2>2. Shape'
      BY <1>1, <2>1 DEF IInv, Shape
    <2>3. \A j \in JobIds : Runs(t, j)' <=> Runs(t, j)
      BY <1>1, <1>3, JobOf DEF Runs, IInv
    <2> QED
      BY <1>1, <1>2, <2>1, <2>2, <2>3, QuietStep
  <1>4. CASE held[t] # 0 /\ recorded
    <2>0. PICK j \in JobIds : j = held[t]
      BY <1>4 DEF IInv, ThreadInv, Holding
    <2> DEFINE new == [jobs[j] EXCEPT !.status = "FAILED", !.progress = 100, !.finished = TRUE]
    <2>1. jobs[j] \in Kept
      BY JobOf DEF IInv
    <2>2. PICK x \in Kept : /\ x = new /\ x.request = jobs[j].request /\ x.status = "FAILED"
                            /\ x.progress = 100 /\ x.finished = TRUE
      <3>1. PICK s \in Active \cup Settled : s = "FAILED"
        BY DEF Settled
      <3>2. PICK p \in 0..100 : p = 100
        OBVIOUS
      <3>3. PICK f \in BOOLEAN : f = TRUE
        OBVIOUS
      <3>4. new = [jobs[j] EXCEPT !.status = s, !.progress = p, !.finished = f]
        BY <3>1, <3>2, <3>3
      <3> HIDE DEF new
      <3>5. /\ new \in Kept /\ new.request = jobs[j].request
            /\ new.status = s /\ new.progress = p /\ new.finished = f
        BY <2>1, <3>4 DEF Kept
      <3> QED
        BY <3>1, <3>2, <3>3, <3>5
    <2>3. jobs' = [jobs EXCEPT ![j] = x]
      BY <1>4, <2>0, <2>2 DEF IInv, Shape, JobIds
    <2>4. jobs' \in Seq(Kept) /\ jobs'[j] = x /\ JobIds' = JobIds
      BY <2>2, <2>3, UpdateJob DEF IInv
    <2>5. Shape'
      BY <1>1, <2>4 DEF IInv, Shape
    <2>6. Runs(t, j)
      BY <2>0 DEF Runs, Executing
    <2>7. j \notin doubled' => Executed(j)'
      BY <1>1, <1>4, <2>2, <2>4, <2>6, EndExecutes DEF Settled
    <2>8. /\ x.request = jobs[j].request
          /\ x.status = "COMPLETED" => \A d \in x.covered : \E at \in history : at[2] = d
      BY <2>2
    <2>9. \A b \in Bar : bars[b] <= bars'[b]
      BY DEF IInv, Shape
    <2>10. held[t] = j /\ held'[t] \in {0, j} /\ doubled' = doubled /\ abandoned' = abandoned
      BY <1>1, <1>4, <2>0
    <2> QED
      BY <1>1, <1>2, <2>3, <2>5, <2>7, <2>8, <2>9, <2>10, JobStep
  <1>5. CASE held[t] # 0 /\ unrecorded
    <2>1. PICK j \in JobIds : j = held[t]
      BY <1>5 DEF IInv, ThreadInv, Holding
    <2>2. jobs[j] \in Kept
      BY JobOf DEF IInv
    <2>3. jobs' = jobs /\ jobs' = [jobs EXCEPT ![j] = jobs[j]]
      BY <1>5 DEF IInv, Shape, JobIds
    <2>4. Shape'
      BY <1>1, <2>3 DEF IInv, Shape
    <2>5. Runs(t, j)
      BY <2>1 DEF Runs, Executing
    <2>6. j \notin doubled' => Executed(j)'
      BY <1>1, <1>5, <2>1, <2>5, LeftRunning
    <2>7. jobs[j].status = "COMPLETED" =>
            \A d \in jobs[j].covered : \E at \in history : at[2] = d
      BY DEF IInv, CompletedIsComplete
    <2>8. \A b \in Bar : bars[b] <= bars'[b]
      BY DEF IInv, Shape
    <2>9. /\ held[t] = j /\ held'[t] \in {0, j} /\ doubled' = doubled
          /\ abandoned' \subseteq abandoned \cup {j}
          /\ \A i \in JobIds \ {j} : i \in abandoned' <=> i \in abandoned
      BY <1>1, <1>5, <2>1
    <2> QED
      BY <1>1, <1>2, <2>2, <2>3, <2>4, <2>6, <2>7, <2>8, <2>9, JobStep
  <1> QED
    BY <1>3, <1>4, <1>5 DEF Failed

LEMMA DateKeepsInv ==
  ASSUME IInv, NEW t \in Threads, CalculateDate(t)
  PROVE  IInv'
  <1> DEFINE d == LeastOf(dates[t])
             w == Saved(ValuationTime(d))
  <1>1. /\ pc[t] = "calc" /\ dates[t] # {}
        /\ dates' = [dates EXCEPT ![t] = @ \ {d}]
        /\ \/ UNCHANGED draft
           \/ draft' = [draft EXCEPT ![t] = @ \cup {w}]
        /\ UNCHANGED <<provider, jobs, bars, history, pc, held, wanted, parts, rows, raced,
                       doubled, abandoned>>
    BY DEF CalculateDate
  <1>2. d \in dates[t] /\ dates[t] \subseteq Days
    <2>1. dates[t] \in SUBSET Days
      BY DEF IInv, Shape
    <2>2. dates[t] \in SUBSET Nat /\ IsFiniteSet(dates[t])
      BY <2>1, DaysFinite
    <2> QED
      BY <1>1, <2>1, <2>2, LeastIn
  <1>3. w \in Write /\ w.at[2] = d
    <2>1. ValuationTime(d) \in Timestamp /\ ValuationTime(d)[2] = d
      BY <1>2 DEF ValuationTime, Timestamp
    <2>2. (ValuationTime(d) \notin history) \in BOOLEAN
      OBVIOUS
    <2> QED
      BY <2>1, <2>2 DEF Saved, Write
  <1> HIDE DEF w, d
  <1>4. Shape'
    <2>1. dates' \in [Threads -> SUBSET Days]
      BY <1>1 DEF IInv, Shape
    <2>2. draft' \in [Threads -> SUBSET Write]
      <3>1. draft \in [Threads -> SUBSET Write] /\ {w} \subseteq Write
        BY <1>3 DEF IInv, Shape
      <3>2. draft[t] \cup {w} \in SUBSET Write
        BY <3>1
      <3> QED
        BY <1>1, <3>1, <3>2
    <2> QED
      BY <1>1, <2>1, <2>2 DEF IInv, Shape
  <1>5. /\ dates'[t] = dates[t] \ {d} /\ draft'[t] \subseteq draft[t] \cup {w}
        /\ \A u \in Others(t) : StaysAt(u)
    BY <1>1 DEF IInv, Shape, Others, StaysAt
  <1>6. ThreadInv(t)'
    <2>1. Holding(t)' /\ Downloads(t)'
      BY <1>1 DEF IInv, ThreadInv, Holding, Downloads, JobIds
    <2>2. Drafts(t)'
      <3>1. ASSUME held[t] # 0
            PROVE  /\ dates'[t] \cup DatesOf(draft'[t]) \subseteq Stored(jobs[held[t]].request.days)
                   /\ dates'[t] \cap DatesOf(draft'[t]) = {}
                   /\ \A v, z \in draft'[t] : v.at[2] = z.at[2] => v = z
        <4>1. /\ dates[t] \cup DatesOf(draft[t]) \subseteq Stored(jobs[held[t]].request.days)
              /\ dates[t] \cap DatesOf(draft[t]) = {}
              /\ \A v, z \in draft[t] : v.at[2] = z.at[2] => v = z
          BY <1>1, <3>1 DEF IInv, ThreadInv, Drafts
        <4>2. DatesOf(draft'[t]) \subseteq DatesOf(draft[t]) \cup {d}
          BY <1>3, <1>5 DEF DatesOf
        <4>3. \A v \in draft[t] : v.at[2] # d
          BY <1>2, <4>1 DEF DatesOf
        <4> QED
          BY <1>2, <1>3, <1>5, <4>1, <4>2, <4>3
      <3>2. Stored(jobs[held[t]].request.days)' = Stored(jobs[held[t]].request.days)
        BY <1>1 DEF Stored, Content
      <3> QED
        BY <1>1, <3>1, <3>2 DEF Drafts
    <2> QED
      BY <2>1, <2>2 DEF ThreadInv
  <1>7. Fresh' /\ NoDuplicateBars'
    BY <1>1, RowsQuiet DEF IInv
  <1>8. \A j \in JobIds : Runs(t, j)' <=> Runs(t, j)
    BY <1>1 DEF Runs
  <1> QED
    BY <1>1, <1>4, <1>5, <1>6, <1>7, <1>8, QuietStep

LEMMA StoreKeepsInv ==
  ASSUME IInv, NEW t \in Threads, StoreResults(t)
  PROVE  IInv'
  <1>1. /\ pc[t] = "calc" /\ dates[t] = {}
        /\ UNCHANGED <<provider, bars, raced, doubled>>
    BY DEF StoreResults
  <1>2. CASE Conflict(t)
    BY <1>1, <1>2, FailedKeepsInv DEF StoreResults
  <1>3. CASE ~ Conflict(t) /\ held[t] = 0
    <2>1. Answer(t) /\ jobs' = jobs /\ abandoned' = abandoned /\ history \subseteq history'
      BY <1>3 DEF StoreResults
    <2>2. /\ pc' \in [Threads -> Places] /\ held' \in [Threads -> Nat]
          /\ wanted' \in [Threads -> Requests \cup {None}]
          /\ parts' \in [Threads -> SUBSET Bar] /\ rows' \in [Threads -> SUBSET Bar]
          /\ dates' \in [Threads -> SUBSET Days] /\ draft' \in [Threads -> SUBSET Write]
          /\ ThreadInv(t)' /\ \A u \in Others(t) : StaysAt(u)
          /\ pc'[t] = "idle" /\ held'[t] = 0 /\ rows'[t] = {}
      BY <2>1, AnswerEffect DEF IInv
    <2>3. Fresh' /\ NoDuplicateBars'
      BY <1>1, <2>2, RowsQuiet DEF IInv, StaysAt, Others
    <2>4. Shape'
      BY <1>1, <2>1, <2>2 DEF IInv, Shape
    <2>5. \A j \in JobIds : Runs(t, j)' <=> Runs(t, j)
      BY <1>3, <2>2, JobOf DEF Runs, IInv
    <2> QED
      BY <1>1, <2>1, <2>2, <2>3, <2>4, <2>5, QuietStep
  <1>4. CASE ~ Conflict(t) /\ held[t] # 0
    <2>1. /\ history' = history \cup {w.at : w \in draft[t]}
          /\ pc' = [pc EXCEPT ![t] = "finish"]
          /\ UNCHANGED <<jobs, abandoned, held, wanted, parts, rows, dates, draft>>
      BY <1>4 DEF StoreResults
    <2>2. Shape' /\ pc'[t] = "finish"
      BY <1>1, <2>1 DEF IInv, Shape, Places, Executing
    <2>3. \A u \in Others(t) : StaysAt(u)
      BY <2>1 DEF IInv, Shape, Others, StaysAt
    <2>4. ThreadInv(t)'
      <3>1. Holding(t)' /\ Downloads(t)'
        BY <1>1, <1>4, <2>1, <2>2 DEF IInv, ThreadInv, Holding, Downloads, JobIds
      <3>2. Stored(jobs[held[t]].request.days)' = Stored(jobs[held[t]].request.days)
        BY <1>1, <2>1 DEF Stored, Content
      <3>3. Drafts(t)'
        BY <1>1, <2>1, <2>2, <3>2 DEF IInv, ThreadInv, Drafts
      <3> QED
        BY <3>1, <3>3 DEF ThreadInv
    <2>5. Fresh' /\ NoDuplicateBars'
      BY <1>1, <2>1, RowsQuiet DEF IInv
    <2>6. \A j \in JobIds : Runs(t, j)' <=> Runs(t, j)
      BY <1>1, <2>1, <2>2 DEF Runs, Executing
    <2>7. history \subseteq history'
      BY <2>1
    <2> QED
      BY <1>1, <2>1, <2>2, <2>3, <2>4, <2>5, <2>6, <2>7, QuietStep
  <1> QED
    BY <1>2, <1>3, <1>4

\* A COMPLETED job has a result for every date that has quotes: its results are of
\* different dates, and not fewer than these.
LEMMA ResultsCover ==
  ASSUME IInv, NEW t \in Threads, pc[t] = "finish", NEW A, A = Stored(jobs[held[t]].request.days),
         FinalStatus(Cardinality(draft[t]), Cardinality(A)) = "COMPLETED"
  PROVE  \A d \in A : \E at \in history : at[2] = d
  <1> DEFINE W == draft[t]
             f == [w \in W |-> w.at[2]]
  <1>1. held[t] \in JobIds /\ held[t] # 0
    BY JobOf DEF IInv, ThreadInv, Holding
  <1>2. A \in SUBSET Days /\ IsFiniteSet(A)
    <2>1. jobs[held[t]].request.days \in SUBSET Days
      BY <1>1, JobOf DEF IInv
    <2>2. A \in SUBSET Days
      BY <2>1 DEF Stored
    <2> QED
      BY <2>2, DaysFinite
  <1>3. /\ DatesOf(W) \subseteq A
        /\ \A v, w \in W : v.at[2] = w.at[2] => v = w
        /\ \A w \in W : w.at \in history
    BY <1>1 DEF IInv, ThreadInv, Drafts
  <1>4. f \in Injection(W, A)
    <2>1. \A w \in W : w.at[2] \in A
      BY <1>3 DEF DatesOf
    <2>2. f \in [W -> A]
      BY <2>1
    <2>3. \A v, w \in W : f[v] = f[w] => v = w
      BY <1>3
    <2> HIDE DEF f, W
    <2> QED
      BY <2>2, <2>3 DEF Injection, IsInjective
  <1> HIDE DEF f, W
  <1>5. /\ IsFiniteSet(W) /\ Cardinality(W) <= Cardinality(A)
        /\ Cardinality(W) = Cardinality(A) => f \in Surjection(W, A)
    BY <1>2, <1>4, FS_Injection
  <1>6. Cardinality(W) \in Nat /\ Cardinality(A) \in Nat
    BY <1>2, <1>5, FS_CardinalityType
  <1>7. Cardinality(W) # 0 /\ ~ (Cardinality(A) > Cardinality(W))
    BY DEF FinalStatus, W
  <1>8. f \in Surjection(W, A)
    BY <1>5, <1>6, <1>7
  <1>9. \A d \in A : \E w \in W : f[w] = d
    BY <1>8 DEF Surjection
  <1> QED
    BY <1>3, <1>9 DEF f

LEMMA FinishKeepsInv ==
  ASSUME IInv, NEW t \in Threads, FinishJob(t)
  PROVE  IInv'
  <1>0. PICK j \in JobIds : j = held[t]
    BY DEF FinishJob, IInv, ThreadInv, Holding
  <1>1. jobs[j] \in Kept /\ jobs[j].request.days \in SUBSET Days
    BY JobOf DEF IInv
  <1>2. PICK A \in SUBSET Days : A = Stored(jobs[j].request.days)
    BY <1>1 DEF Stored
  <1>3. PICK s \in Active \cup Settled :
          s = FinalStatus(Cardinality(draft[t]), Cardinality(A)) /\ s \in Settled
    BY DEF FinalStatus, Settled
  <1> DEFINE new == [jobs[j] EXCEPT !.status = s, !.progress = 100, !.finished = TRUE,
                                    !.covered = A]
  <1>4. /\ pc[t] = "finish" /\ jobs' = [jobs EXCEPT ![j] = new] /\ Answer(t)
        /\ UNCHANGED <<provider, bars, history, raced, doubled, abandoned>>
    BY <1>0, <1>2, <1>3 DEF FinishJob
  <1>5. PICK x \in Kept : /\ x = new /\ x.request = jobs[j].request /\ x.status = s
                          /\ x.progress = 100 /\ x.finished = TRUE /\ x.covered = A
    <2>1. PICK f \in BOOLEAN : f = TRUE
      OBVIOUS
    <2>2. PICK p \in 0..100 : p = 100
      OBVIOUS
    <2>3. new = [jobs[j] EXCEPT !.status = s, !.progress = p, !.finished = f, !.covered = A]
      BY <2>1, <2>2
    <2> HIDE DEF new
    <2>4. /\ new \in Kept /\ new.request = jobs[j].request
          /\ new.status = s /\ new.progress = p /\ new.finished = f /\ new.covered = A
      BY <1>1, <2>3 DEF Kept
    <2> QED
      BY <2>1, <2>2, <2>4
  <1>6. jobs' = [jobs EXCEPT ![j] = x]
    BY <1>4, <1>5
  <1> HIDE DEF new
  <1>7. jobs' \in Seq(Kept) /\ jobs'[j] = x /\ JobIds' = JobIds
    BY <1>5, <1>6, UpdateJob DEF IInv
  <1>8. /\ pc' \in [Threads -> Places] /\ held' \in [Threads -> Nat]
        /\ wanted' \in [Threads -> Requests \cup {None}]
        /\ parts' \in [Threads -> SUBSET Bar] /\ rows' \in [Threads -> SUBSET Bar]
        /\ dates' \in [Threads -> SUBSET Days] /\ draft' \in [Threads -> SUBSET Write]
        /\ ThreadInv(t)' /\ \A u \in Others(t) : StaysAt(u)
        /\ pc'[t] = "idle" /\ held'[t] = 0 /\ rows'[t] = {}
    BY <1>4, AnswerEffect DEF IInv
  <1>9. Shape'
    BY <1>4, <1>7, <1>8 DEF IInv, Shape
  <1>10. Fresh' /\ NoDuplicateBars'
    BY <1>4, <1>8, RowsQuiet DEF IInv, StaysAt, Others
  <1>11. Runs(t, j)
    BY <1>0, <1>4 DEF Runs, Executing
  <1>12. j \notin doubled' => Executed(j)'
    <2>1. x.status \in Settled /\ doubled' = doubled /\ abandoned' = abandoned
      BY <1>3, <1>4, <1>5
    <2> QED
      BY <1>5, <1>7, <1>8, <1>11, <2>1, EndExecutes
  <1>13. x.status = "COMPLETED" => \A d \in x.covered : \E at \in history : at[2] = d
    <2>1. /\ pc[t] = "finish" /\ A = Stored(jobs[held[t]].request.days) /\ x.covered = A
          /\ x.status = FinalStatus(Cardinality(draft[t]), Cardinality(A))
      BY <1>0, <1>2, <1>3, <1>4, <1>5
    <2>2. ASSUME x.status = "COMPLETED" PROVE \A d \in A : \E at \in history : at[2] = d
      <3>1. FinalStatus(Cardinality(draft[t]), Cardinality(A)) = "COMPLETED"
        BY <2>1, <2>2
      <3> QED
        BY <2>1, <3>1, ResultsCover
    <2> QED
      BY <2>1, <2>2
  <1>14. \A b \in Bar : bars[b] <= bars'[b]
    BY <1>4 DEF IInv, Shape
  <1>15. /\ x.request = jobs[j].request /\ held[t] = j /\ held'[t] \in {0, j}
         /\ doubled' = doubled /\ provider' = provider /\ history' = history
         /\ abandoned' = abandoned
    BY <1>0, <1>4, <1>5, <1>8
  <1> QED
    BY <1>6, <1>8, <1>9, <1>10, <1>12, <1>13, <1>14, <1>15, JobStep

LEMMA CommitKeepsInv ==
  ASSUME IInv, NEW t \in Threads, CommitRetry(t)
  PROVE  IInv'
  <1>0. PICK j \in JobIds : j = held[t]
    BY DEF CommitRetry, IInv, ThreadInv, Holding
  <1>1. jobs[j] \in Kept
    BY JobOf DEF IInv
  <1> DEFINE new == [jobs[j] EXCEPT !.status = "PENDING", !.progress = 0, !.finished = FALSE]
  <1>2. /\ pc[t] = "retrying" /\ jobs' = [jobs EXCEPT ![j] = new] /\ Answer(t)
        /\ doubled' = IF jobs[j].status = "RUNNING" THEN doubled \cup {j} ELSE doubled
        /\ UNCHANGED <<provider, bars, history, raced, abandoned>>
    BY <1>0 DEF CommitRetry, Requeued
  <1>3. PICK x \in Kept : /\ x = new /\ x.request = jobs[j].request /\ x.status = "PENDING"
                          /\ x.progress = 0 /\ x.finished = FALSE
    <2>1. PICK f \in BOOLEAN : f = FALSE
      OBVIOUS
    <2>2. PICK s \in Active \cup Settled : s = "PENDING"
      BY DEF Active
    <2>3. PICK p \in 0..100 : p = 0
      OBVIOUS
    <2>4. new = [jobs[j] EXCEPT !.status = s, !.progress = p, !.finished = f]
      BY <2>1, <2>2, <2>3
    <2> HIDE DEF new
    <2>5. /\ new \in Kept /\ new.request = jobs[j].request
          /\ new.status = s /\ new.progress = p /\ new.finished = f
      BY <1>1, <2>4 DEF Kept
    <2> QED
      BY <2>1, <2>2, <2>3, <2>5
  <1>4. jobs' = [jobs EXCEPT ![j] = x]
    BY <1>2, <1>3
  <1> HIDE DEF new
  <1>5. jobs' \in Seq(Kept) /\ jobs'[j] = x /\ JobIds' = JobIds
    BY <1>3, <1>4, UpdateJob DEF IInv
  <1>6. /\ pc' \in [Threads -> Places] /\ held' \in [Threads -> Nat]
        /\ wanted' \in [Threads -> Requests \cup {None}]
        /\ parts' \in [Threads -> SUBSET Bar] /\ rows' \in [Threads -> SUBSET Bar]
        /\ dates' \in [Threads -> SUBSET Days] /\ draft' \in [Threads -> SUBSET Write]
        /\ ThreadInv(t)' /\ \A u \in Others(t) : StaysAt(u)
        /\ pc'[t] = "idle" /\ held'[t] = 0 /\ rows'[t] = {}
    BY <1>2, AnswerEffect DEF IInv
  <1>7. Shape'
    BY <1>2, <1>5, <1>6 DEF IInv, Shape
  <1>8. Fresh' /\ NoDuplicateBars'
    BY <1>2, <1>6, RowsQuiet DEF IInv, StaysAt, Others
  <1>9. ASSUME j \notin doubled' PROVE Executed(j)'
    <2>1. jobs[j].status # "RUNNING" /\ j \notin doubled
      BY <1>2, <1>9
    <2>2. \A u \in Threads : ~ Runs(u, j)
      BY <2>1 DEF IInv, Executed
    <2>3. \A u \in Threads : ~ Runs(u, j)'
      BY <1>6, <2>2 DEF Runs, Executing, Others, StaysAt
    <2>4. x.finished # TRUE
      BY <1>3
    <2>5. jobs'[j].status = "PENDING" /\ jobs'[j].progress = 0 /\ "PENDING" \notin Settled
      BY <1>3, <1>5 DEF Settled
    <2>6. jobs'[j].finished # TRUE
      BY <1>5, <2>4, Zenon
    <2>7. jobs'[j].status # "RUNNING"
      BY <2>5
    <2>8. j \notin abandoned'
      BY <1>2, <2>1 DEF IInv, Executed
    <2> HIDE DEF Runs
    <2> QED
      BY <2>3, <2>5, <2>6, <2>7, <2>8, Zenon DEF Executed
  <1>10. \A b \in Bar : bars[b] <= bars'[b]
    BY <1>2 DEF IInv, Shape
  <1>11. /\ x.request = jobs[j].request /\ held[t] = j /\ held'[t] \in {0, j}
         /\ doubled \subseteq doubled' /\ provider' = provider /\ history' = history
         /\ abandoned' = abandoned /\ x.status # "COMPLETED"
    BY <1>0, <1>2, <1>3, <1>6
  <1> QED
    BY <1>4, <1>6, <1>7, <1>8, <1>9, <1>10, <1>11, JobStep

LEMMA InsertKeepsInv ==
  ASSUME IInv, NEW t \in Threads, InsertJob(t)
  PROVE  IInv'
  <1> DEFINE n == Len(jobs) + 1
  <1>0. wanted[t] \in Requests /\ pc[t] = "checked"
    BY DEF InsertJob, IInv, ThreadInv, Holding
  <1>1. PICK x \in Kept : x = NewJob(wanted[t]) /\ x.status = "PENDING" /\ x.progress = 0
                          /\ x.finished = FALSE
    <2>1. PICK s \in Active \cup Settled : s = "PENDING"
      BY DEF Active
    <2>2. PICK f \in BOOLEAN : f = FALSE
      OBVIOUS
    <2>3. PICK c \in SUBSET Days : c = {}
      OBVIOUS
    <2>4. PICK p \in 0..100 : p = 0
      OBVIOUS
    <2>5. PICK new : new = [request |-> wanted[t], status |-> s, progress |-> p,
                            finished |-> f, covered |-> c]
      OBVIOUS
    <2>6. new \in Kept /\ new.status = s /\ new.progress = p /\ new.finished = f
      BY <1>0, <2>5 DEF Kept
    <2>7. new = NewJob(wanted[t])
      BY <2>1, <2>2, <2>3, <2>4, <2>5 DEF NewJob
    <2> QED
      BY <2>1, <2>2, <2>4, <2>6, <2>7
  <1>2. /\ jobs' = Append(jobs, x) /\ Answer(t)
        /\ UNCHANGED <<provider, bars, history, raced, doubled, abandoned>>
    BY <1>1 DEF InsertJob
  <1>3. /\ jobs' \in Seq(Kept) /\ JobIds' = JobIds \cup {n} /\ n \notin JobIds
        /\ jobs'[n] = x /\ \A j \in JobIds : jobs'[j] = jobs[j]
        /\ Len(jobs) <= Len(jobs')
    BY <1>2 DEF IInv, Shape, JobIds
  <1>4. /\ pc' \in [Threads -> Places] /\ held' \in [Threads -> Nat]
        /\ wanted' \in [Threads -> Requests \cup {None}]
        /\ parts' \in [Threads -> SUBSET Bar] /\ rows' \in [Threads -> SUBSET Bar]
        /\ dates' \in [Threads -> SUBSET Days] /\ draft' \in [Threads -> SUBSET Write]
        /\ ThreadInv(t)' /\ \A u \in Others(t) : StaysAt(u)
        /\ pc'[t] = "idle" /\ held'[t] = 0 /\ rows'[t] = {}
    BY <1>2, AnswerEffect DEF IInv
  <1>5. Shape'
    BY <1>2, <1>3, <1>4 DEF IInv, Shape
  <1>6. StoreGrows
    <2>1. \A b \in Bar : bars[b] <= bars'[b]
      BY <1>2 DEF IInv, Shape
    <2>2. provider' = provider /\ history' = history
      BY <1>2
    <2> QED
      BY <1>3, <2>1, <2>2 DEF StoreGrows
  <1>7. \A u \in Threads : ThreadInv(u)'
    BY <1>4, <1>5, <1>6, OthersKept DEF IInv, Others
  <1>8. Fresh' /\ NoDuplicateBars'
    BY <1>2, <1>4, RowsQuiet DEF IInv, StaysAt, Others
  <1>9. ASSUME NEW j \in JobIds, j \notin doubled PROVE Executed(j)'
    <2>1. Executed(j) /\ jobs'[j] = jobs[j]
      BY <1>3, <1>9 DEF IInv
    <2>2. \A u \in Threads : Runs(u, j)' <=> Runs(u, j)
      BY <1>0, <1>4, JobOf DEF Runs, Executing, Others, StaysAt, IInv
    <2>3. abandoned' = abandoned
      BY <1>2
    <2> HIDE DEF Runs
    <2> QED
      BY <2>1, <2>2, <2>3 DEF Executed
  <1>10. PICK m : m = n
    OBVIOUS
  <1>11. Executed(m)'
    <2>1. \A u \in Threads : pc[u] \in Executing => held[u] # m
      <3>1. \A u \in Threads : pc[u] \in Executing => held[u] \in JobIds \cup {0}
        BY DEF IInv, ThreadInv, Holding, Executing
      <3>2. m \notin JobIds \cup {0}
        BY <1>3, <1>10 DEF IInv, Shape
      <3> QED
        BY <3>1, <3>2
    <2>2. \A u \in Threads : ~ Runs(u, m)'
      BY <1>4, <2>1 DEF Runs, Executing, Others, StaysAt
    <2>3. jobs'[m].status = "PENDING" /\ jobs'[m].progress = 0 /\ "PENDING" \notin Settled
      BY <1>1, <1>3, <1>10 DEF Settled
    <2>4. jobs'[m].finished # TRUE
      <3>1. jobs'[m] = x
        BY <1>3, <1>10
      <3> QED
        BY <1>1, <3>1, Zenon
    <2>5. jobs'[m].status # "RUNNING"
      BY <2>3
    <2>6. m \notin abandoned'
      BY <1>2, <1>3, <1>10 DEF IInv
    <2> HIDE DEF Runs
    <2> QED
      BY <2>2, <2>3, <2>4, <2>5, <2>6, Zenon DEF Executed
  <1>12. \A j \in JobIds' \ doubled' : Executed(j)'
    BY <1>2, <1>3, <1>9, <1>10, <1>11
  <1>13. CompletedIsComplete'
    <2>1. history' = history /\ jobs'[n].status # "COMPLETED"
      BY <1>1, <1>2, <1>3
    <2> HIDE DEF n
    <2> QED
      BY <1>3, <2>1 DEF IInv, CompletedIsComplete
  <1>14. abandoned' \subseteq JobIds'
    BY <1>2, <1>3 DEF IInv
  <1> QED
    BY <1>5, <1>7, <1>8, <1>12, <1>13, <1>14 DEF IInv

LEMMA RestartKeepsInv ==
  ASSUME IInv, Restart
  PROVE  IInv'
  <1>1. /\ jobs' = [j \in JobIds |-> Recovered(jobs[j])]
        /\ abandoned' = {} /\ UNCHANGED <<provider, bars, history, raced, doubled>>
    BY DEF Restart
  <1>2. /\ \A t \in Threads : /\ pc'[t] = "idle" /\ held'[t] = 0
                              /\ rows'[t] = {} /\ draft'[t] = {}
        /\ pc' \in [Threads -> Places] /\ held' \in [Threads -> Nat]
        /\ wanted' \in [Threads -> Requests \cup {None}]
        /\ parts' \in [Threads -> SUBSET Bar] /\ rows' \in [Threads -> SUBSET Bar]
        /\ dates' \in [Threads -> SUBSET Days] /\ draft' \in [Threads -> SUBSET Write]
    BY DEF Restart, Places
  <1>3. ASSUME NEW job \in Kept
        PROVE  /\ Recovered(job) \in Kept
               /\ job.status = "RUNNING" => /\ Recovered(job).status = "PENDING"
                                            /\ Recovered(job).progress = 0
                                            /\ Recovered(job).finished = job.finished
               /\ job.status # "RUNNING" => Recovered(job) = job
    <2>1. CASE job.status = "RUNNING"
      <3>1. PICK s \in Active \cup Settled : s = "PENDING"
        BY DEF Active
      <3>2. PICK p \in 0..100 : p = 0
        OBVIOUS
      <3>3. PICK new : new = [job EXCEPT !.status = s, !.progress = p]
        OBVIOUS
      <3>4. /\ new \in Kept /\ new.status = s /\ new.progress = p
            /\ new.finished = job.finished
        BY <3>3 DEF Kept
      <3>5. Recovered(job) = new
        BY <2>1, <3>1, <3>2, <3>3 DEF Recovered
      <3> QED
        BY <2>1, <3>1, <3>2, <3>4, <3>5
    <2>2. CASE job.status # "RUNNING"
      BY <2>2 DEF Recovered
    <2> QED
      BY <2>1, <2>2
  <1>4. \A j \in JobIds : jobs[j] \in Kept /\ jobs'[j] = Recovered(jobs[j])
    BY <1>1, JobOf DEF IInv
  <1>5. jobs' \in Seq(Kept) /\ JobIds' = JobIds
    <2>1. Len(jobs) \in Nat /\ JobIds = 1..Len(jobs)
      BY DEF IInv, Shape, JobIds
    <2>2. jobs' \in [1..Len(jobs) -> Kept]
      BY <1>1, <1>3, <1>4, <2>1
    <2>3. jobs' \in Seq(Kept) /\ Len(jobs') = Len(jobs)
      BY <2>1, <2>2
    <2> QED
      BY <2>1, <2>3 DEF JobIds
  <1>6. Shape'
    BY <1>1, <1>2, <1>5 DEF IInv, Shape
  <1>7. \A t \in Threads : ThreadInv(t)'
    BY <1>2 DEF ThreadInv, Holding, Downloads, Drafts
  <1>8. Fresh' /\ NoDuplicateBars'
    BY <1>1, <1>2, RowsQuiet DEF IInv
  <1>9. ASSUME NEW j \in JobIds, j \notin doubled PROVE Executed(j)'
    <2>1. Executed(j) /\ jobs[j] \in Kept
      BY <1>4, <1>9 DEF IInv
    <2>2. (\A t \in Threads : ~ Runs(t, j)') /\ j \notin abandoned'
      BY <1>1, <1>2 DEF Runs, Executing
    <2>3. "PENDING" \notin Settled /\ "RUNNING" \notin Settled
      BY DEF Settled
    <2> HIDE DEF Runs
    <2>4. CASE jobs[j].status = "RUNNING"
      <3>1. jobs'[j].status = "PENDING" /\ jobs'[j].progress = 0
        BY <1>3, <1>4, <2>1, <2>4
      <3>2. jobs'[j].finished = jobs[j].finished
        BY <1>3, <1>4, <2>1, <2>4
      <3>3. jobs[j].finished # TRUE
        BY <2>1, <2>3, <2>4, Zenon DEF Executed
      <3>4. jobs'[j].finished # TRUE
        BY <3>2, <3>3, Zenon
      <3>5. jobs'[j].status # "RUNNING"
        BY <3>1
      <3> QED
        BY <2>2, <2>3, <3>1, <3>4, <3>5, Zenon DEF Executed
    <2>5. CASE jobs[j].status # "RUNNING"
      <3>1. jobs'[j] = jobs[j]
        BY <1>3, <1>4, <2>1, <2>5
      <3> QED
        BY <2>1, <2>2, <2>5, <3>1, Zenon DEF Executed
    <2> QED
      BY <2>4, <2>5
  <1>10. CompletedIsComplete'
    <2>1. ASSUME NEW j \in JobIds, jobs'[j].status = "COMPLETED" PROVE jobs'[j] = jobs[j]
      BY <1>3, <1>4, <2>1
    <2> QED
      BY <1>1, <1>5, <2>1 DEF IInv, CompletedIsComplete
  <1> QED
    BY <1>1, <1>5, <1>6, <1>7, <1>8, <1>9, <1>10 DEF IInv

LEMMA NextIInv == IInv /\ [Next]_vars => IInv'
  <1> SUFFICES ASSUME IInv, [Next]_vars PROVE IInv'
    OBVIOUS
  <1>1. ASSUME Restart PROVE IInv'
    BY <1>1, RestartKeepsInv
  <1>2. ASSUME NEW t \in Threads, NEW r \in Requests, CreateJob(t, r) \/ CalculateHistory(t, r)
        PROVE  IInv'
    BY <1>2, CreateKeepsInv, CalculateKeepsInv
  <1>3. ASSUME NEW t \in Threads, NEW j \in JobIds, RetryJob(t, j) PROVE IInv'
    BY <1>3, RetryKeepsInv
  <1>4. ASSUME NEW t \in Threads, Poll(t) PROVE IInv'
    BY <1>4, PollKeepsInv
  <1>5. ASSUME NEW t \in Threads, InsertJob(t) \/ CommitRetry(t) \/ BeginJob(t) PROVE IInv'
    BY <1>5, InsertKeepsInv, CommitKeepsInv, BeginKeepsInv
  <1>6. ASSUME NEW t \in Threads, Fetch(t) \/ Save(t) \/ Report(t) \/ Backfilled(t)
        PROVE  IInv'
    BY <1>6, FetchKeepsInv, SaveKeepsInv, ReportKeepsInv, BackfilledKeepsInv
  <1>7. ASSUME NEW t \in Threads, FetchFails(t) \/ Incoherent(t) PROVE IInv'
    BY <1>7, FailedKeepsInv DEF FetchFails, Incoherent
  <1>8. ASSUME NEW t \in Threads, CalculateDate(t) \/ StoreResults(t) \/ FinishJob(t)
        PROVE  IInv'
    BY <1>8, DateKeepsInv, StoreKeepsInv, FinishKeepsInv
  <1>9. CASE UNCHANGED vars
    <2>1. /\ Shape' /\ Fresh' /\ NoDuplicateBars' /\ CompletedIsComplete'
          /\ jobs' = jobs /\ pc' = pc /\ held' = held /\ doubled' = doubled
          /\ abandoned' = abandoned /\ abandoned' \subseteq JobIds'
      BY <1>9 DEF vars, threadVars, IInv, Shape, Fresh, NoDuplicateBars, CompletedIsComplete,
                  JobIds
    <2>2. \A t \in Threads : ThreadInv(t)'
      <3>1. StoreGrows /\ \A t \in Threads : StaysAt(t)
        BY <1>9 DEF vars, threadVars, IInv, Shape, StoreGrows, StaysAt
      <3> QED
        BY <2>1, <3>1, OthersKept DEF IInv
    <2>3. \A j \in JobIds' \ doubled' : Executed(j)'
      BY <2>1 DEF IInv, Executed, Runs, JobIds
    <2> QED
      BY <2>1, <2>2, <2>3 DEF IInv
  <1> QED
    BY <1>1, <1>2, <1>3, <1>4, <1>5, <1>6, <1>7, <1>8, <1>9 DEF Next, Working

LEMMA AlwaysIInv == Spec => []IInv
  BY InitIInv, NextIInv, PTL DEF Spec

-----------------------------------------------------------------------------
\* A job executed again, after a failure or a restart or for an overlapping range, adds no
\* bar a second time; only saves that overlap do (alpaca_history.py, line 188).
THEOREM BarsOnce == Spec => []NoDuplicateBars
  BY AlwaysIInv, PTL DEF IInv

\* A COMPLETED job has a result for each date that had quotes when it ended
\* (tasks.py, lines 164-172), whatever other threads stored meanwhile.
THEOREM CompletedCovers == Spec => []CompletedIsComplete
  BY AlwaysIInv, PTL DEF IInv

\* While a job is not executed twice, its row says what happens to it: it is RUNNING while
\* a thread executes it, or after a failure that the handler (tasks.py, lines 178-188)
\* could not record, and its progress and finished_at agree with its status.
THEOREM RowsSayWhatRuns == Spec => []ExecutionAgrees
  <1>1. ASSUME IInv, NEW j \in JobIds \ doubled
        PROVE  LET executing == {t \in Threads : held[t] = j /\ pc[t] \in Executing}
                   job == jobs[j]
               IN /\ job.status = "RUNNING" <=> Cardinality(executing) = 1 \/ j \in abandoned
                  /\ executing = {} /\ j \notin abandoned =>
                       job.progress = (IF job.status = "PENDING" THEN 0 ELSE 100)
                  /\ job.status = "RUNNING" => job.progress \in 10..85
                  /\ job.finished <=> job.status \in Settled
    <2> DEFINE E == {t \in Threads : held[t] = j /\ pc[t] \in Executing}
    <2>1. Executed(j) /\ jobs[j] \in Kept
      BY <1>1, JobOf DEF IInv
    <2>2. jobs[j].status = "RUNNING" <=> Cardinality(E) = 1 \/ j \in abandoned
      <3>1. CASE E = {}
        <4>1. Cardinality(E) = 0 /\ (jobs[j].status = "RUNNING" <=> j \in abandoned)
          BY <2>1, <3>1, FS_EmptySet DEF Executed, Runs
        <4> QED
          BY <4>1
      <3>2. CASE E # {}
        <4>1. PICK t \in E : TRUE
          BY <3>2
        <4>2. E = {t}
          BY <2>1, <4>1 DEF Executed, Runs
        <4>3. Cardinality(E) = 1
          BY <4>2, FS_Singleton
        <4>4. jobs[j].status = "RUNNING"
          BY <2>1, <4>1 DEF Executed, Runs
        <4> QED
          BY <4>3, <4>4
      <3> QED
        BY <3>1, <3>2
    <2>3. E = {} /\ j \notin abandoned =>
            jobs[j].progress = (IF jobs[j].status = "PENDING" THEN 0 ELSE 100)
      <3>1. jobs[j].status \in {"PENDING", "RUNNING"} \cup Settled
        BY <2>1 DEF Kept, Active
      <3>2. E = {} /\ j \notin abandoned => jobs[j].status # "RUNNING"
        BY <2>1 DEF Executed, Runs
      <3> QED
        BY <2>1, <3>1, <3>2 DEF Executed
    <2>4. jobs[j].finished <=> jobs[j].status \in Settled
      <3>1. jobs[j].finished \in BOOLEAN
        BY <2>1 DEF Kept
      <3> QED
        BY <2>1, <3>1, Zenon DEF Executed
    <2>5. jobs[j].status = "RUNNING" => jobs[j].progress \in 10..85
      BY <2>1 DEF Executed
    <2> QED
      BY <2>2, <2>3, <2>4, <2>5
  <1>2. IInv => ExecutionAgrees
    BY <1>1 DEF ExecutionAgrees
  <1> QED
    BY <1>2, AlwaysIInv, PTL
-----------------------------------------------------------------------------
(* Results stand: what the steps do to the rows of settled jobs.           *)

\* What ResultsStand says of one job.
Stands(i) ==
  jobs[i].status \in Settled /\ i \notin doubled' /\ jobs'[i] # jobs[i] =>
    /\ \E t \in Threads : pc[t] = "retrying" /\ held[t] = i
    /\ jobs'[i].status = "PENDING"

\* A step of a thread that executes a job changes no other row, and its own is not settled.
LEMMA ExecutorStands ==
  ASSUME IInv, NEW t \in Threads, NEW j \in JobIds, Runs(t, j), doubled' = doubled,
         NEW x, jobs' = [jobs EXCEPT ![j] = x], NEW i \in JobIds
  PROVE  Stands(i)
  <1>1. CASE i = j
    <2>1. j \notin doubled => jobs[j].status = "RUNNING"
      BY DEF IInv, Executed
    <2> QED
      BY <1>1, <2>1 DEF Stands, Settled
  <1>2. CASE i # j
    <2>1. jobs'[i] = jobs[i]
      BY <1>2 DEF IInv, Shape, JobIds
    <2> QED
      BY <2>1 DEF Stands
  <1> QED
    BY <1>1, <1>2

LEMMA BeginStands ==
  ASSUME IInv, NEW t \in Threads, BeginJob(t), NEW i \in JobIds
  PROVE  Stands(i)
  <1>1. PICK j \in JobIds : j = held[t]
    BY DEF BeginJob, IInv, ThreadInv, Holding
  <1>2. CASE i = j
    <2>1. jobs[j].status # "PENDING" => j \in doubled'
      BY <1>1 DEF BeginJob
    <2> QED
      BY <1>2, <2>1 DEF Stands, Settled
  <1>3. CASE i # j
    <2>1. jobs'[i] = jobs[i]
      BY <1>1, <1>3 DEF BeginJob, IInv, Shape, JobIds
    <2> QED
      BY <2>1 DEF Stands
  <1> QED
    BY <1>2, <1>3

LEMMA CommitStands ==
  ASSUME IInv, NEW t \in Threads, CommitRetry(t), NEW i \in JobIds
  PROVE  Stands(i)
  <1>1. PICK j \in JobIds : j = held[t] /\ pc[t] = "retrying"
    BY DEF CommitRetry, IInv, ThreadInv, Holding
  <1>2. jobs' = [jobs EXCEPT ![j] = Requeued(jobs[j])]
    BY <1>1 DEF CommitRetry
  <1>3. CASE i = j
    <2>1. jobs[j] \in Kept
      BY JobOf DEF IInv
    <2>2. jobs'[j] = Requeued(jobs[j])
      BY <1>2 DEF IInv, Shape, JobIds
    <2>3. jobs'[j].status = "PENDING"
      BY <2>1, <2>2 DEF Requeued, Kept
    <2> QED
      BY <1>1, <1>3, <2>3 DEF Stands
  <1>4. CASE i # j
    <2>1. jobs'[i] = jobs[i]
      BY <1>2, <1>4 DEF IInv, Shape, JobIds
    <2> QED
      BY <2>1 DEF Stands
  <1> QED
    BY <1>3, <1>4

LEMMA FailedStands ==
  ASSUME IInv, NEW t \in Threads, Failed(t), pc[t] \in {"fetch", "calc"}, doubled' = doubled,
         NEW i \in JobIds
  PROVE  Stands(i)
  <1>1. CASE held[t] = 0
    BY <1>1 DEF Failed, Stands
  <1>2. CASE held[t] # 0
    <2>1. held[t] \in JobIds
      BY <1>2 DEF IInv, ThreadInv, Holding
    <2>2. Runs(t, held[t])
      BY DEF Runs, Executing
    <2>3. ASSUME NEW x, jobs' = [jobs EXCEPT ![held[t]] = x] PROVE Stands(i)
      BY <2>1, <2>2, <2>3, ExecutorStands
    <2>4. ASSUME jobs' = jobs PROVE Stands(i)
      BY <2>4 DEF Stands
    <2> QED
      BY <1>2, <2>3, <2>4 DEF Failed
  <1> QED
    BY <1>1, <1>2

LEMMA ProgressStands ==
  ASSUME IInv, NEW t \in Threads, Report(t) \/ Backfilled(t) \/ FinishJob(t), NEW i \in JobIds
  PROVE  Stands(i)
  <1>1. held[t] \in JobIds /\ Runs(t, held[t]) /\ doubled' = doubled
    BY DEF Report, Backfilled, FinishJob, IInv, ThreadInv, Holding, Runs, Executing
  <1>2. PICK x : jobs' = [jobs EXCEPT ![held[t]] = x]
    <2>1. CASE Report(t)
      BY <2>1 DEF Report
    <2>2. CASE Backfilled(t)
      BY <2>2 DEF Backfilled
    <2>3. CASE FinishJob(t)
      BY <2>3 DEF FinishJob
    <2> QED
      BY <2>1, <2>2, <2>3
  <1> QED
    BY <1>1, <1>2, ExecutorStands

LEMMA StoreStands ==
  ASSUME IInv, NEW t \in Threads, StoreResults(t), NEW i \in JobIds
  PROVE  Stands(i)
  <1>1. CASE Conflict(t)
    BY <1>1, FailedStands DEF StoreResults
  <1>2. CASE ~ Conflict(t)
    BY <1>2 DEF StoreResults, Stands
  <1> QED
    BY <1>1, <1>2

LEMMA RestartStands ==
  ASSUME IInv, Restart, NEW i \in JobIds
  PROVE  Stands(i)
  <1>1. jobs'[i] = Recovered(jobs[i])
    BY DEF Restart
  <1>2. jobs[i].status \in Settled => Recovered(jobs[i]) = jobs[i]
    BY DEF Recovered, Settled
  <1> QED
    BY <1>1, <1>2 DEF Stands

\* A settled row is only changed by a retry (jobs_routes.py, lines 81-86), which queues its
\* job, or where the job was executed twice; a failure, a late commit or a restart of the
\* process rewrites no result.
THEOREM SettledRowsStand == Spec => ResultsStand
  <1>1. ASSUME IInv, Next, NEW i \in JobIds PROVE Stands(i)
    <2>1. ASSUME Restart PROVE Stands(i)
      BY <1>1, <2>1, RestartStands
    <2>2. ASSUME NEW t \in Threads, CommitRetry(t) \/ BeginJob(t) PROVE Stands(i)
      BY <1>1, <2>2, CommitStands, BeginStands
    <2>3. ASSUME NEW t \in Threads, FetchFails(t) \/ Incoherent(t) PROVE Stands(i)
      BY <1>1, <2>3, FailedStands DEF FetchFails, Incoherent
    <2>4. ASSUME NEW t \in Threads, Report(t) \/ Backfilled(t) \/ FinishJob(t) PROVE Stands(i)
      BY <1>1, <2>4, ProgressStands
    <2>5. ASSUME NEW t \in Threads, StoreResults(t) PROVE Stands(i)
      BY <1>1, <2>5, StoreStands
    <2>6. ASSUME NEW t \in Threads, InsertJob(t) PROVE Stands(i)
      <3>1. jobs'[i] = jobs[i]
        BY <1>1, <2>6 DEF InsertJob, IInv, Shape, JobIds
      <3> QED
        BY <3>1 DEF Stands
    <2>7. ASSUME NEW t \in Threads,
                 \/ Poll(t) \/ Fetch(t) \/ Save(t) \/ CalculateDate(t)
                 \/ \E r \in Requests : CreateJob(t, r) \/ CalculateHistory(t, r)
                 \/ \E j \in JobIds : RetryJob(t, j)
          PROVE  Stands(i)
      <3>1. jobs' = jobs
        BY <2>7 DEF Poll, Fetch, Save, CalculateDate, CreateJob, CalculateHistory, RetryJob
      <3> QED
        BY <3>1 DEF Stands
    <2> QED
      BY <1>1, <2>1, <2>2, <2>3, <2>4, <2>5, <2>6, <2>7 DEF Next, Working
  <1>2. IInv /\ [Next]_vars =>
          [\A j \in JobIds \ doubled' :
             jobs[j].status \in Settled /\ jobs'[j] # jobs[j] =>
               /\ \E t \in Threads : pc[t] = "retrying" /\ held[t] = j
               /\ jobs'[j].status = "PENDING"]_vars
    BY <1>1 DEF Stands
  <1> QED
    BY <1>2, AlwaysIInv, PTL DEF Spec, ResultsStand

-----------------------------------------------------------------------------
(* The types of the module: what bounds the jobs, and the rows of a bar.    *)

\* Threads that are about to insert a job, and those about to save a bar.
Inserting == {t \in Threads : pc[t] = "checked"}
Saving(b) == {t \in Threads : b \in rows[t]}

\* Every job, and every job about to be inserted, was asked for.
Counted == /\ events \in Nat /\ events <= MaxEvents
           /\ Len(jobs) + Cardinality(Inserting) <= events

\* A bar is stored once by a thread that found it missing.
Limited == \A b \in Bar : bars[b] + Cardinality(Saving(b)) <= Cardinality(Threads)

Ranged == /\ provider \in Providers /\ history \subseteq Timestamp
          /\ raced \subseteq Bar /\ doubled \subseteq JobIds

TInv == IInv /\ Counted /\ Limited /\ Ranged

\* Steps that neither insert nor save.
Calm ==
  /\ bars' = bars /\ \A t \in Threads : rows'[t] \subseteq rows[t]
  /\ Len(jobs') = Len(jobs) /\ \A t \in Threads : pc'[t] = "checked" => pc[t] = "checked"
  /\ events' = events \/ (events' = events + 1 /\ events < MaxEvents)
  /\ provider' = provider /\ history' \subseteq history \cup Timestamp
  /\ raced' = raced /\ doubled' \subseteq doubled \cup JobIds

LEMMA ThreadsCounted ==
  ASSUME NEW S \in SUBSET Threads
  PROVE  IsFiniteSet(S) /\ Cardinality(S) \in Nat /\ Cardinality(S) <= Cardinality(Threads)
  BY HistoryAssumption, FS_Subset, FS_CardinalityType

LEMMA InitTInv == Init => TInv
  <1> SUFFICES ASSUME Init PROVE TInv
    OBVIOUS
  <1>1. Inserting = {} /\ \A b \in Bar : Saving(b) = {}
    BY DEF Init, Inserting, Saving
  <1>2. Cardinality({}) = 0 /\ Cardinality(Threads) \in Nat
    BY HistoryAssumption, FS_EmptySet, FS_CardinalityType
  <1>3. Counted
    BY <1>1, <1>2, HistoryAssumption DEF Init, Counted
  <1>4. Limited
    <2> SUFFICES ASSUME NEW b \in Bar
                 PROVE  bars[b] + Cardinality(Saving(b)) <= Cardinality(Threads)
      BY DEF Limited
    <2>1. bars[b] = 0 /\ Cardinality(Saving(b)) = 0
      BY <1>1, <1>2 DEF Init
    <2> QED
      BY <1>2, <2>1
  <1> QED
    BY <1>3, <1>4, InitIInv DEF TInv, Init, Ranged

LEMMA CalmStep ==
  ASSUME TInv, IInv', Calm
  PROVE  TInv'
  <1>1. /\ IsFiniteSet(Inserting) /\ Cardinality(Inserting) \in Nat
        /\ Cardinality(Inserting') <= Cardinality(Inserting) /\ Cardinality(Inserting') \in Nat
    <2>1. Inserting' \subseteq Inserting /\ Inserting \subseteq Threads
      BY DEF Calm, Inserting
    <2> QED
      BY <2>1, ThreadsCounted, FS_Subset, FS_CardinalityType
  <1>2. Len(jobs) \in Nat
    BY DEF TInv, IInv, Shape
  <1>3. Counted'
    BY <1>1, <1>2, HistoryAssumption DEF TInv, Counted, Calm
  <1>4. ASSUME NEW b \in Bar
        PROVE  bars'[b] + Cardinality(Saving(b)') <= Cardinality(Threads)
    <2>1. Saving(b)' \subseteq Saving(b) /\ Saving(b) \subseteq Threads
      BY DEF Calm, Saving
    <2>2. /\ Cardinality(Saving(b)') <= Cardinality(Saving(b))
          /\ Cardinality(Saving(b)') \in Nat /\ Cardinality(Saving(b)) \in Nat
      BY <2>1, ThreadsCounted, FS_Subset, FS_CardinalityType
    <2>3. bars[b] \in Nat /\ bars'[b] = bars[b] /\ Cardinality(Threads) \in Nat
      BY HistoryAssumption, FS_CardinalityType DEF TInv, IInv, Shape, Calm
    <2>4. bars[b] + Cardinality(Saving(b)) <= Cardinality(Threads)
      BY DEF TInv, Limited
    <2> QED
      BY <2>2, <2>3, <2>4
  <1>5. Limited'
    BY <1>4 DEF Limited
  <1>6. Ranged'
    BY <1>2 DEF TInv, Ranged, Calm, JobIds
  <1> QED
    BY <1>3, <1>5, <1>6 DEF TInv

LEMMA CreateCounted ==
  ASSUME TInv, IInv', NEW t \in Threads, NEW r \in Requests, CreateJob(t, r)
  PROVE  TInv'
  <1>1. /\ pc[t] = "idle" /\ pc' = [pc EXCEPT ![t] = "checked"] /\ events < MaxEvents
        /\ events' = events + 1
        /\ UNCHANGED <<provider, jobs, bars, history, rows, raced, doubled>>
    BY DEF CreateJob
  <1>2. Inserting' = Inserting \cup {t} /\ t \notin Inserting /\ Inserting \subseteq Threads
    BY <1>1 DEF TInv, IInv, Shape, Inserting
  <1>3. /\ Cardinality(Inserting) \in Nat
        /\ Cardinality(Inserting') = Cardinality(Inserting) + 1
    BY <1>2, ThreadsCounted, FS_AddElement
  <1>4. Len(jobs) \in Nat
    BY DEF TInv, IInv, Shape
  <1>5. Counted'
    BY <1>1, <1>3, <1>4, HistoryAssumption DEF TInv, Counted
  <1>6. Limited'
    BY <1>1 DEF TInv, Limited, Saving
  <1>7. Ranged'
    BY <1>1 DEF TInv, Ranged, JobIds
  <1> QED
    BY <1>5, <1>6, <1>7 DEF TInv

LEMMA InsertCounted ==
  ASSUME TInv, IInv', NEW t \in Threads, InsertJob(t)
  PROVE  TInv'
  <1>1. /\ pc[t] = "checked" /\ pc' = [pc EXCEPT ![t] = "idle"]
        /\ jobs' = Append(jobs, NewJob(wanted[t])) /\ rows' = [rows EXCEPT ![t] = {}]
        /\ UNCHANGED <<provider, bars, history, raced, doubled, events>>
    BY DEF InsertJob, Answer
  <1>2. Inserting' = Inserting \ {t} /\ t \in Inserting /\ Inserting \subseteq Threads
    BY <1>1 DEF TInv, IInv, Shape, Inserting
  <1>3. /\ Cardinality(Inserting) \in Nat
        /\ Cardinality(Inserting') = Cardinality(Inserting) - 1
    BY <1>2, ThreadsCounted, FS_RemoveElement
  <1>4. Len(jobs) \in Nat /\ Len(jobs') = Len(jobs) + 1
    <2>1. jobs \in Seq(Kept) /\ jobs' \in Seq(Kept)
      BY DEF TInv, IInv, Shape
    <2> QED
      BY <1>1, <2>1
  <1>5. Counted'
    BY <1>1, <1>3, <1>4, HistoryAssumption DEF TInv, Counted
  <1>6. Limited'
    <2>1. rows[t] = {}
      BY <1>1 DEF TInv, IInv, ThreadInv, Downloads
    <2>2. rows' = rows
      BY <1>1, <2>1 DEF TInv, IInv, Shape
    <2> QED
      BY <1>1, <2>2 DEF TInv, Limited, Saving
  <1>7. Ranged'
    BY <1>1, <1>4 DEF TInv, Ranged, JobIds
  <1> QED
    BY <1>5, <1>6, <1>7 DEF TInv

\* A bar that is fetched is not stored, so that the other threads can store it once each.
LEMMA FetchLimited ==
  ASSUME TInv, IInv', NEW t \in Threads, Fetch(t)
  PROVE  TInv'
  <1>1. PICK got \in {{}, Asked(t, NextPart(parts[t]))} :
          /\ rows' = [rows EXCEPT ![t] = Missing(got)]
          /\ raced' = raced \cup {b \in got : \E u \in Others(t) : pc[u] = "save" /\ b \in rows[u]}
    BY DEF Fetch
  <1>2. /\ pc[t] = "fetch" /\ pc' = [pc EXCEPT ![t] = "save"]
        /\ UNCHANGED <<provider, jobs, bars, history, doubled, events>>
    BY DEF Fetch
  <1>3. Inserting' = Inserting
    BY <1>2 DEF TInv, IInv, Shape, Inserting
  <1>4. Counted'
    BY <1>2, <1>3 DEF TInv, Counted
  <1>5. ASSUME NEW b \in Bar
        PROVE  bars'[b] + Cardinality(Saving(b)') <= Cardinality(Threads)
    <2>1. Saving(b) \subseteq Threads /\ Saving(b)' \subseteq Threads
      BY DEF Saving
    <2>2. /\ Cardinality(Saving(b)) \in Nat /\ Cardinality(Saving(b)') \in Nat
          /\ Cardinality(Saving(b)') <= Cardinality(Threads) /\ IsFiniteSet(Saving(b))
      BY <2>1, ThreadsCounted
    <2>3. bars[b] \in Nat /\ bars'[b] = bars[b] /\ Cardinality(Threads) \in Nat
      BY <1>2, HistoryAssumption, FS_CardinalityType DEF TInv, IInv, Shape
    <2>4. CASE bars[b] = 0
      BY <2>2, <2>3, <2>4
    <2>5. CASE bars[b] # 0
      <3>1. b \notin Missing(got)
        BY <2>5 DEF Missing
      <3>2. \A u \in Threads : u # t => rows'[u] = rows[u]
        BY <1>1 DEF TInv, IInv, Shape
      <3>3. rows'[t] = Missing(got)
        BY <1>1 DEF TInv, IInv, Shape
      <3>4. Saving(b)' \subseteq Saving(b)
        BY <3>1, <3>2, <3>3 DEF Saving
      <3>5. Cardinality(Saving(b)') <= Cardinality(Saving(b))
        BY <2>2, <3>4, FS_Subset
      <3>6. bars[b] + Cardinality(Saving(b)) <= Cardinality(Threads)
        BY DEF TInv, Limited
      <3> QED
        BY <2>2, <2>3, <3>5, <3>6
    <2> QED
      BY <2>4, <2>5
  <1>6. Limited'
    BY <1>5 DEF Limited
  <1>7. Ranged'
    <2>1. \A u \in Threads : rows[u] \subseteq Bar
      BY DEF TInv, IInv, Shape
    <2>2. raced' \subseteq Bar
      BY <1>1, <2>1 DEF TInv, Ranged, Others
    <2> QED
      BY <1>2, <2>2 DEF TInv, Ranged, JobIds
  <1> QED
    BY <1>4, <1>6, <1>7 DEF TInv

LEMMA SaveLimited ==
  ASSUME TInv, IInv', NEW t \in Threads, Save(t)
  PROVE  TInv'
  <1>1. /\ pc[t] = "save" /\ pc' = [pc EXCEPT ![t] = "report"]
        /\ bars' = [b \in Bar |-> bars[b] + (IF b \in rows[t] THEN 1 ELSE 0)]
        /\ rows' = [rows EXCEPT ![t] = {}]
        /\ UNCHANGED <<provider, jobs, history, raced, doubled, events>>
    BY DEF Save
  <1>2. Inserting' = Inserting
    BY <1>1 DEF TInv, IInv, Shape, Inserting
  <1>3. Len(jobs') = Len(jobs) /\ Len(jobs) \in Nat
    BY <1>1 DEF TInv, IInv, Shape
  <1>4. Counted'
    BY <1>1, <1>2, <1>3 DEF TInv, Counted
  <1>5. ASSUME NEW b \in Bar
        PROVE  bars'[b] + Cardinality(Saving(b)') <= Cardinality(Threads)
    <2>1. Saving(b)' = Saving(b) \ {t} /\ Saving(b) \subseteq Threads
      BY <1>1 DEF TInv, IInv, Shape, Saving
    <2>2. t \in Saving(b) <=> b \in rows[t]
      BY DEF Saving
    <2>3. /\ IsFiniteSet(Saving(b)) /\ Cardinality(Saving(b)) \in Nat
          /\ Cardinality(Saving(b)') = Cardinality(Saving(b)) - (IF b \in rows[t] THEN 1 ELSE 0)
      BY <2>1, <2>2, ThreadsCounted, FS_RemoveElement
    <2>4. bars[b] \in Nat /\ bars'[b] = bars[b] + (IF b \in rows[t] THEN 1 ELSE 0)
      BY <1>1 DEF TInv, IInv, Shape
    <2>5. bars[b] + Cardinality(Saving(b)) <= Cardinality(Threads)
      BY DEF TInv, Limited
    <2>6. Cardinality(Threads) \in Nat
      BY HistoryAssumption, FS_CardinalityType
    <2> QED
      BY <2>3, <2>4, <2>5, <2>6
  <1>6. Limited'
    BY <1>5 DEF Limited
  <1>7. Ranged'
    BY <1>1, <1>3 DEF TInv, Ranged, JobIds
  <1> QED
    BY <1>4, <1>6, <1>7 DEF TInv

\* The thread's request is answered, with its job changed or not.
LEMMA AnswerCalm ==
  ASSUME TInv, NEW t \in Threads, Answer(t)
  PROVE  /\ \A u \in Threads : rows'[u] \subseteq rows[u]
         /\ \A u \in Threads : pc'[u] = "checked" => pc[u] = "checked"
  BY DEF TInv, IInv, Shape, Answer

LEMMA FailedCalm ==
  ASSUME TInv, IInv', NEW t \in Threads, Failed(t)
  PROVE  /\ \A u \in Threads : rows'[u] \subseteq rows[u]
         /\ \A u \in Threads : pc'[u] = "checked" => pc[u] = "checked"
         /\ Len(jobs') = Len(jobs)
  <1>1. Answer(t) /\ DOMAIN jobs' = DOMAIN jobs
    BY DEF Failed
  <1>2. jobs \in Seq(Kept) /\ jobs' \in Seq(Kept)
    BY DEF TInv, IInv, Shape
  <1> QED
    BY <1>1, <1>2, AnswerCalm

LEMMA OtherStepsCalm ==
  ASSUME TInv, IInv', NEW t \in Threads,
         \/ Poll(t) \/ CommitRetry(t) \/ BeginJob(t) \/ FetchFails(t) \/ Report(t)
         \/ Backfilled(t) \/ CalculateDate(t) \/ Incoherent(t) \/ StoreResults(t) \/ FinishJob(t)
         \/ \E r \in Requests : CalculateHistory(t, r)
         \/ \E j \in JobIds : RetryJob(t, j)
  PROVE  Calm
  <1>1. /\ jobs \in Seq(Kept) /\ jobs' \in Seq(Kept) /\ pc \in [Threads -> Places]
        /\ rows \in [Threads -> SUBSET Bar]
    BY DEF TInv, IInv, Shape
  <1>2. CASE Poll(t)
    BY <1>1, <1>2 DEF Poll, Calm
  <1>3. CASE CommitRetry(t)
    <2>1. Answer(t) /\ DOMAIN jobs' = DOMAIN jobs
      BY <1>3 DEF CommitRetry
    <2>2. held[t] \in JobIds
      BY <1>3 DEF CommitRetry, TInv, IInv, ThreadInv, Holding
    <2> QED
      BY <1>1, <1>3, <2>1, <2>2, AnswerCalm DEF CommitRetry, Calm
  <1>4. CASE BeginJob(t)
    <2>1. DOMAIN jobs' = DOMAIN jobs /\ held[t] \in JobIds
      BY <1>4 DEF BeginJob, TInv, IInv, ThreadInv, Holding
    <2>2. \A u \in Threads : pc'[u] = "checked" => pc[u] = "checked"
      BY <1>1, <1>4 DEF BeginJob
    <2> QED
      BY <1>1, <1>4, <2>1, <2>2 DEF BeginJob, Calm
  <1>5. CASE FetchFails(t)
    BY <1>5, FailedCalm DEF FetchFails, Calm
  <1>6. CASE Backfilled(t)
    <2>1. DOMAIN jobs' = DOMAIN jobs
      BY <1>6 DEF Backfilled
    <2> QED
      BY <1>1, <1>6, <2>1 DEF Backfilled, Calm
  <1>7. CASE CalculateDate(t)
    BY <1>7 DEF CalculateDate, Calm
  <1>8. CASE Incoherent(t)
    BY <1>8, FailedCalm DEF Incoherent, Calm
  <1>9. CASE StoreResults(t)
    <2>1. CASE Conflict(t)
      BY <1>9, <2>1, FailedCalm DEF StoreResults, Calm
    <2>2. {w.at : w \in draft[t]} \subseteq Timestamp
      BY DEF TInv, IInv, Shape, Write
    <2>3. CASE ~ Conflict(t) /\ held[t] = 0
      BY <1>9, <2>2, <2>3, AnswerCalm DEF StoreResults, Calm
    <2>4. CASE ~ Conflict(t) /\ held[t] # 0
      BY <1>1, <1>9, <2>2, <2>4 DEF StoreResults, Calm
    <2> QED
      BY <2>1, <2>3, <2>4
  <1>10. CASE FinishJob(t)
    <2>1. Answer(t) /\ DOMAIN jobs' = DOMAIN jobs
      BY <1>10 DEF FinishJob
    <2> QED
      BY <1>1, <1>10, <2>1, AnswerCalm DEF FinishJob, Calm
  <1>11. ASSUME NEW r \in Requests, CalculateHistory(t, r) PROVE Calm
    BY <1>1, <1>11 DEF CalculateHistory, Calm
  <1>12. ASSUME NEW j \in JobIds, RetryJob(t, j) PROVE Calm
    BY <1>1, <1>12 DEF RetryJob, Calm
  <1>13. CASE Report(t)
    <2>1. DOMAIN jobs' = DOMAIN jobs
      BY <1>13 DEF Report
    <2> QED
      BY <1>1, <1>13, <2>1 DEF Report, Calm
  <1> QED
    BY <1>2, <1>3, <1>4, <1>5, <1>6, <1>7, <1>8, <1>9, <1>10, <1>11, <1>12, <1>13

LEMMA RestartCalm ==
  ASSUME TInv, IInv', Restart
  PROVE  Calm
  <1>1. jobs \in Seq(Kept) /\ jobs' \in Seq(Kept) /\ DOMAIN jobs' = JobIds
    BY DEF TInv, IInv, Shape, Restart
  <1>2. Len(jobs') = Len(jobs)
    BY <1>1 DEF JobIds
  <1> QED
    BY <1>2 DEF Restart, Calm

LEMMA NextTInv == TInv /\ [Next]_vars => TInv'
  <1> SUFFICES ASSUME TInv, [Next]_vars PROVE TInv'
    OBVIOUS
  <1>1. IInv'
    BY NextIInv DEF TInv
  <1>2. CASE Restart
    BY <1>1, <1>2, RestartCalm, CalmStep
  <1>3. ASSUME NEW t \in Threads, NEW r \in Requests, CreateJob(t, r) PROVE TInv'
    BY <1>1, <1>3, CreateCounted
  <1>4. ASSUME NEW t \in Threads, InsertJob(t) \/ Fetch(t) \/ Save(t) PROVE TInv'
    BY <1>1, <1>4, InsertCounted, FetchLimited, SaveLimited
  <1>5. ASSUME NEW t \in Threads,
               \/ Poll(t) \/ CommitRetry(t) \/ BeginJob(t) \/ FetchFails(t) \/ Report(t)
               \/ Backfilled(t) \/ CalculateDate(t) \/ Incoherent(t) \/ StoreResults(t) \/ FinishJob(t)
               \/ \E r \in Requests : CalculateHistory(t, r)
               \/ \E j \in JobIds : RetryJob(t, j)
        PROVE  TInv'
    BY <1>1, <1>5, OtherStepsCalm, CalmStep
  <1>6. CASE UNCHANGED vars
    <2>1. Calm
      BY <1>6 DEF vars, threadVars, Calm
    <2> QED
      BY <1>1, <2>1, CalmStep
  <1> QED
    BY <1>2, <1>3, <1>4, <1>5, <1>6 DEF Next, Working

\* A bar has at most one row for each request in progress, whatever restarts and retries
\* there are (alpaca_history.py, line 188); a job row that is held exists, and all that the
\* requests carry along is of the types the module gives.
THEOREM TypeCorrect == Spec => []TypeOK
  <1>1. TInv => TypeOK
    <2> SUFFICES ASSUME TInv PROVE TypeOK
      OBVIOUS
    <2>1. /\ Shape /\ Counted /\ Ranged /\ Len(jobs) \in Nat /\ MaxEvents \in Nat
          /\ Cardinality(Threads) \in Nat
      BY HistoryAssumption, FS_CardinalityType DEF TInv, IInv, Shape
    <2>2. Len(jobs) <= MaxEvents /\ events \in 0..MaxEvents
      <3>1. Cardinality(Inserting) \in Nat
        BY ThreadsCounted DEF Inserting
      <3> QED
        BY <2>1, <3>1 DEF Counted
    <2>3. ASSUME NEW b \in Bar PROVE bars[b] \in 0..Cardinality(Threads)
      <3>1. Cardinality(Saving(b)) \in Nat /\ bars[b] \in Nat
        BY <2>1, ThreadsCounted DEF Saving, Shape
      <3>2. bars[b] + Cardinality(Saving(b)) <= Cardinality(Threads)
        BY DEF TInv, Limited
      <3> QED
        BY <2>1, <3>1, <3>2
    <2>4. ASSUME NEW t \in Threads PROVE held[t] \in 0..MaxEvents
      <3>1. held[t] \in Nat /\ (held[t] = 0 \/ held[t] \in JobIds)
        BY <2>1 DEF TInv, IInv, ThreadInv, Holding, Shape, Places, Executing
      <3> QED
        BY <2>1, <2>2, <3>1 DEF JobIds
    <2>5. jobs \in Seq(Job)
      BY <2>1 DEF Shape, Kept, Job
    <2>6. bars \in [Bar -> 0..Cardinality(Threads)] /\ held \in [Threads -> 0..MaxEvents]
      BY <2>1, <2>3, <2>4 DEF Shape
    <2>7. doubled \cup abandoned \subseteq 1..MaxEvents
      BY <2>1, <2>2 DEF Ranged, JobIds, TInv, IInv
    <2> QED
      BY <2>1, <2>2, <2>5, <2>6, <2>7 DEF Shape, Ranged, Places, TypeOK
  <1> QED
    BY <1>1, InitTInv, NextTInv, PTL DEF Spec
=============================================================================
