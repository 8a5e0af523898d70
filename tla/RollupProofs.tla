---------------------------- MODULE RollupProofs ----------------------------
(***************************************************************************)
(* What the maintenance of Rollup does to samples and daily rows, for any *)
(* writers, results, tables, retentions, batches and bounds.               *)
(***************************************************************************)
EXTENDS Rollup, FiniteSetTheorems, WellFoundedInduction, TLAPS

Value  == Row \cup {None}
Folded == UNION {[ts -> Value] : ts \in SUBSET Times}
Work   == [at : Times, row : Results, names : SUBSET Names, read : [Names -> Value],
           id : [Names -> Nat]]
Job    == [cutoff : Int, optionCutoff : Int, cleanup : BOOLEAN, requested : BOOLEAN,
           table : {1, 2}, ids : SUBSET Times, days : SUBSET Days]

\* Types of what the samples go through.
Shape ==
  /\ now \in Int
  /\ history \in [Names -> [Times -> Value]]
  /\ inserts \in [Names -> [Times -> Nat]]
  /\ pc \in Steps /\ job \in Job
  /\ requested \in BOOLEAN
  /\ writing \in [Writers -> Work \cup {None}]
  /\ log \in [Names -> Seq(Folded)]
  /\ accepted \in [Names -> [Times -> Seq(Row)]]
  /\ again \in [Names -> [Times -> Nat]]

\* A row in the history is the last one accepted for its time.
LastAccepted ==
  \A n \in Names, t \in Times :
    history[n][t] # None =>
      /\ accepted[n][t] # <<>>
      /\ history[n][t] = accepted[n][t][Len(accepted[n][t])]

\* A row that is about to be deleted has been folded as it still is, unless it was
\* replaced in between.
PendingFolded ==
  \A n \in Names : \A t \in Pending(n) :
    <<n, t>> \notin raced =>
      \E k \in DOMAIN log[n] : t \in DOMAIN log[n][k] /\ log[n][k][t] = history[n][t]

IInv == Shape /\ LastAccepted /\ PendingFolded /\ SamplesSurvive /\ FoldedOncePerWrite

-----------------------------------------------------------------------------
(* The types.                                                              *)

LEMMA InitIInv == Init => IInv
  <1> SUFFICES ASSUME Init PROVE IInv
    OBVIOUS
  <1>1. NoJob \in Job
    BY DEF NoJob, Job
  <1>2. \A n \in Names : Pending(n) = {}
    BY DEF Init, Pending
  <1>3. /\ now \in Int /\ pc \in Steps /\ requested \in BOOLEAN
        /\ history \in [Names -> [Times -> Value]]
        /\ inserts \in [Names -> [Times -> Nat]]
        /\ writing \in [Writers -> Work \cup {None}]
    <2>1. now \in Int /\ pc \in Steps
      BY DEF Init, Steps
    <2>4. requested \in BOOLEAN
      BY DEF Init
    <2>2. history \in [Names -> [Times -> Value]]
      BY DEF Init, Value
    <2>3. writing \in [Writers -> Work \cup {None}]
      BY DEF Init
    <2>5. inserts \in [Names -> [Times -> Nat]]
      BY DEF Init
    <2> QED
      BY <2>1, <2>2, <2>3, <2>4, <2>5
  <1>4. /\ log \in [Names -> Seq(Folded)] /\ accepted \in [Names -> [Times -> Seq(Row)]]
        /\ again \in [Names -> [Times -> Nat]]
    BY DEF Init
  <1>5. Shape
    BY <1>1, <1>3, <1>4 DEF Shape, Init
  <1>6. LastAccepted /\ PendingFolded /\ SamplesSurvive
    BY <1>2 DEF LastAccepted, PendingFolded, SamplesSurvive, Init
  <1>7. FoldedOncePerWrite
    <2> SUFFICES ASSUME NEW n \in Names, NEW t \in Times
                 PROVE  LET folds == {k \in DOMAIN log[n] : t \in DOMAIN log[n][k]}
                            live  == IF history[n][t] = None \/ t \in Pending(n) THEN 0 ELSE 1
                        IN  Cardinality(folds) + live <= Len(accepted[n][t]) + again[n][t]
      BY DEF FoldedOncePerWrite
    <2>1. /\ {k \in DOMAIN log[n] : t \in DOMAIN log[n][k]} = {}
          /\ history[n][t] = None /\ accepted[n][t] = <<>> /\ again[n][t] = 0
      BY DEF Init
    <2>2. Cardinality({k \in DOMAIN log[n] : t \in DOMAIN log[n][k]}) = 0
      BY <2>1, FS_EmptySet
    <2>3. Len(accepted[n][t]) = 0
      BY <2>1
    <2> QED
      BY <2>1, <2>2, <2>3
  <1> QED
    BY <1>5, <1>6, <1>7 DEF IInv

LEMMA JobFields ==
  ASSUME Shape
  PROVE  /\ job.table \in {1, 2} /\ job.ids \subseteq Times /\ job.days \subseteq Days
         /\ job.cutoff \in Int /\ job.requested \in BOOLEAN
         /\ Tables[job.table] \in Names
  <1>1. job \in Job
    BY DEF Shape
  <1>2. Tables[1] = "svix" /\ Tables[2] = "custom"
    BY DEF Tables
  <1> QED
    BY <1>1, <1>2 DEF Job, Names

\* The types are kept by the steps of the maintenance ...
LEMMA MaintainKeepsShape ==
  ASSUME Shape, Maintain
  PROVE  Shape'
  <1>0. job \in Job /\ NoJob \in Job /\ job.table \in {1, 2} /\ Tables[job.table] \in Names
    BY JobFields DEF Shape, NoJob, Job
  <1>1. CASE Begin
    <2>1. Retention * DayLength \in Int /\ OptionDays * DayLength \in Int
      BY RollupAssumption
    <2>2. now - Retention * DayLength \in Int /\ now - OptionDays * DayLength \in Int
      BY <2>1 DEF Shape
    <2>3. PICK cleanup \in BOOLEAN :
            job' = [NoJob EXCEPT !.cutoff = now - Retention * DayLength,
                                 !.optionCutoff = now - OptionDays * DayLength,
                                 !.cleanup = cleanup, !.requested = requested]
      BY <1>1 DEF Begin
    <2>4. job' \in Job
      BY <2>2, <2>3 DEF Shape, NoJob, Job
    <2> QED
      BY <1>1, <2>4 DEF Begin, Shape, Steps, seriesVars, settings, ghosts
  <1>2. CASE Fold
    <2> DEFINE n == Tables[job.table]
               rows == Below(n, job.cutoff)
               new == [t \in rows |-> history[n][t]]
    <2>1. rows \in SUBSET Times
      BY DEF Below
    <2>2. new \in Folded
      <3>1. new \in [rows -> Value]
        BY <1>0, <2>1 DEF Shape
      <3> QED
        BY <2>1, <3>1 DEF Folded
    <2>3. /\ job' = [job EXCEPT !.ids = rows]
          /\ log' = IF rows = {} THEN log ELSE [log EXCEPT ![n] = Append(log[n], new)]
      BY <1>2 DEF Fold
    <2>4. /\ pc' = "delete"
          /\ UNCHANGED <<now, history, inserts, requested, writing, accepted, again>>
      BY <1>2 DEF Fold, settings
    <2>5. n \in Names
      BY <1>0
    <2> HIDE DEF n, rows, new
    <2>6. job' \in Job
      BY <1>0, <2>1, <2>3 DEF Job
    <2>7. log' \in [Names -> Seq(Folded)]
      <3>1. log \in [Names -> Seq(Folded)] /\ log[n] \in Seq(Folded)
        BY <2>5 DEF Shape
      <3>2. Append(log[n], new) \in Seq(Folded)
        BY <2>2, <3>1
      <3> QED
        BY <2>3, <3>1, <3>2
    <2> QED
      BY <2>4, <2>6, <2>7 DEF Shape, Steps
  <1>3. CASE Delete
    <2> DEFINE n == Tables[job.table]
               batch == Batch(job.ids)
               rest == job.ids \ batch
    <2>1. rest \in SUBSET Times
      BY JobFields
    <2>2. /\ history' = [history EXCEPT ![n] =
                           [t \in Times |-> IF t \in batch THEN None ELSE history[n][t]]]
          /\ pc' \in Steps
          /\ \/ job' = [job EXCEPT !.ids = rest]
             \/ job' = [job EXCEPT !.ids = {}, !.table = job.table]
             \/ job.table # 2 /\ job' = [job EXCEPT !.ids = {}, !.table = job.table + 1]
          /\ UNCHANGED <<now, inserts, requested, writing, log, accepted, again>>
      <3>1. Len(Tables) = 2
        BY DEF Tables
      <3> QED
        BY <1>0, <1>3, <3>1 DEF Delete, settings, ghosts, Steps, Shape
    <2>3. job.table # 2 => job.table + 1 \in {1, 2}
      BY <1>0
    <2> HIDE DEF n, batch, rest
    <2>4. job' \in Job
      BY <1>0, <2>1, <2>2, <2>3 DEF Job
    <2>5. history' \in [Names -> [Times -> Value]]
      BY <2>2 DEF Shape, Value
    <2> QED
      BY <2>2, <2>4, <2>5 DEF Shape
  <1>4. CASE Cleanup
    <2>1. PICK days \in SUBSET Days :
            job' = [job EXCEPT !.days = days] /\ pc' \in {"complete", "options"}
      BY <1>4 DEF Cleanup
    <2>2. job' \in Job
      BY <1>0, <2>1 DEF Job
    <2> QED
      BY <1>4, <2>1, <2>2 DEF Cleanup, Shape, Steps, seriesVars, settings, ghosts
  <1>5. ASSUME NEW d \in Days, DeleteQuotes(d)
        PROVE  Shape'
    <2>1. job' \in Job
      BY <1>0, <1>5 DEF DeleteQuotes, Job
    <2> QED
      BY <1>5, <2>1 DEF DeleteQuotes, Shape, Steps, settings, ghosts
  <1>6. CASE Complete
    BY <1>0, <1>6 DEF Complete, Shape, Steps, seriesVars, settings, ghosts
  <1>7. CASE Clear
    BY <1>0, <1>7 DEF Clear, Shape, Steps, seriesVars, ghosts
  <1>8. CASE RecordFailure
    BY <1>0, <1>8 DEF RecordFailure, Shape, Steps, seriesVars, settings, ghosts
  <1> QED
    BY <1>1, <1>2, <1>3, <1>4, <1>5, <1>6, <1>7, <1>8 DEF Maintain

\* What a commit writes is a row, also where it changes single columns of another.
LEMMA StoreWrites ==
  ASSUME Shape, NEW w \in Writers, Store(w)
  PROVE  /\ writing[w].at \in Times /\ writing[w].names \subseteq Names
         /\ \A n \in writing[w].names : Written(w, n) \in Row
  <1>1. writing[w] \in Work
    BY DEF Store, Shape
  <1>2. ASSUME NEW n \in writing[w].names
        PROVE  Written(w, n) \in Row
    <2> DEFINE work == writing[w]
               old == history[n][work.at]
    <2>1. n \in Names /\ work.at \in Times /\ work.row \in Row
      BY <1>1, RollupAssumption DEF Work
    <2>2. CASE work.read[n] = None
      BY <2>1, <2>2 DEF Written
    <2>3. CASE work.read[n] # None
      <3>1. old # None
        BY <2>3 DEF Store, AsRead
      <3>2. old \in Row
        BY <2>1, <3>1 DEF Shape, Value
      <3>3. Written(w, n) = Updated(old, work.read[n], work.row)
        BY <2>3 DEF Written
      <3> HIDE DEF work, old
      <3>4. Updated(old, work.read[n], work.row) \in Row
        BY <2>1, <3>2 DEF Updated, Row
      <3> QED
        BY <3>3, <3>4
    <2> QED
      BY <2>2, <2>3
  <1> QED
    BY <1>1, <1>2 DEF Work

\* ... by those of a writer ...
LEMMA WriteKeepsShape ==
  ASSUME Shape, NEW w \in Writers, Write(w)
  PROVE  Shape'
  <1>1. ASSUME NEW t \in Times, Calculate(w, t)
        PROVE  Shape'
    <2>1. PICK row \in Results, names \in Outcomes :
            writing' = [writing EXCEPT ![w] =
                          [at |-> t, row |-> row, names |-> {n \in names : Accepts(n, t, row)},
                           read |-> [n \in Names |-> history[n][t]],
                           id |-> [n \in Names |-> inserts[n][t]]]]
      BY <1>1 DEF Calculate
    <2> DEFINE stored == {n \in names : Accepts(n, t, row)}
               read == [n \in Names |-> history[n][t]]
               id == [n \in Names |-> inserts[n][t]]
    <2>2. stored \in SUBSET Names
      BY RollupAssumption
    <2>3. read \in [Names -> Value] /\ id \in [Names -> Nat]
      BY DEF Shape
    <2> HIDE DEF stored, read, id
    <2>4. [at |-> t, row |-> row, names |-> stored, read |-> read, id |-> id] \in Work
      BY <2>2, <2>3 DEF Work
    <2>5. writing' \in [Writers -> Work \cup {None}]
      BY <2>1, <2>4 DEF Shape, stored, read, id
    <2> QED
      BY <1>1, <2>5 DEF Calculate, Shape, seriesVars, settings, runVars, ghosts
  <1>2. CASE Store(w)
    <2> DEFINE t == writing[w].at
               stored == writing[w].names
    <2>1. t \in Times /\ \A n \in stored : Written(w, n) \in Row
      BY <1>2, StoreWrites
    <2>2. /\ history' = [n \in Names |->
                           IF n \in stored THEN [history[n] EXCEPT ![t] = Written(w, n)]
                           ELSE history[n]]
          /\ inserts' = [n \in Names |->
                           IF n \in stored /\ writing[w].read[n] = None
                           THEN [inserts[n] EXCEPT ![t] = @ + 1] ELSE inserts[n]]
          /\ accepted' = [n \in Names |->
                            IF n \in stored
                            THEN [accepted[n] EXCEPT ![t] = Append(@, Written(w, n))]
                            ELSE accepted[n]]
          /\ writing' = [writing EXCEPT ![w] = None]
      BY <1>2 DEF Store
    <2>3. UNCHANGED <<now, pc, job, requested, log, again>>
      BY <1>2 DEF Store, settings, runVars
    <2> HIDE DEF t, stored
    <2>4. history' \in [Names -> [Times -> Value]]
      BY <2>1, <2>2 DEF Shape, Value
    <2>5. accepted' \in [Names -> [Times -> Seq(Row)]]
      <3>1. \A n \in Names : /\ accepted[n] \in [Times -> Seq(Row)]
                             /\ n \in stored => Append(accepted[n][t], Written(w, n)) \in Seq(Row)
        BY <2>1 DEF Shape
      <3> QED
        BY <2>2, <3>1
    <2>6. inserts' \in [Names -> [Times -> Nat]]
      <3>1. \A n \in Names : inserts[n] \in [Times -> Nat] /\ inserts[n][t] + 1 \in Nat
        BY <2>1 DEF Shape
      <3> QED
        BY <2>2, <3>1
    <2>7. writing' \in [Writers -> Work \cup {None}]
      BY <2>2 DEF Shape
    <2> QED
      BY <2>3, <2>4, <2>5, <2>6, <2>7 DEF Shape
  <1>3. CASE Discard(w)
    BY <1>3 DEF Discard, Shape, seriesVars, settings, runVars, ghosts
  <1> QED
    BY <1>1, <1>2, <1>3 DEF Write

\* ... and by everything else.
LEMMA OthersKeepShape ==
  ASSUME Shape,
         \/ Fails \/ Crash \/ Tick \/ Request \/ SetArchive
         \/ \E d \in Days : Quotes(d)
         \/ UNCHANGED vars
  PROVE  Shape'
  <1>1. CASE Fails \/ Crash
    <2>1. again' \in [Names -> [Times -> Nat]]
      <3>1. again' = [n \in Names |-> [t \in Times |->
                        again[n][t] + (IF t \in Pending(n) THEN 1 ELSE 0)]]
        BY <1>1 DEF Fails, Crash, Interrupted
      <3>2. \A n \in Names, t \in Times :
              again[n][t] + (IF t \in Pending(n) THEN 1 ELSE 0) \in Nat
        BY DEF Shape
      <3> QED
        BY <3>1, <3>2
    <2>2. /\ pc' \in Steps /\ job' = NoJob /\ NoJob \in Job
          /\ UNCHANGED <<now, history, inserts, requested, log, accepted>>
      BY <1>1 DEF Fails, Crash, Steps, seriesVars, settings, NoJob, Job
    <2>3. writing' \in [Writers -> Work \cup {None}]
      BY <1>1 DEF Fails, Crash, Shape
    <2> QED
      BY <2>1, <2>2, <2>3 DEF Shape
  <1>2. CASE Tick
    BY <1>2 DEF Tick, Shape, seriesVars, settings, runVars, ghosts
  <1>3. CASE Request
    BY <1>3 DEF Request, Shape, seriesVars, runVars, ghosts
  <1>4. CASE SetArchive
    BY <1>4 DEF SetArchive, Shape, seriesVars, runVars, ghosts
  <1>5. CASE \E d \in Days : Quotes(d)
    BY <1>5 DEF Quotes, Shape, settings, runVars, ghosts
  <1>6. CASE UNCHANGED vars
    BY <1>6 DEF vars, Shape, seriesVars, settings, runVars, ghosts
  <1> QED
    BY <1>1, <1>2, <1>3, <1>4, <1>5, <1>6

-----------------------------------------------------------------------------
(* The samples.                                                            *)

Samples == LastAccepted /\ PendingFolded /\ SamplesSurvive /\ FoldedOncePerWrite

\* The folds that hold a row of time t, and whether one is in the history beside them.
FoldsOf(n, t) == {k \in DOMAIN log[n] : t \in DOMAIN log[n][k]}
Live(n, t)    == IF history[n][t] = None \/ t \in Pending(n) THEN 0 ELSE 1

LEMMA FoldsAreFinite ==
  ASSUME Shape, NEW n \in Names, NEW t \in Times
  PROVE  IsFiniteSet(FoldsOf(n, t)) /\ Cardinality(FoldsOf(n, t)) \in Nat
  <1>1. DOMAIN log[n] = 1..Len(log[n]) /\ Len(log[n]) \in Nat
    BY DEF Shape
  <1>2. IsFiniteSet(FoldsOf(n, t))
    <2>1. IsFiniteSet(1..Len(log[n]))
      BY <1>1, FS_Interval
    <2>2. FoldsOf(n, t) \subseteq 1..Len(log[n])
      BY <1>1 DEF FoldsOf
    <2> QED
      BY <2>1, <2>2, FS_Subset
  <1> QED
    BY <1>2, FS_CardinalityType

\* Steps that neither store, fold nor delete, and leave no fold behind undeleted.
LEMMA QuietKeepsSamples ==
  ASSUME Samples, UNCHANGED <<history, log, accepted, raced, again>>,
         \A n \in Names : Pending(n)' = Pending(n)
  PROVE  Samples'
  <1>1. LastAccepted' /\ SamplesSurvive'
    BY DEF Samples, LastAccepted, SamplesSurvive
  <1>2. PendingFolded'
    BY DEF Samples, PendingFolded
  <1>3. FoldedOncePerWrite'
    BY DEF Samples, FoldedOncePerWrite
  <1> QED
    BY <1>1, <1>2, <1>3 DEF Samples

LEMMA StoreKeepsSamples ==
  ASSUME Shape, Samples, NEW w \in Writers, Store(w)
  PROVE  Samples'
  <1> DEFINE t == writing[w].at
             stored == writing[w].names
             row(n) == Written(w, n)
             stores(n, u) == n \in stored /\ u = t
  <1>0. t \in Times /\ \A n \in stored : row(n) \in Row
    BY StoreWrites
  <1>1. /\ \A n \in Names : Pending(n)' = Pending(n)
        /\ log' = log /\ again' = again
    BY DEF Store, Pending, runVars
  <1>2. \A n \in Names, u \in Times :
          /\ accepted[n][u] \in Seq(Row)
          /\ stores(n, u) => /\ history'[n][u] = row(n)
                             /\ accepted'[n][u] = Append(accepted[n][u], row(n))
          /\ ~ stores(n, u) => /\ history'[n][u] = history[n][u]
                               /\ accepted'[n][u] = accepted[n][u]
    <2> HIDE DEF row
    <2> QED
      BY DEF Store, Shape, row
  <1>3. /\ raced \subseteq raced'
        /\ \A n \in Names : \A u \in Pending(n) : stores(n, u) => <<n, u>> \in raced'
    BY DEF Store
  <1>9. \A n \in Names, u \in Times : stores(n, u) => row(n) \in Row
    BY <1>0
  <1> HIDE DEF t, row, stored, stores
  <1>4. \A n \in Names, u \in Times : stores(n, u) =>
          /\ Len(accepted'[n][u]) = Len(accepted[n][u]) + 1
          /\ accepted'[n][u] # <<>> /\ accepted'[n][u][Len(accepted'[n][u])] = row(n)
    BY <1>2, <1>9
  <1>5. LastAccepted'
    BY <1>2, <1>4 DEF Samples, LastAccepted
  <1>6. PendingFolded'
    <2> SUFFICES ASSUME NEW n \in Names, NEW u \in Pending(n), <<n, u>> \notin raced'
                 PROVE  \E k \in DOMAIN log[n] :
                          u \in DOMAIN log[n][k] /\ log[n][k][u] = history'[n][u]
      BY <1>1 DEF PendingFolded
    <2>1. u \in Times
      BY JobFields DEF Pending
    <2>2. <<n, u>> \notin raced /\ history'[n][u] = history[n][u]
      BY <1>2, <1>3, <2>1
    <2> QED
      BY <2>2 DEF Samples, PendingFolded
  <1>7. SamplesSurvive'
    <2> SUFFICES ASSUME NEW n \in Names, NEW u \in Times,
                        accepted'[n][u] # <<>>, <<n, u>> \notin raced'
                 PROVE  LET last == accepted'[n][u][Len(accepted'[n][u])] IN
                        \/ history'[n][u] = last
                        \/ \E k \in DOMAIN log[n] :
                             u \in DOMAIN log[n][k] /\ log[n][k][u] = last
      BY <1>1 DEF SamplesSurvive
    <2>1. CASE stores(n, u)
      BY <1>2, <1>4, <2>1
    <2>2. CASE ~ stores(n, u)
      BY <1>2, <1>3, <2>2 DEF Samples, SamplesSurvive
    <2> QED
      BY <2>1, <2>2
  <1>8. FoldedOncePerWrite'
    <2> SUFFICES ASSUME NEW n \in Names, NEW u \in Times
                 PROVE  Cardinality(FoldsOf(n, u)') + Live(n, u)'
                          <= Len(accepted'[n][u]) + again'[n][u]
      BY DEF FoldedOncePerWrite, FoldsOf, Live
    <2>1. /\ Cardinality(FoldsOf(n, u)) \in Nat /\ again[n][u] \in Nat
          /\ Len(accepted[n][u]) \in Nat
          /\ Live(n, u) \in {0, 1} /\ Live(n, u)' \in {0, 1}
      BY FoldsAreFinite DEF Live, Shape
    <2>2. Cardinality(FoldsOf(n, u)) + Live(n, u) <= Len(accepted[n][u]) + again[n][u]
      BY DEF Samples, FoldedOncePerWrite, FoldsOf, Live
    <2>3. FoldsOf(n, u)' = FoldsOf(n, u) /\ again'[n][u] = again[n][u]
      BY <1>1 DEF FoldsOf
    <2>4. CASE stores(n, u)
      BY <1>4, <2>1, <2>2, <2>3, <2>4
    <2>5. CASE ~ stores(n, u)
      <3>1. Live(n, u)' = Live(n, u) /\ accepted'[n][u] = accepted[n][u]
        BY <1>1, <1>2, <2>5 DEF Live
      <3> QED
        BY <2>2, <2>3, <3>1
    <2> QED
      BY <2>4, <2>5
  <1> QED
    BY <1>5, <1>6, <1>7, <1>8 DEF Samples

LEMMA FoldKeepsSamples ==
  ASSUME Shape, Samples, Fold
  PROVE  Samples'
  <1>0. PICK n0 \in Names : n0 = Tables[job.table]
    BY JobFields
  <1>1. PICK rows \in SUBSET Times : rows = Below(n0, job.cutoff)
    BY DEF Below
  <1> DEFINE new == [t \in rows |-> history[n0][t]]
  <1>2. /\ log' = IF rows = {} THEN log ELSE [log EXCEPT ![n0] = Append(log[n0], new)]
        /\ job' = [job EXCEPT !.ids = rows]
        /\ pc = "fold" /\ pc' = "delete"
        /\ UNCHANGED <<history, accepted, raced, again>>
    BY <1>0, <1>1 DEF Fold
  <1>3. /\ \A n \in Names : Pending(n) = {}
        /\ \A n \in Names : Pending(n)' = IF n = n0 THEN rows ELSE {}
    <2>1. job'.ids = rows /\ job'.table = job.table
      BY <1>2 DEF Shape, Job
    <2> QED
      BY <1>0, <1>2, <2>1 DEF Pending
  <1>4. \A u \in rows : u \in Times /\ history[n0][u] # None
    BY <1>1 DEF Below
  <1>5. \A n \in Names : log[n] \in Seq(Folded) /\ DOMAIN log[n] = 1..Len(log[n])
                         /\ Len(log[n]) \in Nat
    BY DEF Shape
  <1>6. PICK m \in Nat : m = Len(log[n0]) + 1
    BY <1>5
  <1>7. \A n \in Names :
          /\ n # n0 \/ rows = {} => log'[n] = log[n]
          /\ n = n0 /\ rows # {} =>
               /\ DOMAIN log'[n] = 1..m
               /\ \A k \in DOMAIN log[n] : k \in 1..m /\ k # m /\ log'[n][k] = log[n][k]
               /\ \A k \in 1..m : k # m => k \in DOMAIN log[n]
               /\ log'[n][m] = new
    <2> SUFFICES ASSUME NEW n \in Names
                 PROVE  /\ n # n0 \/ rows = {} => log'[n] = log[n]
                        /\ n = n0 /\ rows # {} =>
                             /\ DOMAIN log'[n] = 1..m
                             /\ \A k \in DOMAIN log[n] :
                                  k \in 1..m /\ k # m /\ log'[n][k] = log[n][k]
                             /\ \A k \in 1..m : k # m => k \in DOMAIN log[n]
                             /\ log'[n][m] = new
      OBVIOUS
    <2>1. n # n0 \/ rows = {} => log'[n] = log[n]
      BY <1>2 DEF Shape
    <2>2. n = n0 /\ rows # {} => log'[n] = Append(log[n], new)
      BY <1>2 DEF Shape
    <2> HIDE DEF new
    <2> QED
      BY <1>5, <1>6, <2>1, <2>2
  <1>8. LastAccepted'
    BY <1>2 DEF Samples, LastAccepted
  <1>9. PendingFolded'
    <2> SUFFICES ASSUME NEW u \in rows, rows # {}
                 PROVE  \E k \in DOMAIN log'[n0] :
                          u \in DOMAIN log'[n0][k] /\ log'[n0][k][u] = history[n0][u]
      BY <1>2, <1>3 DEF PendingFolded
    <2>1. m \in DOMAIN log'[n0] /\ log'[n0][m] = new
      BY <1>5, <1>6, <1>7
    <2> QED
      BY <2>1
  <1>10. SamplesSurvive'
    <2> SUFFICES ASSUME NEW n \in Names, NEW u \in Times,
                        accepted[n][u] # <<>>, <<n, u>> \notin raced
                 PROVE  LET last == accepted[n][u][Len(accepted[n][u])] IN
                        \/ history[n][u] = last
                        \/ \E k \in DOMAIN log'[n] :
                             u \in DOMAIN log'[n][k] /\ log'[n][k][u] = last
      BY <1>2 DEF SamplesSurvive
    <2>1. \A k \in DOMAIN log[n] : k \in DOMAIN log'[n] /\ log'[n][k] = log[n][k]
      BY <1>5, <1>7
    <2> QED
      BY <2>1 DEF Samples, SamplesSurvive
  <1>11. FoldedOncePerWrite'
    <2> SUFFICES ASSUME NEW n \in Names, NEW u \in Times
                 PROVE  Cardinality(FoldsOf(n, u)') + Live(n, u)'
                          <= Len(accepted[n][u]) + again[n][u]
      BY <1>2 DEF FoldedOncePerWrite, FoldsOf, Live
    <2>1. /\ Cardinality(FoldsOf(n, u)) \in Nat /\ IsFiniteSet(FoldsOf(n, u))
          /\ again[n][u] \in Nat /\ Len(accepted[n][u]) \in Nat
      BY FoldsAreFinite DEF Shape
    <2>2. Cardinality(FoldsOf(n, u)) + Live(n, u) <= Len(accepted[n][u]) + again[n][u]
      BY DEF Samples, FoldedOncePerWrite, FoldsOf, Live
    <2>3. CASE n = n0 /\ u \in rows
      <3>1. FoldsOf(n, u)' = FoldsOf(n, u) \cup {m}
        <4>1. rows # {} /\ u \in DOMAIN new
          BY <2>3
        <4> HIDE DEF new
        <4>2. /\ DOMAIN log'[n] = 1..m
              /\ \A k \in DOMAIN log[n] : k \in 1..m /\ log'[n][k] = log[n][k]
              /\ \A k \in 1..m : k # m => k \in DOMAIN log[n]
              /\ log'[n][m] = new
          BY <1>7, <2>3, <4>1
        <4>3. m \in 1..m
          BY <1>5, <1>6
        <4> QED
          BY <4>1, <4>2, <4>3, Zenon DEF FoldsOf
      <3>2. m \notin FoldsOf(n, u)
        BY <1>7, <2>3 DEF FoldsOf
      <3>3. Cardinality(FoldsOf(n, u)') = Cardinality(FoldsOf(n, u)) + 1
        BY <2>1, <3>1, <3>2, FS_AddElement
      <3>4. Live(n, u) = 1 /\ Live(n, u)' = 0
        BY <1>3, <1>4, <2>3 DEF Live
      <3> QED
        BY <2>1, <2>2, <3>3, <3>4
    <2>4. CASE ~ (n = n0 /\ u \in rows)
      <3>1. FoldsOf(n, u)' = FoldsOf(n, u)
        BY <1>7, <2>4 DEF FoldsOf
      <3>2. Live(n, u)' = Live(n, u)
        BY <1>2, <1>3, <2>4 DEF Live
      <3> QED
        BY <2>2, <3>1, <3>2
    <2> QED
      BY <2>3, <2>4
  <1> QED
    BY <1>8, <1>9, <1>10, <1>11 DEF Samples

LEMMA DeleteKeepsSamples ==
  ASSUME Shape, Samples, Delete
  PROVE  Samples'
  <1>0. PICK n0 \in Names : n0 = Tables[job.table]
    BY JobFields
  <1>1. PICK batch \in SUBSET Times : batch = Batch(job.ids)
    BY JobFields DEF Batch
  <1>2. PICK ids \in SUBSET Times : ids = job.ids
    BY JobFields
  <1>3. /\ batch \subseteq ids /\ pc = "delete"
        /\ history' = [history EXCEPT ![n0] =
                         [t \in Times |-> IF t \in batch THEN None ELSE history[n0][t]]]
        /\ UNCHANGED <<log, accepted, raced, again>>
    BY <1>0, <1>1, <1>2 DEF Delete, Batch, ghosts
  <1>4. \A n \in Names, u \in Times :
          history'[n][u] = IF n = n0 /\ u \in batch THEN None ELSE history[n][u]
    BY <1>3 DEF Shape
  <1>5. \A n \in Names : /\ Pending(n) = IF n = n0 THEN ids ELSE {}
                         /\ Pending(n)' = IF n = n0 THEN ids \ batch ELSE {}
    <2>1. \A n \in Names : Pending(n) = IF n = n0 THEN ids ELSE {}
      BY <1>0, <1>2, <1>3 DEF Pending
    <2>2. CASE ids \ batch # {}
      <3>1. pc' = pc /\ job' = [job EXCEPT !.ids = ids \ batch]
        BY <1>0, <1>1, <1>2, <2>2 DEF Delete
      <3>2. job'.ids = ids \ batch /\ job'.table = job.table
        BY <3>1 DEF Shape, Job
      <3> QED
        BY <1>0, <1>3, <2>1, <3>1, <3>2 DEF Pending
    <2>3. CASE ids \ batch = {}
      <3>1. pc' # "delete"
        BY <1>1, <1>2, <2>3 DEF Delete
      <3> QED
        BY <2>1, <2>3, <3>1 DEF Pending
    <2> QED
      BY <2>2, <2>3
  <1>6. LastAccepted'
    BY <1>3, <1>4 DEF Samples, LastAccepted
  <1>7. PendingFolded'
    <2> SUFFICES ASSUME NEW u \in ids \ batch, <<n0, u>> \notin raced
                 PROVE  \E k \in DOMAIN log[n0] :
                          u \in DOMAIN log[n0][k] /\ log[n0][k][u] = history'[n0][u]
      BY <1>3, <1>5 DEF PendingFolded
    <2>1. u \in Pending(n0) /\ history'[n0][u] = history[n0][u]
      BY <1>4, <1>5
    <2> QED
      BY <2>1 DEF Samples, PendingFolded
  <1>8. SamplesSurvive'
    <2> SUFFICES ASSUME NEW n \in Names, NEW u \in Times,
                        accepted[n][u] # <<>>, <<n, u>> \notin raced
                 PROVE  LET last == accepted[n][u][Len(accepted[n][u])] IN
                        \/ history'[n][u] = last
                        \/ \E k \in DOMAIN log[n] :
                             u \in DOMAIN log[n][k] /\ log[n][k][u] = last
      BY <1>3 DEF SamplesSurvive
    <2>1. CASE n = n0 /\ u \in batch
      <3>1. u \in Pending(n)
        BY <1>3, <1>5, <2>1
      <3> QED
        BY <3>1 DEF Samples, SamplesSurvive, PendingFolded
    <2>2. CASE ~ (n = n0 /\ u \in batch)
      BY <1>4, <2>2 DEF Samples, SamplesSurvive
    <2> QED
      BY <2>1, <2>2
  <1>9. FoldedOncePerWrite'
    <2> SUFFICES ASSUME NEW n \in Names, NEW u \in Times
                 PROVE  Cardinality(FoldsOf(n, u)') + Live(n, u)'
                          <= Len(accepted[n][u]) + again[n][u]
      BY <1>3 DEF FoldedOncePerWrite, FoldsOf, Live
    <2>1. /\ Cardinality(FoldsOf(n, u)) \in Nat /\ again[n][u] \in Nat
          /\ Len(accepted[n][u]) \in Nat
      BY FoldsAreFinite DEF Shape
    <2>2. Cardinality(FoldsOf(n, u)) + Live(n, u) <= Len(accepted[n][u]) + again[n][u]
      BY DEF Samples, FoldedOncePerWrite, FoldsOf, Live
    <2>3. FoldsOf(n, u)' = FoldsOf(n, u)
      BY <1>3 DEF FoldsOf
    <2>4. Live(n, u)' = Live(n, u)
      BY <1>3, <1>4, <1>5 DEF Live
    <2> QED
      BY <2>2, <2>3, <2>4
  <1> QED
    BY <1>6, <1>7, <1>8, <1>9 DEF Samples

\* A failure or a crash: what is folded and not deleted is owed once more.
LEMMA InterruptKeepsSamples ==
  ASSUME Shape, Samples, Interrupted, pc' # "delete",
         UNCHANGED <<history, log, accepted, raced>>
  PROVE  Samples'
  <1>1. \A n \in Names : Pending(n)' = {}
    BY DEF Pending
  <1>2. LastAccepted' /\ SamplesSurvive'
    BY DEF Samples, LastAccepted, SamplesSurvive
  <1>3. PendingFolded'
    BY <1>1 DEF PendingFolded
  <1>4. FoldedOncePerWrite'
    <2> SUFFICES ASSUME NEW n \in Names, NEW u \in Times
                 PROVE  Cardinality(FoldsOf(n, u)') + Live(n, u)'
                          <= Len(accepted[n][u]) + again'[n][u]
      BY DEF FoldedOncePerWrite, FoldsOf, Live
    <2>1. /\ Cardinality(FoldsOf(n, u)) \in Nat /\ again[n][u] \in Nat
          /\ Len(accepted[n][u]) \in Nat
      BY FoldsAreFinite DEF Shape
    <2>2. Cardinality(FoldsOf(n, u)) + Live(n, u) <= Len(accepted[n][u]) + again[n][u]
      BY DEF Samples, FoldedOncePerWrite, FoldsOf, Live
    <2>3. FoldsOf(n, u)' = FoldsOf(n, u)
      BY DEF FoldsOf
    <2>4. again'[n][u] = again[n][u] + (IF u \in Pending(n) THEN 1 ELSE 0)
      BY DEF Interrupted
    <2>5. CASE u \in Pending(n)
      <3>1. Live(n, u) = 0 /\ Live(n, u)' \in {0, 1}
        BY <2>5 DEF Live
      <3> QED
        BY <2>1, <2>2, <2>3, <2>4, <2>5, <3>1
    <2>6. CASE u \notin Pending(n)
      <3>1. Live(n, u)' = Live(n, u)
        BY <1>1, <2>6 DEF Live
      <3> QED
        BY <2>1, <2>2, <2>3, <2>4, <2>6, <3>1
    <2> QED
      BY <2>5, <2>6
  <1> QED
    BY <1>2, <1>3, <1>4 DEF Samples

-----------------------------------------------------------------------------
(* Least and greatest elements of finite sets.                             *)

\* A finite set has an element nothing precedes, in any strict order.
LEMMA MinimalIn ==
  ASSUME NEW S, IsFiniteSet(S), S # {}, NEW R,
         \A x \in S : <<x, x>> \notin R,
         \A x, y, z \in S : <<x, y>> \in R /\ <<y, z>> \in R => <<x, z>> \in R
  PROVE  \E x \in S : \A y \in S : <<y, x>> \notin R
  <1> DEFINE before(x) == {y \in S : <<y, x>> \in R}
             T == {before(x) : x \in S}
  <1>1. T \subseteq FiniteSubsetsOf(S)
    <2> SUFFICES ASSUME NEW x \in S PROVE before(x) \in FiniteSubsetsOf(S)
      OBVIOUS
    <2>1. before(x) \in SUBSET S
      OBVIOUS
    <2>2. IsFiniteSet(before(x))
      BY <2>1, FS_Subset
    <2> QED
      BY <2>1, <2>2 DEF FiniteSubsetsOf
  <1>2. T # {}
    <2>1. PICK x : x \in S
      OBVIOUS
    <2>2. before(x) \in T
      BY <2>1
    <2> HIDE DEF T
    <2> QED
      BY <2>2
  <1>3. IsWellFoundedOn(StrictSubsetOrdering(S), FiniteSubsetsOf(S))
    BY FS_StrictSubsetOrderingWellFounded
  <1>4. PICK m \in T : \A B \in T : ~ (<<B, m>> \in StrictSubsetOrdering(S))
    <2> HIDE DEF T
    <2> QED
      BY <1>1, <1>2, <1>3, WFMin
  <1>5. PICK x \in S : m = before(x)
    OBVIOUS
  <1>6. \A y \in S : <<y, x>> \notin R
    <2> SUFFICES ASSUME NEW y \in S, <<y, x>> \in R PROVE FALSE
      OBVIOUS
    <2>1. /\ before(y) \subseteq before(x)
          /\ y \in before(x) /\ y \notin before(y)
      OBVIOUS
    <2>2. before(y) \in SUBSET S /\ before(x) \in SUBSET S /\ before(y) \in T
      OBVIOUS
    <2> HIDE DEF before, T
    <2>3. <<before(y), before(x)>> \in StrictSubsetOrdering(S)
      BY <2>1, <2>2 DEF StrictSubsetOrdering
    <2> QED
      BY <1>4, <1>5, <2>2, <2>3
  <1> QED
    BY <1>6

LEMMA MinIn ==
  ASSUME NEW S \in SUBSET Int, IsFiniteSet(S), S # {}
  PROVE  Min(S) \in S /\ \A y \in S : Min(S) <= y
  <1> DEFINE R == {p \in S \X S : p[1] < p[2]}
  <1>1. \A x, y \in S : <<x, y>> \in R <=> x < y
    OBVIOUS
  <1> HIDE DEF R
  <1>0. S \subseteq Int
    OBVIOUS
  <1>2. \A x, y, z \in S : /\ ~ (x < x) /\ (x < y /\ y < z => x < z)
                           /\ ~ (y < x) => x <= y
    BY <1>0
  <1>3. \A x, y, z \in S : /\ <<x, x>> \notin R
                           /\ <<x, y>> \in R /\ <<y, z>> \in R => <<x, z>> \in R
    BY <1>1, <1>2, Zenon
  <1>4. PICK x \in S : \A y \in S : <<y, x>> \notin R
    BY <1>3, MinimalIn
  <1>5. \A y \in S : x <= y
    BY <1>1, <1>2, <1>4, Zenon
  <1> QED
    BY <1>5 DEF Min

LEMMA MaxIn ==
  ASSUME NEW S \in SUBSET Int, IsFiniteSet(S), S # {}
  PROVE  Max(S) \in S /\ \A y \in S : Max(S) >= y
  <1> DEFINE R == {p \in S \X S : p[1] > p[2]}
  <1>1. \A x, y \in S : <<x, y>> \in R <=> x > y
    OBVIOUS
  <1> HIDE DEF R
  <1>0. S \subseteq Int
    OBVIOUS
  <1>2. \A x, y, z \in S : /\ ~ (x > x) /\ (x > y /\ y > z => x > z)
                           /\ ~ (y > x) => x >= y
    BY <1>0
  <1>3. \A x, y, z \in S : /\ <<x, x>> \notin R
                           /\ <<x, y>> \in R /\ <<y, z>> \in R => <<x, z>> \in R
    BY <1>1, <1>2, Zenon
  <1>4. PICK x \in S : \A y \in S : <<y, x>> \notin R
    BY <1>3, MinimalIn
  <1>5. \A y \in S : x >= y
    BY <1>1, <1>2, <1>4, Zenon
  <1> QED
    BY <1>5 DEF Max

\* There is only one of each.
LEMMA MinIs ==
  ASSUME NEW S \in SUBSET Int, NEW x \in S, \A y \in S : x <= y
  PROVE  Min(S) = x
  <1>1. S \subseteq Int
    OBVIOUS
  <1>2. PICK m \in S : m = Min(S) /\ \A y \in S : m <= y
    BY DEF Min
  <1>3. m <= x /\ x <= m
    BY <1>2
  <1> QED
    BY <1>1, <1>2, <1>3

LEMMA MaxIs ==
  ASSUME NEW S \in SUBSET Int, NEW x \in S, \A y \in S : x >= y
  PROVE  Max(S) = x
  <1>1. S \subseteq Int
    OBVIOUS
  <1>2. PICK m \in S : m = Max(S) /\ \A y \in S : m >= y
    BY DEF Max
  <1>3. m >= x /\ x >= m
    BY <1>2
  <1> QED
    BY <1>1, <1>2, <1>3

\* The extremes of a union are those of the two extremes.
LEMMA MinUnion ==
  ASSUME NEW A \in SUBSET Int, IsFiniteSet(A), A # {},
         NEW B \in SUBSET Int, IsFiniteSet(B), B # {}
  PROVE  /\ Min({Min(A), Min(B)}) = Min(A \cup B)
         /\ Min(A \cup B) = IF Min(B) < Min(A) THEN Min(B) ELSE Min(A)
  <1>1. PICK a \in A : a = Min(A) /\ \A y \in A : a <= y
    BY MinIn
  <1>2. PICK b \in B : b = Min(B) /\ \A y \in B : b <= y
    BY MinIn
  <1>3. PICK c \in {a, b} : c = IF b < a THEN b ELSE a
    OBVIOUS
  <1>4. c \in A \cup B /\ \A y \in A \cup B : c <= y
    BY <1>1, <1>2, <1>3
  <1>5. Min(A \cup B) = c
    BY <1>4, MinIs
  <1>6. Min({a, b}) = c
    BY <1>3, MinIs
  <1> QED
    BY <1>1, <1>2, <1>3, <1>5, <1>6

LEMMA MaxUnion ==
  ASSUME NEW A \in SUBSET Int, IsFiniteSet(A), A # {},
         NEW B \in SUBSET Int, IsFiniteSet(B), B # {}
  PROVE  /\ Max({Max(A), Max(B)}) = Max(A \cup B)
         /\ Max(A \cup B) = IF Max(B) > Max(A) THEN Max(B) ELSE Max(A)
  <1>1. PICK a \in A : a = Max(A) /\ \A y \in A : a >= y
    BY MaxIn
  <1>2. PICK b \in B : b = Max(B) /\ \A y \in B : b >= y
    BY MaxIn
  <1>3. PICK c \in {a, b} : c = IF b > a THEN b ELSE a
    OBVIOUS
  <1>4. c \in A \cup B /\ \A y \in A \cup B : c >= y
    BY <1>1, <1>2, <1>3
  <1>5. Max(A \cup B) = c
    BY <1>4, MaxIs
  <1>6. Max({a, b}) = c
    BY <1>3, MaxIs
  <1> QED
    BY <1>1, <1>2, <1>3, <1>5, <1>6

\* The image of a finite set under a function is finite.
LEMMA ImageFinite ==
  ASSUME NEW S, IsFiniteSet(S), NEW f, DOMAIN f = S
  PROVE  IsFiniteSet({f[x] : x \in S})
  <1> DEFINE T == {f[x] : x \in S}
             g == [x \in S |-> f[x]]
  <1>1. g \in Surjection(S, T)
    BY DEF Surjection
  <1> QED
    BY <1>1, FS_Surjection

-----------------------------------------------------------------------------
(* Daily rows.                                                             *)

Logs == UNION {[ts -> Row] : ts \in SUBSET Times}

\* Folds, Rows, First and Aggregate of any sequence of folds.
FoldsIn(L, d)  == {k \in DOMAIN L : \E t \in DOMAIN L[k] : Day(t) = d}
RowsIn(L, d)   == {e \in FoldsIn(L, d) \X Times : e[2] \in DOMAIN L[e[1]] /\ Day(e[2]) = d}
FirstIn(L, t)  == L[Min({k \in DOMAIN L : t \in DOMAIN L[k]})][t]
TimesIn(L, d)  == {e[2] : e \in RowsIn(L, d)}
ValuesIn(L, d) == {L[e[1]][e[2]].value : e \in RowsIn(L, d)}

AggregateOf(L, d) ==
  [open |-> FirstIn(L, Min(TimesIn(L, d))).value,
   high |-> Max(ValuesIn(L, d)), low |-> Min(ValuesIn(L, d)),
   close |-> FirstIn(L, Max(TimesIn(L, d))).value,
   estimated |-> FirstIn(L, Max(TimesIn(L, d))).estimated,
   samples |-> Cardinality(RowsIn(L, d)),
   openAt |-> Min(TimesIn(L, d)), closeAt |-> Max(TimesIn(L, d))]

LEMMA AggregateDef ==
  ASSUME NEW n, NEW d
  PROVE  Aggregate(n, d) = AggregateOf(log[n], d) /\ Folds(n, d) = FoldsIn(log[n], d)
  BY DEF Aggregate, AggregateOf, Folds, Rows, First, FoldsIn, RowsIn, FirstIn, TimesIn, ValuesIn

LEMMA AggregateDefPrime ==
  ASSUME NEW n, NEW d
  PROVE  /\ Aggregate(n, d)' = AggregateOf(log'[n], d)
         /\ Folds(n, d)' = FoldsIn(log'[n], d)
  BY DEF Aggregate, AggregateOf, Folds, Rows, First, FoldsIn, RowsIn, FirstIn, TimesIn, ValuesIn

LEMMA LogFacts ==
  ASSUME NEW L \in Seq(Logs)
  PROVE  /\ Len(L) \in Nat /\ DOMAIN L = 1..Len(L)
         /\ \A k \in DOMAIN L : /\ DOMAIN L[k] \subseteq Times
                                /\ \A t \in DOMAIN L[k] : L[k][t] \in Row
  <1>1. Len(L) \in Nat /\ DOMAIN L = 1..Len(L)
    OBVIOUS
  <1>2. ASSUME NEW k \in DOMAIN L
        PROVE  DOMAIN L[k] \subseteq Times /\ \A t \in DOMAIN L[k] : L[k][t] \in Row
    <2>1. L[k] \in Logs
      OBVIOUS
    <2> QED
      BY <2>1 DEF Logs
  <1> QED
    BY <1>1, <1>2

LEMMA RowFields ==
  ASSUME NEW r \in Row
  PROVE  r.value \in Int /\ r.estimated \in BOOLEAN
  BY RollupAssumption DEF Row

LEMMA TimesFinite ==
  ASSUME NEW S \in SUBSET Times
  PROVE  S \in SUBSET Int /\ IsFiniteSet(S)
  <1>1. LastTime \in Nat
    BY RollupAssumption
  <1>2. IsFiniteSet(Times) /\ Times \subseteq Int
    BY <1>1, FS_Interval DEF Times
  <1> QED
    BY <1>2, FS_Subset

\* What the rows of a day are, without pairs.
LEMMA RowsOfDay ==
  ASSUME NEW L \in Seq(Logs), NEW d
  PROVE  /\ \A k, t : <<k, t>> \in RowsIn(L, d) <=>
                        k \in DOMAIN L /\ t \in DOMAIN L[k] /\ Day(t) = d
         /\ RowsIn(L, d) \subseteq (1..Len(L)) \X Times
         /\ \A t : t \in TimesIn(L, d) <=>
                        \E k \in DOMAIN L : t \in DOMAIN L[k] /\ Day(t) = d
         /\ \A v : v \in ValuesIn(L, d) <=>
                        \E k \in DOMAIN L : \E t \in DOMAIN L[k] :
                          Day(t) = d /\ v = L[k][t].value
  <1>1. /\ DOMAIN L = 1..Len(L)
        /\ \A k \in DOMAIN L : DOMAIN L[k] \subseteq Times
    BY LogFacts
  <1>2. \A k, t : <<k, t>> \in RowsIn(L, d) <=>
                    k \in DOMAIN L /\ t \in DOMAIN L[k] /\ Day(t) = d
    BY <1>1 DEF RowsIn, FoldsIn
  <1>3. \A e \in RowsIn(L, d) : e = <<e[1], e[2]>>
    BY DEF RowsIn
  <1>4. RowsIn(L, d) \subseteq (1..Len(L)) \X Times
    BY <1>1 DEF RowsIn, FoldsIn
  <1>5. \A t : t \in TimesIn(L, d) <=> \E k : <<k, t>> \in RowsIn(L, d)
    <2>1. ASSUME NEW t \in TimesIn(L, d) PROVE \E k : <<k, t>> \in RowsIn(L, d)
      <3>1. PICK e \in RowsIn(L, d) : t = e[2]
        BY DEF TimesIn
      <3>2. <<e[1], t>> \in RowsIn(L, d)
        BY <1>3, <3>1
      <3> QED
        BY <3>2
    <2>2. ASSUME NEW t, NEW k, <<k, t>> \in RowsIn(L, d) PROVE t \in TimesIn(L, d)
      <3>1. <<k, t>>[2] = t
        OBVIOUS
      <3> QED
        BY <2>2, <3>1 DEF TimesIn
    <2> QED
      BY <2>1, <2>2
  <1>6. \A v : v \in ValuesIn(L, d) <=>
                 \E k, t : <<k, t>> \in RowsIn(L, d) /\ v = L[k][t].value
    BY <1>3 DEF ValuesIn
  <1>7. \A t : t \in TimesIn(L, d) <=>
                 \E k \in DOMAIN L : t \in DOMAIN L[k] /\ Day(t) = d
    BY <1>2, <1>5, Zenon
  <1>8. \A v : v \in ValuesIn(L, d) <=>
                 \E k \in DOMAIN L : \E t \in DOMAIN L[k] :
                   Day(t) = d /\ v = L[k][t].value
    <2> TAKE v
    <2>1. ASSUME v \in ValuesIn(L, d)
          PROVE  \E k \in DOMAIN L : \E t \in DOMAIN L[k] :
                   Day(t) = d /\ v = L[k][t].value
      <3>1. PICK k, t : <<k, t>> \in RowsIn(L, d) /\ v = L[k][t].value
        BY <1>6, <2>1, Zenon
      <3>2. k \in DOMAIN L /\ t \in DOMAIN L[k] /\ Day(t) = d
        BY <1>2, <3>1, Zenon
      <3> QED
        BY <3>1, <3>2, Zenon
    <2>2. ASSUME NEW k \in DOMAIN L, NEW t \in DOMAIN L[k], Day(t) = d, v = L[k][t].value
          PROVE  v \in ValuesIn(L, d)
      <3>1. <<k, t>> \in RowsIn(L, d)
        BY <1>2, <2>2
      <3> QED
        BY <1>6, <2>2, <3>1, Zenon
    <2> QED
      BY <2>1, <2>2
  <1> QED
    BY <1>2, <1>4, <1>7, <1>8, Zenon

LEMMA RowsFinite ==
  ASSUME NEW L \in Seq(Logs), NEW d
  PROVE  /\ IsFiniteSet(RowsIn(L, d)) /\ Cardinality(RowsIn(L, d)) \in Nat
         /\ TimesIn(L, d) \in SUBSET Times /\ TimesIn(L, d) \in SUBSET Int
         /\ IsFiniteSet(TimesIn(L, d))
         /\ ValuesIn(L, d) \in SUBSET Int /\ IsFiniteSet(ValuesIn(L, d))
         /\ FoldsIn(L, d) = {} <=> TimesIn(L, d) = {}
         /\ FoldsIn(L, d) = {} <=> ValuesIn(L, d) = {}
  <1>1. IsFiniteSet(RowsIn(L, d))
    <2>1. IsFiniteSet(Times) /\ IsFiniteSet(1..Len(L))
      BY TimesFinite, LogFacts, FS_Interval
    <2>2. IsFiniteSet((1..Len(L)) \X Times)
      BY <2>1, FS_Product
    <2> QED
      BY <2>2, RowsOfDay, FS_Subset
  <1>2. TimesIn(L, d) \in SUBSET Times
    BY RowsOfDay, LogFacts
  <1>3. ValuesIn(L, d) \in SUBSET Int
    BY RowsOfDay, LogFacts, RowFields
  <1>4. IsFiniteSet(ValuesIn(L, d))
    <2> DEFINE f == [e \in RowsIn(L, d) |-> L[e[1]][e[2]].value]
    <2>1. IsFiniteSet({f[e] : e \in RowsIn(L, d)})
      BY <1>1, ImageFinite
    <2>2. ValuesIn(L, d) = {f[e] : e \in RowsIn(L, d)}
      BY DEF ValuesIn
    <2> QED
      BY <2>1, <2>2
  <1>5. /\ FoldsIn(L, d) = {} <=> TimesIn(L, d) = {}
        /\ FoldsIn(L, d) = {} <=> ValuesIn(L, d) = {}
    <2>1. FoldsIn(L, d) = {} <=> ~ \E k \in DOMAIN L : \E t \in DOMAIN L[k] : Day(t) = d
      BY DEF FoldsIn
    <2>2. TimesIn(L, d) = {} <=> ~ \E k \in DOMAIN L : \E t \in DOMAIN L[k] : Day(t) = d
      BY RowsOfDay
    <2>3. ASSUME NEW k \in DOMAIN L, NEW t \in DOMAIN L[k], Day(t) = d
          PROVE  ValuesIn(L, d) # {}
      <3>1. L[k][t].value \in ValuesIn(L, d)
        BY <2>3, RowsOfDay
      <3> QED
        BY <3>1
    <2>4. ASSUME NEW v \in ValuesIn(L, d)
          PROVE  \E k \in DOMAIN L : \E t \in DOMAIN L[k] : Day(t) = d
      BY RowsOfDay
    <2> QED
      BY <2>1, <2>2, <2>3, <2>4
  <1> QED
    BY <1>1, <1>2, <1>3, <1>4, <1>5, TimesFinite, FS_CardinalityType

\* The aggregate of a day that has rows is a daily row.
LEMMA AggregateType ==
  ASSUME NEW L \in Seq(Logs), NEW d, FoldsIn(L, d) # {}
  PROVE  AggregateOf(L, d) \in Daily
  <1>1. \A t \in TimesIn(L, d) : FirstIn(L, t) \in Row
    <2> SUFFICES ASSUME NEW t \in TimesIn(L, d) PROVE FirstIn(L, t) \in Row
      OBVIOUS
    <2> DEFINE K == {k \in DOMAIN L : t \in DOMAIN L[k]}
    <2>1. K # {} /\ K \in SUBSET (1..Len(L))
      BY RowsOfDay, LogFacts
    <2>2. K \in SUBSET Int /\ IsFiniteSet(K)
      <3>1. Len(L) \in Nat /\ IsFiniteSet(1..Len(L)) /\ 1..Len(L) \subseteq Int
        BY LogFacts, FS_Interval
      <3>2. K \subseteq Int
        BY <2>1, <3>1
      <3> QED
        BY <2>1, <3>1, <3>2, FS_Subset
    <2>3. Min(K) \in K
      BY <2>1, <2>2, MinIn
    <2> QED
      BY <2>3, LogFacts DEF FirstIn
  <1>2. /\ Min(TimesIn(L, d)) \in TimesIn(L, d) /\ Max(TimesIn(L, d)) \in TimesIn(L, d)
        /\ Min(ValuesIn(L, d)) \in Int /\ Max(ValuesIn(L, d)) \in Int
    BY RowsFinite, MinIn, MaxIn
  <1>3. /\ Cardinality(RowsIn(L, d)) \in Nat /\ TimesIn(L, d) \in SUBSET Times
    BY RowsFinite
  <1>4. /\ FirstIn(L, Min(TimesIn(L, d))).value \in Int
        /\ FirstIn(L, Max(TimesIn(L, d))).value \in Int
        /\ FirstIn(L, Max(TimesIn(L, d))).estimated \in BOOLEAN
    BY <1>1, <1>2, RowFields
  <1> QED
    BY <1>2, <1>3, <1>4 DEF AggregateOf, Daily

\* M is L with the fold f behind it; the times of a fold on a day.
Appends(L, M, f) ==
  /\ L \in Seq(Logs) /\ M \in Seq(Logs) /\ f \in Logs
  /\ DOMAIN M = 1..(Len(L) + 1) /\ M[Len(L) + 1] = f
  /\ \A k \in DOMAIN L : M[k] = L[k]

On(f, d) == {t \in DOMAIN f : Day(t) = d}

\* What a fold adds to a day.
LEMMA FoldAppends ==
  ASSUME NEW L, NEW M, NEW f, NEW d, NEW ts, Appends(L, M, f), ts = On(f, d)
  PROVE  /\ TimesIn(M, d) = TimesIn(L, d) \cup ts
         /\ ValuesIn(M, d) = ValuesIn(L, d) \cup {f[t].value : t \in ts}
         /\ Cardinality(RowsIn(M, d)) = Cardinality(RowsIn(L, d)) + Cardinality(ts)
         /\ \A t \in TimesIn(L, d) : FirstIn(M, t) = FirstIn(L, t)
         /\ \A t \in ts \ TimesIn(L, d) : FirstIn(M, t) = f[t]
  <1>1. PICK m \in Nat \ {0} : m = Len(L) + 1
    BY LogFacts DEF Appends
  <1>2. /\ L \in Seq(Logs) /\ M \in Seq(Logs) /\ f \in Logs
        /\ DOMAIN L = 1..(m - 1) /\ DOMAIN M = 1..m /\ M[m] = f
        /\ \A k \in DOMAIN L : M[k] = L[k]
        /\ ts \in SUBSET Times
    <2>1. /\ L \in Seq(Logs) /\ M \in Seq(Logs) /\ f \in Logs
          /\ DOMAIN M = 1..m /\ M[m] = f /\ \A k \in DOMAIN L : M[k] = L[k]
      BY <1>1 DEF Appends
    <2>2. Len(L) \in Nat /\ DOMAIN L = 1..Len(L)
      BY <2>1, LogFacts
    <2>3. ts \in SUBSET Times
      BY <2>1 DEF On, Logs
    <2> QED
      BY <1>1, <2>1, <2>2, <2>3
  <1>3. /\ \A k \in DOMAIN L : k # m /\ k < m /\ M[k] = L[k]
        /\ DOMAIN M = DOMAIN L \cup {m} /\ M[m] = f
    BY <1>2
  <1>4. \A t : t \in ts <=> t \in DOMAIN f /\ Day(t) = d
    BY DEF On
  <1>5. TimesIn(M, d) = TimesIn(L, d) \cup ts
    <2> SUFFICES ASSUME NEW t PROVE t \in TimesIn(M, d) <=> t \in TimesIn(L, d) \cup ts
      OBVIOUS
    <2>1. t \in TimesIn(M, d) <=> \E k \in DOMAIN M : t \in DOMAIN M[k] /\ Day(t) = d
      BY <1>2, RowsOfDay
    <2>2. t \in TimesIn(L, d) <=> \E k \in DOMAIN L : t \in DOMAIN L[k] /\ Day(t) = d
      BY <1>2, RowsOfDay
    <2> QED
      BY <1>3, <1>4, <2>1, <2>2
  <1>6. ValuesIn(M, d) = ValuesIn(L, d) \cup {f[t].value : t \in ts}
    <2> SUFFICES ASSUME NEW v
                 PROVE  v \in ValuesIn(M, d) <=> v \in ValuesIn(L, d) \cup {f[t].value : t \in ts}
      OBVIOUS
    <2>1. v \in ValuesIn(M, d) <=> \E k \in DOMAIN M : \E t \in DOMAIN M[k] :
                                     Day(t) = d /\ v = M[k][t].value
      BY <1>2, RowsOfDay
    <2>2. v \in ValuesIn(L, d) <=> \E k \in DOMAIN L : \E t \in DOMAIN L[k] :
                                     Day(t) = d /\ v = L[k][t].value
      BY <1>2, RowsOfDay
    <2>3. v \in {f[t].value : t \in ts} <=> \E t \in DOMAIN f : Day(t) = d /\ v = f[t].value
      BY <1>4
    <2>4. (\E k \in DOMAIN M : \E t \in DOMAIN M[k] : Day(t) = d /\ v = M[k][t].value)
          <=> \/ \E k \in DOMAIN L : \E t \in DOMAIN L[k] : Day(t) = d /\ v = L[k][t].value
              \/ \E t \in DOMAIN f : Day(t) = d /\ v = f[t].value
      BY <1>3
    <2> QED
      BY <2>1, <2>2, <2>3, <2>4
  <1>7. Cardinality(RowsIn(M, d)) = Cardinality(RowsIn(L, d)) + Cardinality(ts)
    <2> DEFINE R == RowsIn(L, d)
               N == {m} \X ts
    <2>1. IsFiniteSet(R) /\ Cardinality(R) \in Nat
      BY <1>2, RowsFinite
    <2>2. IsFiniteSet(ts) /\ Cardinality(ts) \in Nat
      BY <1>2, TimesFinite, FS_CardinalityType
    <2>3. IsFiniteSet({m}) /\ Cardinality({m}) = 1
      BY FS_Singleton
    <2>4. IsFiniteSet(N) /\ Cardinality(N) = Cardinality(ts)
      <3>1. IsFiniteSet(N) /\ Cardinality(N) = 1 * Cardinality(ts)
        BY <2>2, <2>3, FS_Product
      <3> QED
        BY <2>2, <3>1
    <2>5. /\ \A k, t : <<k, t>> \in RowsIn(M, d) <=>
                        k \in DOMAIN M /\ t \in DOMAIN M[k] /\ Day(t) = d
          /\ \A k, t : <<k, t>> \in R <=>
                        k \in DOMAIN L /\ t \in DOMAIN L[k] /\ Day(t) = d
      BY <1>2, RowsOfDay
    <2>6. R \cap N = {}
      <3> SUFFICES ASSUME NEW t \in ts, <<m, t>> \in R PROVE FALSE
        OBVIOUS
      <3> HIDE DEF R, N
      <3> QED
        BY <1>3, <2>5
    <2>7. RowsIn(M, d) = R \cup N
      <3>1. \A e \in RowsIn(M, d) : e = <<e[1], e[2]>>
        BY DEF RowsIn
      <3>2. \A e \in R : e = <<e[1], e[2]>>
        BY DEF RowsIn
      <3>3. \A k, t : <<k, t>> \in N <=> k = m /\ t \in ts
        OBVIOUS
      <3>4. \A e \in N : e = <<e[1], e[2]>>
        OBVIOUS
      <3> HIDE DEF R, N
      <3>5. \A k, t : <<k, t>> \in RowsIn(M, d) <=> <<k, t>> \in R \/ <<k, t>> \in N
        BY <1>3, <1>4, <2>5, <3>3
      <3> QED
        BY <3>1, <3>2, <3>4, <3>5
    <2> HIDE DEF R, N
    <2>8. Cardinality(R \cup N) = Cardinality(R) + Cardinality(N) - Cardinality(R \cap N)
      BY <2>1, <2>4, FS_Union
    <2>9. Cardinality(R \cap N) = 0
      BY <2>6, FS_EmptySet
    <2> QED
      BY <2>1, <2>2, <2>4, <2>7, <2>8, <2>9 DEF R
  <1>8. ASSUME NEW t \in TimesIn(L, d) PROVE FirstIn(M, t) = FirstIn(L, t)
    <2> DEFINE K == {k \in DOMAIN L : t \in DOMAIN L[k]}
               KM == {k \in DOMAIN M : t \in DOMAIN M[k]}
    <2>1. K # {} /\ K \in SUBSET (1..(m - 1)) /\ IsFiniteSet(1..(m - 1)) /\ 1..(m - 1) \subseteq Int
      <3>1. \E k \in DOMAIN L : t \in DOMAIN L[k]
        BY <1>2, RowsOfDay
      <3>2. K # {} /\ K \in SUBSET (1..(m - 1))
        BY <1>2, <1>3, <3>1
      <3> QED
        <4>1. 1 \in Int /\ m - 1 \in Int
          OBVIOUS
        <4>2. IsFiniteSet(1..(m - 1))
          BY <4>1, FS_Interval
        <4> QED
          BY <3>2, <4>2
    <2>2. K \in SUBSET Int /\ IsFiniteSet(K)
      BY <2>1, FS_Subset
    <2>3. PICK x \in K : x = Min(K) /\ \A y \in K : x <= y
      BY <2>1, <2>2, MinIn
    <2>4. KM \in SUBSET Int /\ x \in KM /\ \A y \in KM : x <= y
      <3>1. KM \subseteq K \cup {m} /\ K \subseteq KM
        BY <1>3
      <3>2. x < m /\ x \in Int
        BY <1>3, <2>1
      <3> HIDE DEF K, KM
      <3> QED
        BY <2>2, <2>3, <3>1, <3>2
    <2>5. Min(KM) = x
      BY <2>4, MinIs
    <2> QED
      BY <1>3, <2>3, <2>5 DEF FirstIn
  <1>9. ASSUME NEW t \in ts \ TimesIn(L, d) PROVE FirstIn(M, t) = f[t]
    <2> DEFINE KM == {k \in DOMAIN M : t \in DOMAIN M[k]}
    <2>1. \A k \in DOMAIN L : t \notin DOMAIN L[k]
      BY <1>2, <1>4, <1>9, RowsOfDay
    <2>2. KM = {m}
      BY <1>3, <1>4, <2>1
    <2>3. Min(KM) = m
      <3>1. KM \in SUBSET Int /\ m \in KM /\ \A y \in KM : m <= y
        BY <2>2
      <3> QED
        BY <3>1, MinIs
    <2> QED
      BY <1>3, <2>3 DEF FirstIn
  <1> QED
    BY <1>5, <1>6, <1>7, <1>8, <1>9

\* The daily row of the rows of a fold at these times.
SummaryOf(f, ts) ==
  [open |-> f[Min(ts)].value,
   high |-> Max({f[t].value : t \in ts}), low |-> Min({f[t].value : t \in ts}),
   close |-> f[Max(ts)].value, estimated |-> f[Max(ts)].estimated,
   samples |-> Cardinality(ts), openAt |-> Min(ts), closeAt |-> Max(ts)]

\* A fold creates the daily row, merges into it, or does not concern the day.
LEMMA AggregateGrows ==
  ASSUME NEW L, NEW M, NEW f, NEW d, NEW ts, Appends(L, M, f), ts = On(f, d)
  PROVE  /\ ts = {} => /\ FoldsIn(M, d) = {} <=> FoldsIn(L, d) = {}
                       /\ FoldsIn(L, d) # {} => AggregateOf(M, d) = AggregateOf(L, d)
         /\ ts # {} => /\ FoldsIn(M, d) # {}
                       /\ AggregateOf(M, d) =
                            IF FoldsIn(L, d) = {} THEN SummaryOf(f, ts)
                            ELSE Merge(AggregateOf(L, d), SummaryOf(f, ts))
  <1> DEFINE vs == {f[t].value : t \in ts}
             T == TimesIn(L, d)
             V == ValuesIn(L, d)
  <1>0. /\ L \in Seq(Logs) /\ M \in Seq(Logs) /\ f \in Logs /\ ts \in SUBSET Times
        /\ ts \subseteq DOMAIN f
    BY DEF Appends, On, Logs
  <1>1. /\ TimesIn(M, d) = T \cup ts
        /\ ValuesIn(M, d) = V \cup vs
        /\ Cardinality(RowsIn(M, d)) = Cardinality(RowsIn(L, d)) + Cardinality(ts)
        /\ \A t \in T : FirstIn(M, t) = FirstIn(L, t)
        /\ \A t \in ts \ T : FirstIn(M, t) = f[t]
    <2> HIDE DEF T, V, vs
    <2>1. /\ TimesIn(M, d) = TimesIn(L, d) \cup ts
          /\ ValuesIn(M, d) = ValuesIn(L, d) \cup {f[t].value : t \in ts}
          /\ Cardinality(RowsIn(M, d)) = Cardinality(RowsIn(L, d)) + Cardinality(ts)
          /\ \A t \in TimesIn(L, d) : FirstIn(M, t) = FirstIn(L, t)
          /\ \A t \in ts \ TimesIn(L, d) : FirstIn(M, t) = f[t]
      BY FoldAppends
    <2> QED
      BY <2>1 DEF T, V, vs
  <1>2. /\ T \in SUBSET Int /\ IsFiniteSet(T)
        /\ V \in SUBSET Int /\ IsFiniteSet(V)
        /\ IsFiniteSet(RowsIn(L, d)) /\ Cardinality(RowsIn(L, d)) \in Nat
        /\ FoldsIn(L, d) = {} <=> T = {}
        /\ FoldsIn(L, d) = {} <=> V = {}
        /\ FoldsIn(M, d) = {} <=> TimesIn(M, d) = {}
    BY <1>0, RowsFinite
  <1>3. /\ ts \in SUBSET Int /\ IsFiniteSet(ts) /\ Cardinality(ts) \in Nat
    BY <1>0, TimesFinite, FS_CardinalityType
  <1>4. \A t \in ts : f[t] \in Row
    BY <1>0 DEF Logs
  <1>5. vs \in SUBSET Int /\ IsFiniteSet(vs) /\ (vs = {} <=> ts = {})
    <2> DEFINE g == [t \in ts |-> f[t].value]
    <2>1. vs = {g[t] : t \in ts}
      OBVIOUS
    <2>2. IsFiniteSet({g[t] : t \in ts})
      <3>1. DOMAIN g = ts
        OBVIOUS
      <3> HIDE DEF g
      <3> QED
        BY <1>3, <3>1, ImageFinite
    <2>3. vs \in SUBSET Int
      BY <1>4, RowFields
    <2>4. vs = {} <=> ts = {}
      <3> SUFFICES ASSUME NEW t \in ts PROVE f[t].value \in vs
        OBVIOUS
      <3> QED
        OBVIOUS
    <2> QED
      BY <2>1, <2>2, <2>3, <2>4
  <1>6. CASE ts = {}
    <2>1. /\ TimesIn(M, d) = T /\ ValuesIn(M, d) = V
          /\ Cardinality(RowsIn(M, d)) = Cardinality(RowsIn(L, d))
      <3>1. vs = {} /\ Cardinality(ts) = 0
        BY <1>5, <1>6, FS_EmptySet
      <3> HIDE DEF vs, T, V
      <3> QED
        BY <1>1, <1>2, <1>6, <3>1
    <2>2. FoldsIn(M, d) = {} <=> FoldsIn(L, d) = {}
      BY <1>2, <2>1
    <2>3. ASSUME FoldsIn(L, d) # {}
          PROVE  AggregateOf(M, d) = AggregateOf(L, d)
      <3>1. Min(T) \in T /\ Max(T) \in T
        BY <1>2, <2>3, MinIn, MaxIn
      <3>2. FirstIn(M, Min(T)) = FirstIn(L, Min(T)) /\ FirstIn(M, Max(T)) = FirstIn(L, Max(T))
        BY <1>1, <3>1
      <3> QED
        BY <2>1, <3>2 DEF AggregateOf
    <2> QED
      BY <1>6, <2>2, <2>3
  <1>7. CASE ts # {}
    <2>0. /\ Min(ts) \in ts /\ Max(ts) \in ts
          /\ TimesIn(M, d) # {}
      BY <1>1, <1>3, <1>7, MinIn, MaxIn
    <2>1. CASE FoldsIn(L, d) = {}
      <3>1. /\ TimesIn(M, d) = ts /\ ValuesIn(M, d) = vs /\ T = {}
        BY <1>1, <1>2, <2>1
      <3>2. RowsIn(L, d) = {}
        BY <2>1 DEF RowsIn
      <3>3. Cardinality(RowsIn(M, d)) = Cardinality(ts)
        BY <1>1, <1>3, <3>2, FS_EmptySet
      <3>4. FirstIn(M, Min(ts)) = f[Min(ts)] /\ FirstIn(M, Max(ts)) = f[Max(ts)]
        BY <1>1, <2>0, <3>1
      <3>5. AggregateOf(M, d) = SummaryOf(f, ts)
        BY <3>1, <3>3, <3>4 DEF AggregateOf, SummaryOf
      <3> QED
        BY <1>2, <1>7, <2>0, <2>1, <3>5
    <2>2. CASE FoldsIn(L, d) # {}
      <3>1. /\ T # {} /\ V # {} /\ vs # {}
        BY <1>2, <1>5, <1>7, <2>2
      <3> HIDE DEF T, V, vs
      <3>2. /\ Min({Min(T), Min(ts)}) = Min(T \cup ts)
            /\ Min(T \cup ts) = IF Min(ts) < Min(T) THEN Min(ts) ELSE Min(T)
            /\ Min({Min(V), Min(vs)}) = Min(V \cup vs)
        BY <1>2, <1>3, <1>5, <1>7, <3>1, MinUnion
      <3>3. /\ Max({Max(T), Max(ts)}) = Max(T \cup ts)
            /\ Max(T \cup ts) = IF Max(ts) > Max(T) THEN Max(ts) ELSE Max(T)
            /\ Max({Max(V), Max(vs)}) = Max(V \cup vs)
        BY <1>2, <1>3, <1>5, <1>7, <3>1, MaxUnion
      <3>4. /\ Min(T) \in T /\ \A y \in T : Min(T) <= y
            /\ Max(T) \in T /\ \A y \in T : Max(T) >= y
        BY <1>2, <3>1, MinIn, MaxIn
      <3>5. FirstIn(M, Min(T \cup ts)) =
              IF Min(ts) < Min(T) THEN f[Min(ts)] ELSE FirstIn(L, Min(T))
        <4>1. T \subseteq Int /\ ts \subseteq Int
          BY <1>2, <1>3
        <4>2. CASE Min(ts) < Min(T)
          <5>1. Min(ts) \in ts \ T
            <6>1. PICK x \in ts : x = Min(ts)
              BY <2>0
            <6>2. PICK y \in T : y = Min(T) /\ \A z \in T : y <= z
              BY <3>4
            <6> QED
              BY <4>1, <4>2, <6>1, <6>2
          <5> QED
            BY <1>1, <3>2, <4>2, <5>1
        <4>3. CASE ~ (Min(ts) < Min(T))
          BY <1>1, <3>2, <3>4, <4>3
        <4> QED
          BY <4>2, <4>3
      <3>6. FirstIn(M, Max(T \cup ts)) =
              IF Max(ts) > Max(T) THEN f[Max(ts)] ELSE FirstIn(L, Max(T))
        <4>1. T \subseteq Int /\ ts \subseteq Int
          BY <1>2, <1>3
        <4>2. CASE Max(ts) > Max(T)
          <5>1. Max(ts) \in ts \ T
            <6>1. PICK x \in ts : x = Max(ts)
              BY <2>0
            <6>2. PICK y \in T : y = Max(T) /\ \A z \in T : y >= z
              BY <3>4
            <6> QED
              BY <4>1, <4>2, <6>1, <6>2
          <5> QED
            BY <1>1, <3>3, <4>2, <5>1
        <4>3. CASE ~ (Max(ts) > Max(T))
          BY <1>1, <3>3, <3>4, <4>3
        <4> QED
          BY <4>2, <4>3
      <3>7. /\ SummaryOf(f, ts).open = f[Min(ts)].value
            /\ SummaryOf(f, ts).high = Max(vs) /\ SummaryOf(f, ts).low = Min(vs)
            /\ SummaryOf(f, ts).close = f[Max(ts)].value
            /\ SummaryOf(f, ts).estimated = f[Max(ts)].estimated
            /\ SummaryOf(f, ts).samples = Cardinality(ts)
            /\ SummaryOf(f, ts).openAt = Min(ts) /\ SummaryOf(f, ts).closeAt = Max(ts)
        BY DEF SummaryOf, vs
      <3>8. /\ AggregateOf(L, d).open = FirstIn(L, Min(T)).value
            /\ AggregateOf(L, d).high = Max(V) /\ AggregateOf(L, d).low = Min(V)
            /\ AggregateOf(L, d).close = FirstIn(L, Max(T)).value
            /\ AggregateOf(L, d).estimated = FirstIn(L, Max(T)).estimated
            /\ AggregateOf(L, d).samples = Cardinality(RowsIn(L, d))
            /\ AggregateOf(L, d).openAt = Min(T) /\ AggregateOf(L, d).closeAt = Max(T)
        BY DEF AggregateOf, T, V
      <3>9. AggregateOf(M, d) =
              [open |-> FirstIn(M, Min(T \cup ts)).value,
               high |-> Max(V \cup vs), low |-> Min(V \cup vs),
               close |-> FirstIn(M, Max(T \cup ts)).value,
               estimated |-> FirstIn(M, Max(T \cup ts)).estimated,
               samples |-> Cardinality(RowsIn(L, d)) + Cardinality(ts),
               openAt |-> Min(T \cup ts), closeAt |-> Max(T \cup ts)]
        BY <1>1 DEF AggregateOf
      <3>10. Merge(AggregateOf(L, d), SummaryOf(f, ts)) =
              [open |-> IF Min(ts) < Min(T) THEN f[Min(ts)].value ELSE FirstIn(L, Min(T)).value,
               high |-> Max({Max(V), Max(vs)}), low |-> Min({Min(V), Min(vs)}),
               close |-> IF Max(ts) > Max(T) THEN f[Max(ts)].value ELSE FirstIn(L, Max(T)).value,
               estimated |-> IF Max(ts) > Max(T) THEN f[Max(ts)].estimated
                             ELSE FirstIn(L, Max(T)).estimated,
               samples |-> Cardinality(RowsIn(L, d)) + Cardinality(ts),
               openAt |-> Min({Min(T), Min(ts)}), closeAt |-> Max({Max(T), Max(ts)})]
        BY <3>7, <3>8, Zenon DEF Merge
      <3>11. /\ FirstIn(M, Min(T \cup ts)).value =
                  IF Min(ts) < Min(T) THEN f[Min(ts)].value ELSE FirstIn(L, Min(T)).value
             /\ FirstIn(M, Max(T \cup ts)).value =
                  IF Max(ts) > Max(T) THEN f[Max(ts)].value ELSE FirstIn(L, Max(T)).value
             /\ FirstIn(M, Max(T \cup ts)).estimated =
                  IF Max(ts) > Max(T) THEN f[Max(ts)].estimated
                  ELSE FirstIn(L, Max(T)).estimated
        BY <3>5, <3>6
      <3>12. AggregateOf(M, d) = Merge(AggregateOf(L, d), SummaryOf(f, ts))
        BY <3>2, <3>3, <3>9, <3>10, <3>11, Zenon
      <3> QED
        BY <1>2, <1>7, <2>0, <2>2, <3>12
    <2> QED
      BY <2>1, <2>2
  <1> QED
    BY <1>6, <1>7

Logged     == log \in [Names -> Seq(Logs)]
DailyShape == daily \in [Names -> [Days -> Daily \cup {None}]]
DailyInv   == Logged /\ DailyShape /\ DailyIsAggregate

LEMMA InitDaily == Init => DailyInv
  <1> SUFFICES ASSUME Init PROVE DailyInv
    OBVIOUS
  <1>1. Logged
    BY DEF Init, Logged
  <1>2. DailyShape
    BY DEF Init, DailyShape
  <1>3. DailyIsAggregate
    BY DEF Init, DailyIsAggregate, Folds
  <1> QED
    BY <1>1, <1>2, <1>3 DEF DailyInv

LEMMA FoldKeepsDaily ==
  ASSUME Shape, DailyInv, Fold
  PROVE  DailyInv'
  <1>0. PICK n0 \in Names : n0 = Tables[job.table]
    BY JobFields
  <1>1. PICK rows \in SUBSET Times : rows = Below(n0, job.cutoff)
    BY DEF Below
  <1> DEFINE f == [t \in rows |-> history[n0][t]]
             L == log[n0]
             of(d) == {t \in rows : Day(t) = d}
  <1>2. f \in Logs /\ (\A t \in rows : f[t] = history[n0][t]) /\ DOMAIN f = rows
    <2>1. \A t \in rows : history[n0][t] \in Row
      BY <1>1 DEF Below, Shape, Value
    <2> QED
      BY <2>1 DEF Logs
  <1>3. /\ daily' = [daily EXCEPT ![n0] = [d \in Days |-> Upserted(n0, d, of(d))]]
        /\ log' = IF rows = {} THEN log ELSE [log EXCEPT ![n0] = Append(L, f)]
    BY <1>0, <1>1 DEF Fold
  <1>4. L \in Seq(Logs) /\ \A n \in Names : log[n] \in Seq(Logs)
    BY DEF DailyInv, Logged
  <1> HIDE DEF f, L
  <1>5. Append(L, f) \in Seq(Logs) /\ Appends(L, Append(L, f), f)
    BY <1>2, <1>4 DEF Appends
  <1>6. Logged'
    BY <1>3, <1>5 DEF DailyInv, Logged
  <1>7. \A n \in Names, d \in Days :
          /\ n # n0 => log'[n] = log[n] /\ daily'[n][d] = daily[n][d]
          /\ log'[n0] = IF rows = {} THEN L ELSE Append(L, f)
          /\ daily'[n0][d] = Upserted(n0, d, of(d))
    BY <1>3 DEF DailyInv, Logged, DailyShape, L
  <1>8. \A d \in Days : /\ daily[n0][d] = None <=> FoldsIn(L, d) = {}
                        /\ FoldsIn(L, d) # {} => daily[n0][d] = AggregateOf(L, d)
    <2> SUFFICES ASSUME NEW d \in Days
                 PROVE  /\ daily[n0][d] = None <=> FoldsIn(L, d) = {}
                        /\ FoldsIn(L, d) # {} => daily[n0][d] = AggregateOf(L, d)
      OBVIOUS
    <2>1. daily[n0][d] = IF FoldsIn(L, d) = {} THEN None ELSE AggregateOf(L, d)
      BY AggregateDef DEF DailyInv, DailyIsAggregate, L
    <2>2. FoldsIn(L, d) # {} => AggregateOf(L, d) # None
      BY <1>4, AggregateType, RollupAssumption
    <2> QED
      BY <2>1, <2>2
  <1>9. DailyIsAggregate'
    <2> SUFFICES ASSUME NEW n \in Names, NEW d \in Days
                 PROVE  daily'[n][d] = IF FoldsIn(log'[n], d) = {} THEN None
                                       ELSE AggregateOf(log'[n], d)
      BY AggregateDefPrime DEF DailyIsAggregate
    <2>1. CASE n # n0
      <3>1. daily[n][d] = IF FoldsIn(log[n], d) = {} THEN None ELSE AggregateOf(log[n], d)
        BY AggregateDef DEF DailyInv, DailyIsAggregate
      <3> QED
        BY <1>7, <2>1, <3>1
    <2>2. CASE n = n0 /\ rows = {}
      <3>1. of(d) = {}
        BY <2>2
      <3>2. daily'[n0][d] = daily[n0][d] /\ log'[n0] = L
        BY <1>7, <2>2, <3>1 DEF Upserted
      <3> QED
        BY <1>8, <2>2, <3>2
    <2>3. CASE n = n0 /\ rows # {}
      <3> DEFINE M == Append(L, f)
      <3>1. log'[n] = M /\ Appends(L, M, f)
        BY <1>5, <1>7, <2>3
      <3> HIDE DEF M
      <3>2. of(d) = On(f, d)
        BY <1>2 DEF On
      <3>3. Summary(n0, of(d)) = SummaryOf(f, of(d)) \/ of(d) = {}
        <4> SUFFICES ASSUME of(d) # {} PROVE Summary(n0, of(d)) = SummaryOf(f, of(d))
          OBVIOUS
        <4>1. Min(of(d)) \in of(d) /\ Max(of(d)) \in of(d)
          <5>1. of(d) \in SUBSET Times
            OBVIOUS
          <5>2. of(d) \in SUBSET Int /\ IsFiniteSet(of(d))
            BY <5>1, TimesFinite
          <5> QED
            BY <5>2, MinIn, MaxIn
        <4>2. \A t \in of(d) : f[t] = history[n0][t]
          BY <1>2
        <4> HIDE DEF of
        <4>3. {f[t].value : t \in of(d)} = {history[n0][t].value : t \in of(d)}
          BY <4>2
        <4> QED
          BY <4>1, <4>2, <4>3 DEF Summary, SummaryOf
      <3> DEFINE ts == of(d)
      <3> HIDE DEF of, ts
      <3>4. /\ ts = {} => /\ FoldsIn(M, d) = {} <=> FoldsIn(L, d) = {}
                          /\ FoldsIn(L, d) # {} => AggregateOf(M, d) = AggregateOf(L, d)
            /\ ts # {} => /\ FoldsIn(M, d) # {}
                          /\ AggregateOf(M, d) =
                               IF FoldsIn(L, d) = {} THEN SummaryOf(f, ts)
                               ELSE Merge(AggregateOf(L, d), SummaryOf(f, ts))
        BY <3>1, <3>2, AggregateGrows DEF ts
      <3>5. daily'[n][d] = IF ts = {} THEN daily[n0][d]
                           ELSE IF daily[n0][d] = None THEN SummaryOf(f, ts)
                           ELSE Merge(daily[n0][d], SummaryOf(f, ts))
        BY <1>7, <2>3, <3>3 DEF Upserted, ts
      <3> QED
        BY <1>8, <3>1, <3>4, <3>5
    <2> QED
      BY <2>1, <2>2, <2>3
  <1>10. DailyShape'
    <2>1. \A n \in Names, d \in Days : daily'[n][d] \in Daily \cup {None}
      <3> SUFFICES ASSUME NEW n \in Names, NEW d \in Days
                   PROVE  daily'[n][d] \in Daily \cup {None}
        OBVIOUS
      <3>1. log'[n] \in Seq(Logs)
        BY <1>6 DEF Logged
      <3>2. daily'[n][d] = IF FoldsIn(log'[n], d) = {} THEN None ELSE AggregateOf(log'[n], d)
        BY <1>9, AggregateDefPrime DEF DailyIsAggregate
      <3> QED
        BY <3>1, <3>2, AggregateType
    <2> QED
      BY <1>3, <2>1 DEF DailyInv, DailyShape
  <1> QED
    BY <1>6, <1>9, <1>10 DEF DailyInv

LEMMA NextDaily ==
  ASSUME Shape, DailyInv, [Next]_vars
  PROVE  DailyInv'
  <1>1. CASE Fold
    BY <1>1, FoldKeepsDaily
  <1>2. CASE ~ Fold
    <2>1. UNCHANGED <<daily, log>>
      <3>1. CASE Maintain
        BY <1>2, <3>1
           DEF Maintain, Begin, Delete, Cleanup, DeleteQuotes, Complete, Clear,
               RecordFailure, seriesVars, ghosts
      <3>2. CASE \E w \in Writers : Write(w)
        BY <3>2 DEF Write, Calculate, Store, Discard, seriesVars, ghosts
      <3>3. CASE \/ Fails \/ Crash \/ Tick \/ Request \/ SetArchive
                 \/ \E d \in Days : Quotes(d)
                 \/ UNCHANGED vars
        BY <3>3 DEF Fails, Crash, Tick, Request, SetArchive, Quotes, vars, seriesVars, ghosts
      <3> QED
        BY <3>1, <3>2, <3>3 DEF Next
    <2>2. Logged' /\ DailyShape'
      BY <2>1 DEF DailyInv, Logged, DailyShape
    <2>3. DailyIsAggregate'
      <3> SUFFICES ASSUME NEW n \in Names, NEW d \in Days
                   PROVE  daily'[n][d] = IF Folds(n, d)' = {} THEN None ELSE Aggregate(n, d)'
        BY DEF DailyIsAggregate
      <3>1. Folds(n, d)' = Folds(n, d) /\ Aggregate(n, d)' = Aggregate(n, d)
        BY <2>1, AggregateDef, AggregateDefPrime
      <3> QED
        BY <2>1, <3>1 DEF DailyInv, DailyIsAggregate
    <2> QED
      BY <2>2, <2>3 DEF DailyInv
  <1> QED
    BY <1>1, <1>2

-----------------------------------------------------------------------------
(* The quotes, and the types that are left.                                *)

\* What TypeOK asks beyond Shape.
Ranges ==
  /\ now \in Times /\ options \subseteq Days /\ cut \subseteq Days
  /\ archive \in Archives
  /\ doneOn \in Days \cup {None}
  /\ writes \in 0..MaxWrites /\ faults \in 0..MaxFaults

LEMMA DayOfTime ==
  ASSUME NEW t \in Times
  PROVE  Day(t) \in Days
  <1>1. PICK k \in Nat \ {0} : k = DayLength
    BY RollupAssumption
  <1>2. PICK l \in Nat : l = LastTime
    BY RollupAssumption
  <1>3. t \in Nat /\ t <= l
    BY <1>2 DEF Times
  <1> DEFINE q == t \div k
             p == l \div k
  <1>4. q \in Int /\ p \in Int
    BY <1>1, <1>2, <1>3
  <1>5. k * q <= t /\ t < k * q + k /\ k * p <= l /\ l < k * p + k
    BY <1>3
  <1> HIDE DEF q, p
  <1>6. q <= p
    <2> SUFFICES ASSUME q >= p + 1 PROVE FALSE
      BY <1>4
    <2>1. k * q >= k * (p + 1)
      BY <1>4
    <2>2. k * (p + 1) = k * p + k
      BY <1>4
    <2>3. k * q \in Int /\ k * p \in Int
      BY <1>4
    <2> QED
      BY <1>3, <1>5, <2>1, <2>2, <2>3
  <1>7. q >= 0
    <2> SUFFICES ASSUME q <= -1 PROVE FALSE
      BY <1>4
    <2>1. k * q <= k * (-1)
      BY <1>4
    <2> QED
      BY <1>3, <1>4, <1>5, <2>1
  <1> QED
    BY <1>1, <1>2, <1>4, <1>6, <1>7 DEF Days, Day, q, p

\* What is selected for deletion has been folded.
PendingLogged ==
  \A n \in Names : \A t \in Pending(n) : \E k \in DOMAIN log[n] : t \in DOMAIN log[n][k]

\* The days whose quotes are about to be deleted, or have been, have a value.
DaysCovered == /\ pc = "options" => \A d \in job.days : Covered(d)
               /\ \A d \in cut : Covered(d)

Coverage == PendingLogged /\ DaysCovered

\* A fold keeps the log and adds the rows it selects.
LEMMA FoldLogs ==
  ASSUME Shape, Fold
  PROVE  /\ \A n \in Names : \A k \in DOMAIN log[n] :
              k \in DOMAIN log'[n] /\ log'[n][k] = log[n][k]
         /\ PendingLogged'
  <1>0. PICK n0 \in Names : n0 = Tables[job.table]
    BY JobFields
  <1>1. PICK rows \in SUBSET Times : rows = Below(n0, job.cutoff)
    BY DEF Below
  <1>2. PICK new : new = [t \in rows |-> history[n0][t]]
    OBVIOUS
  <1>3. /\ log' = IF rows = {} THEN log ELSE [log EXCEPT ![n0] = Append(log[n0], new)]
        /\ job' = [job EXCEPT !.ids = rows]
        /\ pc' = "delete"
    BY <1>0, <1>1, <1>2 DEF Fold
  <1>4. \A n \in Names : Pending(n)' = IF n = n0 THEN rows ELSE {}
    <2>1. job'.ids = rows /\ job'.table = job.table
      BY <1>3 DEF Shape, Job
    <2> QED
      BY <1>0, <1>3, <2>1 DEF Pending
  <1>5. \A n \in Names : log[n] \in Seq(Folded) /\ DOMAIN log[n] = 1..Len(log[n])
                         /\ Len(log[n]) \in Nat
    BY DEF Shape
  <1>6. PICK m \in Nat : m = Len(log[n0]) + 1
    BY <1>5
  <1>7. \A n \in Names :
          /\ n # n0 \/ rows = {} => log'[n] = log[n]
          /\ n = n0 /\ rows # {} =>
               /\ m \in DOMAIN log'[n] /\ log'[n][m] = new
               /\ \A k \in DOMAIN log[n] : k \in DOMAIN log'[n] /\ log'[n][k] = log[n][k]
    <2> SUFFICES ASSUME NEW n \in Names
                 PROVE  /\ n # n0 \/ rows = {} => log'[n] = log[n]
                        /\ n = n0 /\ rows # {} =>
                             /\ m \in DOMAIN log'[n] /\ log'[n][m] = new
                             /\ \A k \in DOMAIN log[n] :
                                  k \in DOMAIN log'[n] /\ log'[n][k] = log[n][k]
      OBVIOUS
    <2>1. n # n0 \/ rows = {} => log'[n] = log[n]
      BY <1>3 DEF Shape
    <2>2. n = n0 /\ rows # {} => log'[n] = Append(log[n], new)
      BY <1>3 DEF Shape
    <2> QED
      BY <1>5, <1>6, <2>1, <2>2
  <1>8. PendingLogged'
    <2> SUFFICES ASSUME NEW t \in rows
                 PROVE  \E k \in DOMAIN log'[n0] : t \in DOMAIN log'[n0][k]
      BY <1>4 DEF PendingLogged
    <2>1. m \in DOMAIN log'[n0] /\ log'[n0][m] = new
      BY <1>7
    <2> QED
      BY <1>2, <2>1
  <1>9. \A n \in Names : \A k \in DOMAIN log[n] :
          k \in DOMAIN log'[n] /\ log'[n][k] = log[n][k]
    BY <1>7
  <1> QED
    BY <1>8, <1>9

\* A batch takes rows that were selected, and selects no others.
LEMMA DeleteTakesPending ==
  ASSUME Shape, Delete
  PROVE  \A n \in Names :
           /\ Pending(n)' \subseteq Pending(n)
           /\ \A t \in Times : history'[n][t] = history[n][t] \/ t \in Pending(n)
  <1>0. PICK n0 \in Names : n0 = Tables[job.table]
    BY JobFields
  <1>1. PICK batch \in SUBSET Times : batch = Batch(job.ids)
    BY JobFields DEF Batch
  <1>2. /\ batch \subseteq job.ids /\ pc = "delete"
        /\ history' = [history EXCEPT ![n0] =
                         [t \in Times |-> IF t \in batch THEN None ELSE history[n0][t]]]
    BY <1>0, <1>1 DEF Delete, Batch
  <1>3. \A n \in Names : \A t \in Times :
          history'[n][t] = history[n][t] \/ t \in Pending(n)
    BY <1>0, <1>2 DEF Shape, Pending
  <1>4. \A n \in Names : Pending(n)' \subseteq Pending(n)
    <2>1. CASE job.ids \ batch # {}
      <3>1. pc' = pc /\ job' = [job EXCEPT !.ids = job.ids \ batch]
        BY <1>1, <2>1 DEF Delete
      <3>2. job'.ids = job.ids \ batch /\ job'.table = job.table
        BY <3>1 DEF Shape, Job
      <3> QED
        BY <1>2, <3>1, <3>2 DEF Pending
    <2>2. CASE job.ids \ batch = {}
      <3>1. pc' # "delete"
        BY <1>1, <2>2 DEF Delete
      <3> QED
        BY <3>1 DEF Pending
    <2> QED
      BY <2>1, <2>2
  <1> QED
    BY <1>3, <1>4

\* Whatever has been folded for a day is in its daily row.
LEMMA LoggedIsDaily ==
  ASSUME DailyInv, NEW n \in Names, NEW d \in Days
  PROVE  daily[n][d] # None <=>
           \E k \in DOMAIN log[n] : \E t \in DOMAIN log[n][k] : Day(t) = d
  <1>1. log[n] \in Seq(Logs)
    BY DEF DailyInv, Logged
  <1>2. daily[n][d] = IF FoldsIn(log[n], d) = {} THEN None ELSE AggregateOf(log[n], d)
    BY AggregateDef DEF DailyInv, DailyIsAggregate
  <1>3. FoldsIn(log[n], d) # {} => AggregateOf(log[n], d) # None
    BY <1>1, AggregateType, RollupAssumption
  <1>4. FoldsIn(log[n], d) # {} <=>
          \E k \in DOMAIN log[n] : \E t \in DOMAIN log[n][k] : Day(t) = d
    BY DEF FoldsIn
  <1> QED
    BY <1>2, <1>3, <1>4

\* No step takes the last value of a day.
LEMMA CoveredStays ==
  ASSUME Shape, DailyInv, DailyInv', PendingLogged, [Next]_vars,
         NEW d \in Days, Covered(d)
  PROVE  Covered(d)'
  <1>1. PICK n \in Names :
          daily[n][d] # None \/ \E t \in Times : Day(t) = d /\ history[n][t] # None
    BY DEF Covered
  <1>2. CASE Fold
    <2>1. history' = history
      BY <1>2 DEF Fold
    <2>2. daily[n][d] # None => daily'[n][d] # None
      <3> SUFFICES ASSUME daily[n][d] # None PROVE daily'[n][d] # None
        OBVIOUS
      <3>1. PICK k \in DOMAIN log[n] : \E t \in DOMAIN log[n][k] : Day(t) = d
        BY LoggedIsDaily
      <3>2. k \in DOMAIN log'[n] /\ log'[n][k] = log[n][k]
        BY <1>2, FoldLogs
      <3>3. (\E j \in DOMAIN log'[n] : \E t \in DOMAIN log'[n][j] : Day(t) = d)
              => daily'[n][d] # None
        <4>1. log'[n] \in Seq(Logs)
          BY DEF DailyInv, Logged
        <4>2. daily'[n][d] = IF FoldsIn(log'[n], d) = {} THEN None
                             ELSE AggregateOf(log'[n], d)
          BY AggregateDefPrime DEF DailyInv, DailyIsAggregate
        <4>3. FoldsIn(log'[n], d) # {} => AggregateOf(log'[n], d) # None
          BY <4>1, AggregateType, RollupAssumption
        <4> QED
          BY <4>2, <4>3 DEF FoldsIn
      <3> QED
        BY <3>1, <3>2, <3>3
    <2> QED
      BY <1>1, <2>1, <2>2 DEF Covered
  <1>3. CASE Delete
    <2>1. daily' = daily
      BY <1>3 DEF Delete
    <2>2. CASE daily[n][d] # None
      BY <2>1, <2>2 DEF Covered
    <2>3. ASSUME NEW t \in Times, Day(t) = d, history[n][t] # None
          PROVE  Covered(d)'
      <3>1. CASE t \in Pending(n)
        <4>1. \E k \in DOMAIN log[n] : t \in DOMAIN log[n][k]
          BY <3>1 DEF PendingLogged
        <4>2. daily[n][d] # None
          BY <2>3, <4>1, LoggedIsDaily
        <4> QED
          BY <2>1, <4>2 DEF Covered
      <3>2. CASE t \notin Pending(n)
        <4>1. history'[n][t] = history[n][t]
          BY <1>3, <3>2, DeleteTakesPending
        <4> QED
          BY <2>3, <4>1 DEF Covered
      <3> QED
        BY <3>1, <3>2
    <2> QED
      BY <1>1, <2>2, <2>3
  <1>4. ASSUME NEW w \in Writers, Store(w)
        PROVE  Covered(d)'
    <2>1. daily' = daily
      BY <1>4 DEF Store
    <2>2. \A t \in Times : history'[n][t] = history[n][t] \/ history'[n][t] # None
      <3>1. history' = [m \in Names |->
               IF m \in writing[w].names
               THEN [history[m] EXCEPT ![writing[w].at] = Written(w, m)] ELSE history[m]]
        BY <1>4 DEF Store
      <3>2. \A m \in writing[w].names : Written(w, m) # None
        BY <1>4, StoreWrites, RollupAssumption
      <3> QED
        BY <3>1, <3>2 DEF Shape
    <2> QED
      BY <1>1, <2>1, <2>2 DEF Covered
  <1>5. CASE ~ Fold /\ ~ Delete /\ ~ \E w \in Writers : Store(w)
    <2>1. UNCHANGED <<daily, history>>
      <3>1. CASE Maintain
        BY <1>5, <3>1 DEF Maintain, Begin, Cleanup, DeleteQuotes, Complete, Clear,
                          RecordFailure, seriesVars
      <3>2. CASE \E w \in Writers : Write(w)
        BY <1>5, <3>2 DEF Write, Calculate, Discard, seriesVars
      <3>3. CASE \/ Fails \/ Crash \/ Tick \/ Request \/ SetArchive
                 \/ \E e \in Days : Quotes(e)
                 \/ UNCHANGED vars
        BY <3>3 DEF Fails, Crash, Tick, Request, SetArchive, Quotes, vars, seriesVars
      <3> QED
        BY <3>1, <3>2, <3>3 DEF Next
    <2> QED
      BY <1>1, <2>1 DEF Covered
  <1> QED
    BY <1>2, <1>3, <1>4, <1>5

LEMMA NextLogged ==
  ASSUME Shape, PendingLogged, [Next]_vars
  PROVE  PendingLogged'
  <1>1. CASE Fold
    BY <1>1, FoldLogs
  <1>2. CASE Delete
    <2>1. log' = log
      BY <1>2 DEF Delete, ghosts
    <2> QED
      BY <1>2, <2>1, DeleteTakesPending DEF PendingLogged
  <1>3. CASE ~ Fold /\ ~ Delete
    <2>1. pc' # "delete" \/ UNCHANGED <<pc, job, log>>
      <3>1. CASE Maintain
        BY <1>3, <3>1 DEF Maintain, Begin, Cleanup, DeleteQuotes, Complete, Clear,
                          RecordFailure
      <3>2. CASE \E w \in Writers : Write(w)
        BY <3>2 DEF Write, Calculate, Store, Discard, runVars, ghosts
      <3>3. CASE \/ Fails \/ Crash \/ Tick \/ Request \/ SetArchive
                 \/ \E d \in Days : Quotes(d)
                 \/ UNCHANGED vars
        BY <3>3 DEF Fails, Crash, Tick, Request, SetArchive, Quotes, vars, runVars, ghosts
      <3> QED
        BY <3>1, <3>2, <3>3 DEF Next
    <2> QED
      BY <2>1 DEF PendingLogged, Pending
  <1> QED
    BY <1>1, <1>2, <1>3

LEMMA NextCovered ==
  ASSUME Shape, DailyInv, DailyInv', Ranges, Coverage, [Next]_vars
  PROVE  Coverage'
  <1>0. \A d \in Days : Covered(d) => Covered(d)'
    BY CoveredStays DEF Coverage
  <1>1. ASSUME Cleanup
        PROVE  DaysCovered'
    <2>1. PICK days \in SUBSET Days :
            /\ job' = [job EXCEPT !.days = days] /\ \A d \in days : Covered(d)
      <3> DEFINE gone == {d \in Days : /\ job.cleanup /\ archive # None
                                       /\ (d + 1) * DayLength <= job.optionCutoff
                                       /\ d <= archive
                                       /\ Covered(d)}
      <3>1. job' = [job EXCEPT !.days = gone]
        BY <1>1 DEF Cleanup
      <3>2. gone \in SUBSET Days /\ \A d \in gone : Covered(d)
        OBVIOUS
      <3> HIDE DEF gone
      <3> QED
        BY <3>1, <3>2
    <2>2. job'.days = days /\ cut' = cut
      BY <1>1, <2>1 DEF Shape, Job, Cleanup, ghosts
    <2> QED
      BY <1>0, <2>1, <2>2 DEF Coverage, DaysCovered, Ranges
  <1>2. ASSUME NEW e \in Days, DeleteQuotes(e)
        PROVE  DaysCovered'
    <2>1. /\ job'.days \subseteq job.days /\ job.days \subseteq Days /\ pc = "options"
          /\ e \in job.days /\ cut' \subseteq cut \cup {e}
      BY <1>2 DEF DeleteQuotes, Shape, Job
    <2>2. \A d \in job.days : Covered(d)'
      BY <1>0, <2>1 DEF Coverage, DaysCovered
    <2>3. \A d \in cut : Covered(d)'
      BY <1>0 DEF Coverage, DaysCovered, Ranges
    <2> QED
      BY <2>1, <2>2, <2>3 DEF DaysCovered
  <1>3. ASSUME ~ Cleanup, ~ \E d \in Days : DeleteQuotes(d)
        PROVE  DaysCovered'
    <2>1. cut' = cut /\ (pc' # "options" \/ UNCHANGED <<pc, job>>)
      <3>1. CASE Maintain
        BY <1>3, <3>1 DEF Maintain, Begin, Fold, Delete, Complete, Clear, RecordFailure, ghosts
      <3>2. CASE \E w \in Writers : Write(w)
        BY <3>2 DEF Write, Calculate, Store, Discard, runVars, ghosts
      <3>3. CASE \/ Fails \/ Crash \/ Tick \/ Request \/ SetArchive
                 \/ \E d \in Days : Quotes(d)
                 \/ UNCHANGED vars
        BY <3>3 DEF Fails, Crash, Tick, Request, SetArchive, Quotes, vars, runVars, ghosts
      <3> QED
        BY <3>1, <3>2, <3>3 DEF Next
    <2>2. job.days \subseteq Days
      BY JobFields
    <2> QED
      BY <1>0, <2>1, <2>2 DEF Coverage, DaysCovered, Ranges
  <1>4. PendingLogged'
    BY NextLogged DEF Coverage
  <1> QED
    BY <1>1, <1>2, <1>3, <1>4 DEF Coverage

LEMMA InitRanges == Init => Ranges
  BY RollupAssumption DEF Init, Ranges, Times

LEMMA NextRanges ==
  ASSUME Ranges, [Next]_vars
  PROVE  Ranges'
  <1>0. {LastTime, MaxWrites, MaxFaults} \subseteq Nat
    BY RollupAssumption
  <1>1. CASE Complete
    <2>1. doneOn' \in Days
      BY <1>1, DayOfTime DEF Complete, Ranges
    <2> QED
      BY <1>1, <2>1 DEF Complete, Ranges, seriesVars, settings, ghosts
  <1>2. CASE Maintain /\ ~ Complete
    BY <1>2 DEF Maintain, Begin, Fold, Delete, Cleanup, DeleteQuotes, Clear, RecordFailure,
                Ranges, seriesVars, settings, ghosts
  <1>3. CASE \E w \in Writers : Write(w)
    BY <1>0, <1>3 DEF Write, Calculate, Store, Discard, Ranges, seriesVars, settings, runVars,
                      ghosts
  <1>4. CASE Fails \/ Crash
    BY <1>0, <1>4 DEF Fails, Crash, Ranges, seriesVars, settings
  <1>5. CASE Tick
    <2>1. now' \in Times
      BY <1>0, <1>5 DEF Tick, Ranges, Times
    <2> QED
      BY <1>5, <2>1 DEF Tick, Ranges, seriesVars, settings, runVars, ghosts
  <1>6. CASE Request \/ SetArchive \/ \E d \in Days : Quotes(d)
    BY <1>6 DEF Request, SetArchive, Quotes, Ranges, seriesVars, settings, runVars, ghosts
  <1>7. CASE UNCHANGED vars
    BY <1>7 DEF vars, Ranges, seriesVars, settings, runVars, ghosts
  <1> QED
    BY <1>1, <1>2, <1>3, <1>4, <1>5, <1>6, <1>7 DEF Next

LEMMA TypesHold ==
  ASSUME Shape, DailyShape, Ranges
  PROVE  TypeOK
  <1>1. job \in Job /\ DOMAIN Tables = {1, 2}
    BY DEF Shape, Tables
  <1>2. /\ job.days \subseteq Days /\ job.ids \subseteq Times /\ job.table \in DOMAIN Tables
    BY <1>1 DEF Job
  <1>3. \A n \in Names : /\ \A t \in Times : history[n][t] \in Row \cup {None}
                                        /\ inserts[n][t] \in Nat
                         /\ \A d \in Days : daily[n][d] \in Daily \cup {None}
    BY DEF Shape, DailyShape, Value
  <1> QED
    BY <1>2, <1>3 DEF TypeOK, Shape, Ranges

-----------------------------------------------------------------------------
(* The theorems.                                                           *)

LEMMA NextIInv == IInv /\ [Next]_vars => IInv'
  <1> SUFFICES ASSUME IInv, [Next]_vars PROVE IInv'
    OBVIOUS
  <1>0. Shape /\ Samples
    BY DEF IInv, Samples
  <1>1. CASE Maintain
    <2>1. Shape'
      BY <1>0, <1>1, MaintainKeepsShape
    <2>2. CASE Fold
      BY <1>0, <2>1, <2>2, FoldKeepsSamples DEF IInv, Samples
    <2>3. CASE Delete
      BY <1>0, <2>1, <2>3, DeleteKeepsSamples DEF IInv, Samples
    <2>4. CASE ~ Fold /\ ~ Delete
      <3>1. pc # "delete" /\ pc' # "delete" /\ UNCHANGED <<history, log, accepted, raced, again>>
        BY <1>1, <2>4
           DEF Maintain, Begin, Cleanup, DeleteQuotes, Complete, Clear, RecordFailure,
               seriesVars, ghosts
      <3>2. \A n \in Names : Pending(n)' = Pending(n)
        BY <3>1 DEF Pending
      <3> QED
        BY <1>0, <2>1, <3>1, <3>2, QuietKeepsSamples DEF IInv, Samples
    <2> QED
      BY <2>2, <2>3, <2>4
  <1>2. ASSUME NEW w \in Writers, Write(w)
        PROVE  IInv'
    <2>1. Shape'
      BY <1>0, <1>2, WriteKeepsShape
    <2>2. CASE Store(w)
      BY <1>0, <2>1, <2>2, StoreKeepsSamples DEF IInv, Samples
    <2>3. CASE ~ Store(w)
      <3>1. UNCHANGED <<pc, job, history, log, accepted, raced, again>>
        BY <1>2, <2>3 DEF Write, Calculate, Discard, seriesVars, runVars, ghosts
      <3>2. \A n \in Names : Pending(n)' = Pending(n)
        BY <3>1 DEF Pending
      <3> QED
        BY <1>0, <2>1, <3>1, <3>2, QuietKeepsSamples DEF IInv, Samples
    <2> QED
      BY <2>2, <2>3
  <1>3. CASE \/ Fails \/ Crash \/ Tick \/ Request \/ SetArchive
             \/ \E d \in Days : Quotes(d)
             \/ UNCHANGED vars
    <2>1. Shape'
      BY <1>0, <1>3, OthersKeepShape
    <2>2. CASE Fails \/ Crash
      <3>1. Interrupted /\ pc' # "delete" /\ UNCHANGED <<history, log, accepted, raced>>
        BY <2>2 DEF Fails, Crash, seriesVars
      <3> QED
        BY <1>0, <2>1, <3>1, InterruptKeepsSamples DEF IInv, Samples
    <2>3. CASE \/ Tick \/ Request \/ SetArchive
               \/ \E d \in Days : Quotes(d)
               \/ UNCHANGED vars
      <3>1. UNCHANGED <<pc, job, history, log, accepted, raced, again>>
        BY <2>3
           DEF Tick, Request, SetArchive, Quotes, vars, seriesVars, settings, runVars, ghosts
      <3>2. \A n \in Names : Pending(n)' = Pending(n)
        BY <3>1 DEF Pending
      <3> QED
        BY <1>0, <2>1, <3>1, <3>2, QuietKeepsSamples DEF IInv, Samples
    <2> QED
      BY <1>3, <2>2, <2>3
  <1> QED
    BY <1>1, <1>2, <1>3 DEF Next

LEMMA AlwaysIInv == Spec => []IInv
  <1> QED
    BY InitIInv, NextIInv, PTL DEF Spec

\* However maintenances are interrupted and calculations race them, a sample is counted
\* once for each time it was stored and once for each interruption that left it folded.
THEOREM SamplesCountedOnce == Spec => []FoldedOncePerWrite
  <1>1. IInv => FoldedOncePerWrite
    BY DEF IInv
  <1> QED
    BY <1>1, AlwaysIInv, PTL

\* The last row accepted for a time is never lost by folding and deleting, unless it
\* replaced a row between the two.
THEOREM SamplesAreKept == Spec => []SamplesSurvive
  <1>1. IInv => SamplesSurvive
    BY DEF IInv
  <1> QED
    BY <1>1, AlwaysIInv, PTL

LEMMA AlwaysDaily == Spec => [](IInv /\ DailyInv /\ Coverage /\ Ranges)
  <1>1. Init => IInv /\ DailyInv /\ Coverage /\ Ranges
    <2>1. Init => Coverage
      BY DEF Init, Coverage, PendingLogged, Pending, DaysCovered
    <2> QED
      BY <2>1, InitIInv, InitDaily, InitRanges
  <1>2. IInv /\ DailyInv /\ Coverage /\ Ranges /\ [Next]_vars
          => (IInv /\ DailyInv /\ Coverage /\ Ranges)'
    BY NextIInv, NextDaily, NextCovered, NextRanges DEF IInv
  <1> QED
    BY <1>1, <1>2, PTL DEF Spec

\* However a day is split over maintenances, out of order, interrupted or repeated, its
\* daily row is what one fold over all the rows folded for it would have produced.
THEOREM DailyRowsAggregate == Spec => []DailyIsAggregate
  <1>1. DailyInv => DailyIsAggregate
    BY DEF DailyInv
  <1> QED
    BY <1>1, AlwaysDaily, PTL

\* Once quotes of a day have been deleted, the day has a calculated value for ever:
\* whatever is folded, calculated, interrupted or deleted afterwards.
THEOREM QuotesAreReplaced == Spec => []DeletedQuotesAreCovered
  <1>1. Coverage => DeletedQuotesAreCovered
    BY DEF Coverage, DaysCovered, Covered, DeletedQuotesAreCovered
  <1> QED
    BY <1>1, AlwaysDaily, PTL

\* The tables, settings and counters of the maintenance keep their types.
THEOREM TypeCorrect == Spec => []TypeOK
  <1>1. IInv /\ DailyInv /\ Ranges => TypeOK
    BY TypesHold DEF IInv, DailyInv
  <1> QED
    BY <1>1, AlwaysDaily, PTL
=============================================================================
