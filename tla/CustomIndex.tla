---------------------------- MODULE CustomIndex ----------------------------
(***************************************************************************)
(* The custom index of the Python backend: its configuration               *)
(* (api/custom_index.py) behind the directory of listed symbols             *)
(* (services/symbol_directory.py), and the calculations that use it         *)
(* (services/custom_index.py, svix_calculator.py).                          *)
(*                                                                         *)
(* Requests that save the configuration run on the event loop: one step is  *)
(* what happens up to the next await that suspends, and only a download of  *)
(* the directory, or waiting for one, suspends.  A request that looks up a  *)
(* name is a save that is refused.  Calculations run in threads with        *)
(* sessions of their own: one step is a query, or the commit.  A            *)
(* calculation has one date here, and a version is read with its            *)
(* components: they are committed together and never changed.               *)
(* The calculated value is represented by what it was calculated from.      *)
(***************************************************************************)
EXTENDS Integers, Sequences, FiniteSets, FiniteSetsExt

CONSTANTS Clients,       \* requests in progress at the same time
          Calculators,   \* calculations in progress at the same time
          Symbols,       \* symbols there are
          Universe,      \* those of the standard index
          Payloads,      \* configurations the owner can ask for
          Directories,   \* directories the exchange publishes
          Times,         \* times of calculated values
          None,          \* nothing there
          MaxSaves,      \* bound: requests
          MaxRuns,       \* bound: calculations
          MaxExpiries,   \* bound: times the directory expires
          MaxFailures    \* bound: downloads that fail

Policies == {"STRICT", "RENORMALIZE"}
Weights  == UNION {[ss -> 1..100] : ss \in (SUBSET Symbols) \ {{}}}

Version    == [name : Nat, policy : Policies, weights : Weights]
Value      == [weights : Weights, used : SUBSET Symbols, approximate : BOOLEAN]
Row        == [value : Value, estimated : BOOLEAN]

Coverage(weights, used) == MapThenSumSet(LAMBDA s : weights[s], used)

ASSUME CustomIndexAssumption ==
  /\ Universe \subseteq Symbols
  /\ Payloads \subseteq [name : Nat, enabled : BOOLEAN, policy : Policies, weights : Weights]
  /\ Directories \subseteq (SUBSET Symbols) \ {{}}
  /\ None \notin Row
  /\ {MaxSaves, MaxRuns, MaxExpiries, MaxFailures} \subseteq Nat

ASSUME WeightsTotal == \A p \in Payloads : Coverage(p.weights, DOMAIN p.weights) = 100

VARIABLES
  entries,   \* _entries, the symbols of the last directory; {} before the first
  fresh,     \* monotonic() < _expires_at
  pc,        \* client -> "idle", "asking", "waiting" for the lock, "fetching" with it
  request,   \* client -> the configuration it saves
  left,      \* client -> components it has yet to look up
  index,     \* the row of custom_indices
  versions,  \* custom_index_versions with their components; the last is in force
  rows,      \* version -> time -> row of custom_index_history
  calc,      \* calculator -> its step, symbols, definition and draft
  saves, runs, expiries, failures,
  fetches,   \* ghost: downloads begun
  vain,      \* ghost: those that failed and left no directory
  real,      \* ghost: the rows that have had a value that is no estimate
  raced      \* ghost: rows updated by a calculation that had read them before
             \* another one updated them

directory == <<entries, fresh, expiries, failures, fetches, vain>>
clients   == <<pc, request, left, saves>>
config    == <<index, versions>>
results   == <<rows, calc, runs, real, raced>>
vars      == <<directory, clients, config, results>>

VersionIds == 1..MaxSaves
Index      == [enabled : BOOLEAN, policy : Policies]

Idle == [step |-> "idle", symbols |-> {}, version |-> 0, held |-> None, at |-> None,
         value |-> None, read |-> None]

Init ==
  /\ entries = {} /\ fresh = FALSE
  /\ pc = [c \in Clients |-> "idle"] /\ request = [c \in Clients |-> None]
  /\ left = [c \in Clients |-> {}]
  /\ index = None /\ versions = <<>>
  /\ rows = [v \in VersionIds |-> [t \in Times |-> None]]
  /\ calc = [k \in Calculators |-> Idle]
  /\ saves = 0 /\ runs = 0 /\ expiries = 0 /\ failures = 0
  /\ fetches = 0 /\ vain = 0 /\ real = {} /\ raced = {}

-----------------------------------------------------------------------------
(* The configuration: save_custom_index.                                   *)

Latest == versions[Len(versions)]

\* Whether a new version is due: enabling and disabling make none.
Changed(p) ==
  \/ versions = <<>>
  \/ Latest.weights # p.weights \/ Latest.name # p.name \/ Latest.policy # p.policy

\* Bug: the components in force are replaced.
PersistInPlace(p) ==
  /\ index' = [enabled |-> p.enabled, policy |-> p.policy]
  /\ versions' = LET version == [name |-> p.name, policy |-> p.policy, weights |-> p.weights]
                 IN  IF versions = <<>> THEN <<version>>
                     ELSE [versions EXCEPT ![Len(versions)] = version]

\* Everything after the lookups, with its commit.
Persist(p) ==
  /\ index' = [enabled |-> p.enabled, policy |-> p.policy]
  /\ versions' =
       IF Changed(p)
       THEN Append(versions, [name |-> p.name, policy |-> p.policy, weights |-> p.weights])
       ELSE versions

\* The components left are looked up one after the other, without suspending, and the
\* directory stays fresh; an unknown one is answered 422.
Decide(c, listed) ==
  /\ IF left[c] \subseteq listed THEN Persist(request[c]) ELSE UNCHANGED config
  /\ pc' = [pc EXCEPT ![c] = "idle"]
  /\ request' = [request EXCEPT ![c] = None]
  /\ left' = [left EXCEPT ![c] = {}]
  /\ fresh' = TRUE /\ UNCHANGED expiries

\* Some of them are found, and then it has expired.
Lapse(c, listed) ==
  /\ expiries < MaxExpiries /\ expiries' = expiries + 1 /\ fresh' = FALSE
  /\ \E found \in (SUBSET (left[c] \cap listed)) \ {{}, left[c]} :
       left' = [left EXCEPT ![c] = @ \ found]
  /\ pc' = [pc EXCEPT ![c] = "waiting"]
  /\ UNCHANGED <<request, config>>

LookUp(c, listed) == Decide(c, listed) \/ Lapse(c, listed)

Ask(c, p) ==
  /\ pc[c] = "idle" /\ saves < MaxSaves
  /\ saves' = saves + 1
  /\ pc' = [pc EXCEPT ![c] = "asking"]
  /\ request' = [request EXCEPT ![c] = p]
  /\ left' = [left EXCEPT ![c] = DOMAIN p.weights]
  /\ UNCHANGED <<directory, config, results>>

\* lookup_symbol finds the directory fresh, or queues for the lock.
Look(c) ==
  /\ pc[c] = "asking"
  /\ IF fresh THEN LookUp(c, entries)
     ELSE /\ pc' = [pc EXCEPT ![c] = "waiting"]
          /\ UNCHANGED <<fresh, expiries, request, left, config>>
  /\ UNCHANGED <<entries, failures, fetches, vain, saves, results>>

Locked == \E c \in Clients : pc[c] = "fetching"

\* Bug: the expiry is not looked at again once the lock is there.
AcquireAndFetch(c) ==
  /\ pc[c] = "waiting" /\ ~ Locked
  /\ pc' = [pc EXCEPT ![c] = "fetching"]
  /\ fetches' = fetches + 1
  /\ UNCHANGED <<entries, fresh, expiries, failures, vain, request, left, config, saves, results>>

\* With the lock, the directory may have been refreshed by the request before.
Acquire(c) ==
  /\ pc[c] = "waiting" /\ ~ Locked
  /\ IF fresh THEN LookUp(c, entries) /\ UNCHANGED fetches
     ELSE /\ pc' = [pc EXCEPT ![c] = "fetching"]
          /\ fetches' = fetches + 1
          /\ UNCHANGED <<fresh, expiries, request, left, config>>
  /\ UNCHANGED <<entries, failures, vain, saves, results>>

\* Bug: an empty download is no directory, and there is none from then on.
FetchedOrNothing(c) ==
  /\ pc[c] = "fetching"
  /\ \E listed \in Directories \cup {{}} : entries' = listed /\ LookUp(c, listed)
  /\ UNCHANGED <<failures, fetches, vain, saves, results>>

\* Both files are answered, and there is a symbol in one of them.
Fetched(c) ==
  /\ pc[c] = "fetching"
  /\ \E listed \in Directories : entries' = listed /\ LookUp(c, listed)
  /\ UNCHANGED <<failures, fetches, vain, saves, results>>

\* They are not: the last directory is good for another minute.  Without one the request
\* is answered 503.
FetchFails(c) ==
  /\ pc[c] = "fetching" /\ failures < MaxFailures
  /\ failures' = failures + 1
  /\ IF entries # {} THEN LookUp(c, entries) /\ UNCHANGED vain
     ELSE /\ pc' = [pc EXCEPT ![c] = "idle"]
          /\ request' = [request EXCEPT ![c] = None]
          /\ left' = [left EXCEPT ![c] = {}]
          /\ vain' = vain + 1
          /\ UNCHANGED <<fresh, expiries, config>>
  /\ UNCHANGED <<entries, fetches, saves, results>>

Expire ==
  /\ fresh /\ expiries < MaxExpiries
  /\ fresh' = FALSE /\ expiries' = expiries + 1
  /\ UNCHANGED <<entries, failures, fetches, vain, clients, config, results>>

-----------------------------------------------------------------------------
(* The calculation: calculate_svix, as far as the custom index goes.       *)

Enabled == index # None /\ index.enabled

\* _symbols: whose quotes and prices are going to be loaded.  enabled_definitions is a
\* query for the index, and if it is enabled one for its last version.
Begin(k) ==
  /\ calc[k].step = "idle" /\ runs < MaxRuns
  /\ runs' = runs + 1
  /\ calc' = [calc EXCEPT ![k] = [Idle EXCEPT !.step = IF Enabled THEN "listing" ELSE "symbols",
                                            !.symbols = Universe]]
  /\ UNCHANGED <<directory, clients, config, rows, real, raced>>

List(k) ==
  /\ calc[k].step = "listing"
  /\ calc' = [calc EXCEPT ![k] = [@ EXCEPT !.step = "symbols",
                                         !.symbols = calc[k].symbols \cup DOMAIN Latest.weights]]
  /\ UNCHANGED <<directory, clients, config, rows, runs, real, raced>>

\* enabled_definitions, once more.
Define(k) ==
  /\ calc[k].step = "symbols"
  /\ calc' = [calc EXCEPT ![k] = IF Enabled THEN [@ EXCEPT !.step = "defining"] ELSE Idle]
  /\ UNCHANGED <<directory, clients, config, rows, runs, real, raced>>

LoadVersion(k) ==
  /\ calc[k].step = "defining"
  /\ calc' = [calc EXCEPT ![k] = [@ EXCEPT !.step = "defined", !.version = Len(versions),
                                         !.held = Latest]]
  /\ UNCHANGED <<directory, clients, config, rows, runs, real, raced>>

\* calculate_custom_index raises for anything else.
Usable(held, used) ==
  /\ used # {}
  /\ IF held.policy = "STRICT" THEN used = DOMAIN held.weights
     ELSE Coverage(held.weights, used) >= 50

\* Bug: any result replaces the row.
ReplacesAny(row, approximate) == TRUE

\* save_custom_result: an estimate does not replace a row that is none.
Replaces(row, approximate) == row = None \/ row.estimated \/ ~ approximate

\* The index is calculated from the symbols that have quotes, prices and a term, and the
\* row of its version and time is read.
Calculate(k) ==
  LET held == calc[k].held
      v    == calc[k].version
  IN
  /\ calc[k].step = "defined"
  /\ \E t \in Times, approximate \in BOOLEAN,
        used \in SUBSET (DOMAIN held.weights \cap calc[k].symbols) :
       /\ Usable(held, used)
       /\ calc' = [calc EXCEPT ![k] =
            IF Replaces(rows[v][t], approximate)
            THEN [@ EXCEPT !.step = "commit", !.at = t, !.read = rows[v][t],
                           !.value = [weights |-> held.weights, used |-> used,
                                      approximate |-> approximate]]
            ELSE Idle]
  /\ UNCHANGED <<directory, clients, config, rows, runs, real, raced>>

\* The date is skipped, or the calculation ends with an error or its process.
Skip(k) ==
  /\ calc[k].step # "idle"
  /\ calc' = [calc EXCEPT ![k] = Idle]
  /\ UNCHANGED <<directory, clients, config, rows, runs, real, raced>>

\* An UPDATE sets the columns that differ from what was read.
Updated(row, read, value) ==
  [value |-> IF value # read.value THEN value ELSE row.value,
   estimated |-> IF value.approximate # read.estimated THEN value.approximate
                 ELSE row.estimated]

\* The commit.  A row inserted meanwhile violates uq_custom_index_history_point; one that
\* was deleted (by the maintenance, which is not here) would be missed.
Commit(k) ==
  LET v == calc[k].version
      t == calc[k].at
      row == rows[v][t]
      read == calc[k].read
      value == calc[k].value
  IN
  /\ calc[k].step = "commit"
  /\ calc' = [calc EXCEPT ![k] = Idle]
  /\ IF (read = None) # (row = None)
     THEN UNCHANGED <<rows, real, raced>>
     ELSE /\ rows' = [rows EXCEPT ![v][t] =
                        IF read = None THEN [value |-> value, estimated |-> value.approximate]
                        ELSE Updated(row, read, value)]
          /\ real' = IF value.approximate THEN real ELSE real \cup {<<v, t>>}
          /\ raced' = IF row # read THEN raced \cup {<<v, t>>} ELSE raced
  /\ UNCHANGED <<directory, clients, config, runs>>

-----------------------------------------------------------------------------
Next ==
  \/ \E c \in Clients :
       \/ \E p \in Payloads : Ask(c, p)
       \/ Look(c) \/ Acquire(c) \/ Fetched(c) \/ FetchFails(c)
  \/ Expire
  \/ \E k \in Calculators : Begin(k) \/ List(k) \/ Define(k) \/ LoadVersion(k) \/ Calculate(k)
                               \/ Skip(k) \/ Commit(k)

Spec == Init /\ [][Next]_vars

-----------------------------------------------------------------------------
(* Properties.                                                             *)

Draft == [step : {"idle", "listing", "symbols", "defining", "defined", "commit"},
          symbols : SUBSET Symbols, version : 0..MaxSaves, held : Version \cup {None},
          at : Times \cup {None}, value : Value \cup {None}, read : Row \cup {None}]

\* The types; and once there is a directory there always is one, fresh or not.
TypeOK ==
  /\ entries \subseteq Symbols /\ fresh \in BOOLEAN /\ (fresh => entries # {})
  /\ pc \in [Clients -> {"idle", "asking", "waiting", "fetching"}]
  /\ request \in [Clients -> Payloads \cup {None}] /\ left \in [Clients -> SUBSET Symbols]
  /\ index \in Index \cup {None}
  /\ versions \in Seq(Version) /\ Len(versions) <= MaxSaves
  /\ rows \in [VersionIds -> [Times -> Row \cup {None}]]
  /\ calc \in [Calculators -> Draft]

\* However many requests find the directory expired at once, one downloads it and the
\* others use what it got: a download is begun once at the start, once for every expiry,
\* and again only for one that left no directory; one that failed and left the last
\* directory is not repeated before that expires.
OneFetchPerExpiry == fetches <= 1 + expiries + vain

\* The history of a version can be compared with its configuration, whatever is saved
\* while it is calculated: each of its rows was calculated with the weights the version
\* has, from all of its symbols if it is STRICT, and otherwise from half of the weight.
RowsMeetTheirVersion ==
  \A v \in VersionIds, t \in Times :
    rows[v][t] # None =>
      /\ v \in DOMAIN versions
      /\ rows[v][t].value.weights = versions[v].weights
      /\ LET used == rows[v][t].value.used IN
         IF versions[v].policy = "STRICT" THEN used = DOMAIN versions[v].weights
         ELSE Coverage(versions[v].weights, used) >= 50

\* A row is marked as an estimate exactly when its value is one, and one that has had a
\* real value stays real, unless two calculations updated it at once: an UPDATE leaves
\* out the columns its session did not change, so that the estimate of one can end up
\* under the mark of the other.
HonestRows ==
  \A v \in VersionIds, t \in Times :
    rows[v][t] # None /\ <<v, t>> \notin raced =>
      /\ rows[v][t].estimated = rows[v][t].value.approximate
      /\ <<v, t>> \in real => ~ rows[v][t].estimated
=============================================================================
