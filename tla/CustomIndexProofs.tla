------------------------- MODULE CustomIndexProofs -------------------------
(***************************************************************************)
(* What CustomIndex promises, for any clients, calculations and bounds.    *)
(***************************************************************************)
EXTENDS CustomIndex, FiniteSetTheorems, TLAPS

-----------------------------------------------------------------------------
(* The directory is downloaded once for an expiry.                         *)

\* One client has the lock, and while it downloads the directory stays expired.  A
\* download is accounted for by the first start, an expiry or a failure in vain; while nobody
\* downloads an expired directory, one more is allowed.
Downloads ==
  /\ pc \in [Clients -> {"idle", "asking", "waiting", "fetching"}]
  /\ fresh \in BOOLEAN
  /\ fetches \in Nat /\ expiries \in Nat /\ vain \in Nat
  /\ \A c, d \in Clients : pc[c] = "fetching" /\ pc[d] = "fetching" => c = d
  /\ Locked => fresh = FALSE
  /\ fetches <= 1 + expiries + vain
  /\ fresh = FALSE /\ ~ Locked => fetches <= expiries + vain

LEMMA InitDownloads == Init => Downloads
  <1> SUFFICES ASSUME Init PROVE Downloads
    OBVIOUS
  <1>1. \A c \in Clients : pc[c] = "idle"
    BY DEF Init
  <1>2. ~ Locked
    BY <1>1 DEF Locked
  <1>3. fetches = 0 /\ expiries = 0 /\ vain = 0 /\ fresh = FALSE
        /\ pc \in [Clients -> {"idle", "asking", "waiting", "fetching"}]
    BY DEF Init
  <1>4. fetches <= 1 + expiries + vain
    BY <1>3
  <1>5. fetches <= expiries + vain
    BY <1>3
  <1>6. fetches \in Nat /\ expiries \in Nat /\ vain \in Nat /\ fresh \in BOOLEAN
    BY <1>3
  <1>7. \A c, d \in Clients : pc[c] = "fetching" /\ pc[d] = "fetching" => c = d
    BY <1>1
  <1> QED
    BY <1>2, <1>3, <1>4, <1>5, <1>6, <1>7 DEF Downloads

\* A step of client c that leaves the lock alone.
LEMMA Unlocked ==
  ASSUME Downloads, NEW c \in Clients, NEW step \in {"idle", "asking", "waiting"},
         pc[c] # "fetching", pc' = [pc EXCEPT ![c] = step],
         UNCHANGED <<fresh, fetches, expiries, vain>>
  PROVE  Downloads'
  <1>1. Locked' <=> Locked
    BY DEF Downloads, Locked
  <1> QED
    BY <1>1 DEF Downloads

\* Client c gives the lock back.
LEMMA Released ==
  ASSUME Downloads, NEW c \in Clients, pc[c] = "fetching",
         pc' = [pc EXCEPT ![c] = "idle"]
  PROVE  /\ pc' \in [Clients -> {"idle", "asking", "waiting", "fetching"}]
         /\ ~ Locked'
         /\ \A a, b \in Clients : pc'[a] = "fetching" /\ pc'[b] = "fetching" => a = b
  BY DEF Downloads, Locked

\* Client c looks up names, in a fresh directory or in one it has just downloaded.
LEMMA LookUpDownloads ==
  ASSUME Downloads, NEW c \in Clients, pc[c] = "fetching" \/ ~ Locked,
         NEW listed, LookUp(c, listed), UNCHANGED <<fetches, vain>>
  PROVE  Downloads'
  <1>1. /\ \/ pc' = [pc EXCEPT ![c] = "idle"] /\ fresh' = TRUE /\ expiries' = expiries
           \/ pc' = [pc EXCEPT ![c] = "waiting"] /\ fresh' = FALSE /\ expiries' = expiries + 1
    BY DEF LookUp, Decide, Lapse
  <1>2. /\ pc' \in [Clients -> {"idle", "asking", "waiting", "fetching"}]
        /\ ~ Locked'
        /\ \A a, b \in Clients : pc'[a] = "fetching" /\ pc'[b] = "fetching" => a = b
    BY <1>1 DEF Downloads, Locked
  <1>3. /\ fetches \in Nat /\ expiries \in Nat /\ vain \in Nat
        /\ fetches <= 1 + expiries + vain
    BY DEF Downloads
  <1>4. CASE pc' = [pc EXCEPT ![c] = "idle"] /\ fresh' = TRUE /\ expiries' = expiries
    BY <1>2, <1>3, <1>4 DEF Downloads
  <1>5. CASE pc' = [pc EXCEPT ![c] = "waiting"] /\ fresh' = FALSE /\ expiries' = expiries + 1
    <2>1. fetches' <= expiries' + vain' /\ fetches' <= 1 + expiries' + vain'
      BY <1>3, <1>5
    <2>2. fetches' \in Nat /\ expiries' \in Nat /\ vain' \in Nat
      BY <1>3, <1>5
    <2> QED
      BY <1>2, <1>5, <2>1, <2>2 DEF Downloads
  <1> QED
    BY <1>1, <1>4, <1>5

LEMMA StepDownloads == Downloads /\ [Next]_vars => Downloads'
  <1> SUFFICES ASSUME Downloads, [Next]_vars PROVE Downloads'
    OBVIOUS
  <1>1. ASSUME NEW c \in Clients, NEW p \in Payloads, Ask(c, p) PROVE Downloads'
    BY <1>1, Unlocked DEF Ask, directory
  <1>2. ASSUME NEW c \in Clients, Look(c) PROVE Downloads'
    <2>1. CASE fresh
      <3>1. ~ Locked
        BY <2>1 DEF Downloads
      <3> QED
        BY <1>2, <2>1, <3>1, LookUpDownloads DEF Look
    <2>2. CASE ~ fresh
      BY <1>2, <2>2, Unlocked DEF Look, directory
    <2> QED
      BY <2>1, <2>2
  <1>3. ASSUME NEW c \in Clients, Acquire(c) PROVE Downloads'
    <2>1. CASE fresh
      BY <1>3, <2>1, LookUpDownloads DEF Acquire
    <2>2. CASE ~ fresh
      <3>1. /\ pc[c] = "waiting" /\ ~ Locked /\ fetches' = fetches + 1
            /\ pc' = [pc EXCEPT ![c] = "fetching"]
            /\ UNCHANGED <<fresh, expiries, vain>>
        BY <1>3, <2>2 DEF Acquire
      <3>2. \A a \in Clients : pc'[a] = "fetching" <=> a = c
        BY <3>1 DEF Downloads, Locked
      <3>3. Locked'
        BY <3>2 DEF Locked
      <3>4. pc' \in [Clients -> {"idle", "asking", "waiting", "fetching"}]
        BY <3>1 DEF Downloads
      <3> QED
        BY <2>2, <3>1, <3>2, <3>3, <3>4 DEF Downloads
    <2> QED
      BY <2>1, <2>2
  <1>4. ASSUME NEW c \in Clients, Fetched(c) PROVE Downloads'
    BY <1>4, LookUpDownloads DEF Fetched
  <1>5. ASSUME NEW c \in Clients, FetchFails(c) PROVE Downloads'
    <2>1. CASE entries # {}
      BY <1>5, <2>1, LookUpDownloads DEF FetchFails
    <2>2. CASE entries = {}
      <3>1. /\ pc[c] = "fetching" /\ pc' = [pc EXCEPT ![c] = "idle"]
            /\ vain' = vain + 1 /\ UNCHANGED <<fresh, expiries, fetches>>
        BY <1>5, <2>2 DEF FetchFails
      <3>2. /\ fetches \in Nat /\ expiries \in Nat /\ vain \in Nat
            /\ fetches <= 1 + expiries + vain
        BY DEF Downloads
      <3>3. fetches' \in Nat /\ expiries' \in Nat /\ vain' \in Nat
        BY <3>1, <3>2
      <3>4. fetches' <= expiries' + vain' /\ fetches' <= 1 + expiries' + vain'
        BY <3>1, <3>2
      <3>5. /\ pc' \in [Clients -> {"idle", "asking", "waiting", "fetching"}]
            /\ ~ Locked'
            /\ \A a, b \in Clients : pc'[a] = "fetching" /\ pc'[b] = "fetching" => a = b
        BY <3>1, Released
      <3>6. fresh' \in BOOLEAN
        BY <3>1 DEF Downloads
      <3> QED
        BY <3>3, <3>4, <3>5, <3>6 DEF Downloads
    <2> QED
      BY <2>1, <2>2
  <1>6. ASSUME Expire PROVE Downloads'
    <2>1. /\ fresh = TRUE /\ fresh' = FALSE /\ expiries' = expiries + 1
          /\ UNCHANGED <<vain, fetches, pc>>
      BY <1>6 DEF Expire, clients, Downloads
    <2>2. /\ fetches \in Nat /\ expiries \in Nat /\ vain \in Nat
          /\ fetches <= 1 + expiries + vain
      BY DEF Downloads
    <2>3. fetches' \in Nat /\ expiries' \in Nat /\ vain' \in Nat
      BY <2>1, <2>2
    <2>4. fetches' <= expiries' + vain' /\ fetches' <= 1 + expiries' + vain'
      BY <2>1, <2>2
    <2>5. fresh' = FALSE /\ pc' = pc
      BY <2>1
    <2>6. /\ pc \in [Clients -> {"idle", "asking", "waiting", "fetching"}]
          /\ \A c, d \in Clients : pc[c] = "fetching" /\ pc[d] = "fetching" => c = d
      BY DEF Downloads
    <2> QED
      BY <2>3, <2>4, <2>5, <2>6 DEF Downloads
  <1>7. ASSUME UNCHANGED <<directory, pc>> PROVE Downloads'
    BY <1>7 DEF Downloads, Locked, directory
  <1>8. ASSUME NEW k \in Calculators,
               Begin(k) \/ List(k) \/ Define(k) \/ LoadVersion(k) \/ Calculate(k)
               \/ Skip(k) \/ Commit(k)
        PROVE  Downloads'
    BY <1>7, <1>8 DEF Begin, List, Define, LoadVersion, Calculate, Skip, Commit, clients
  <1> QED
    BY <1>1, <1>2, <1>3, <1>4, <1>5, <1>6, <1>7, <1>8 DEF Next, vars, clients

\* However many requests find the directory expired at once (symbol_directory.py, the
\* second look at the expiry under the lock), it is downloaded once for each expiry.
THEOREM DownloadsNotRepeated == Spec => []OneFetchPerExpiry
  <1>1. Downloads => OneFetchPerExpiry
    BY DEF Downloads, OneFetchPerExpiry
  <1> QED
    BY <1>1, InitDownloads, StepDownloads, PTL DEF Spec

-----------------------------------------------------------------------------
(* Rows belong to their version, and are marked for what they are.         *)

IsDraft(d) == d = [step |-> d.step, symbols |-> d.symbols, version |-> d.version,
                   held |-> d.held, at |-> d.at, value |-> d.value, read |-> d.read]

\* What is saved are versions; an index that exists has one.
Configured ==
  /\ pc \in [Clients -> {"idle", "asking", "waiting", "fetching"}]
  /\ request \in [Clients -> Payloads \cup {None}]
  /\ \A c \in Clients : pc[c] # "idle" => request[c] \in Payloads
  /\ versions \in Seq(Version)
  /\ index # None => versions # <<>>

\* A calculation holds the definition of its version as it still is; what it is going
\* to commit was calculated from it, and does not put an estimate over a real value.
Drafts ==
  /\ calc = [k \in Calculators |-> calc[k]]
  /\ \A k \in Calculators :
       /\ IsDraft(calc[k])
       /\ calc[k].symbols \subseteq Symbols
       /\ calc[k].step \in {"listing", "defining"} => 1 \in 1..Len(versions)
       /\ calc[k].step \in {"defined", "commit"} =>
            calc[k].version \in 1..Len(versions) /\ calc[k].held = versions[calc[k].version]
       /\ calc[k].step = "commit" =>
            /\ calc[k].value \in Value
            /\ calc[k].value.weights = calc[k].held.weights
            /\ Usable(calc[k].held, calc[k].value.used)
            /\ Replaces(calc[k].read, calc[k].value.approximate)

Meets(v, row) ==
  /\ v \in 1..Len(versions)
  /\ row.value.weights = versions[v].weights
  /\ Usable(versions[v], row.value.used)

Honest(v, t) ==
  rows[v][t] # None /\ <<v, t>> \notin raced =>
    /\ rows[v][t].estimated = rows[v][t].value.approximate
    /\ <<v, t>> \in real => ~ rows[v][t].estimated

Stored ==
  /\ rows \in [VersionIds -> [Times -> Row \cup {None}]]
  /\ \A v \in VersionIds, t \in Times :
       /\ rows[v][t] # None => Meets(v, rows[v][t])
       /\ Honest(v, t)
       /\ <<v, t>> \in real => rows[v][t] # None

RInv == Configured /\ Drafts /\ Stored

LEMMA InitRInv == Init => RInv
  <1> SUFFICES ASSUME Init PROVE RInv
    OBVIOUS
  <1>1. Configured
    BY DEF Init, Configured
  <1>2. Drafts
    <2>1. \A k \in Calculators : calc[k] = Idle
      BY DEF Init
    <2>2. calc = [k \in Calculators |-> calc[k]]
      BY DEF Init
    <2>3. IsDraft(Idle) /\ Idle.symbols \subseteq Symbols /\ Idle.step = "idle"
      BY DEF IsDraft, Idle
    <2> QED
      BY <2>1, <2>2, <2>3 DEF Drafts
  <1>3. Stored
    <2>1. \A v \in VersionIds, t \in Times : rows[v][t] = None
      BY DEF Init
    <2>2. rows \in [VersionIds -> [Times -> Row \cup {None}]] /\ real = {}
      BY DEF Init
    <2> QED
      BY <2>1, <2>2 DEF Stored, Honest
  <1> QED
    BY <1>1, <1>2, <1>3 DEF RInv

-----------------------------------------------------------------------------
(* The configuration.                                                      *)

\* Versions are added and never changed.
Extended ==
  /\ versions' \in Seq(Version)
  /\ index' # None => versions' # <<>>
  /\ Len(versions) <= Len(versions')
  /\ \A v \in 1..Len(versions) : versions'[v] = versions[v]

LEMMA PersistExtends ==
  ASSUME Configured, NEW p \in Payloads, Persist(p)
  PROVE  Extended
  <1>1. [name |-> p.name, policy |-> p.policy, weights |-> p.weights] \in Version
    BY CustomIndexAssumption DEF Version
  <1>2. CASE Changed(p)
    BY <1>1, <1>2 DEF Persist, Extended, Configured
  <1>3. CASE ~ Changed(p)
    <2>1. versions # <<>> /\ versions' = versions
      BY <1>3 DEF Changed, Persist
    <2> QED
      BY <2>1 DEF Extended, Configured
  <1> QED
    BY <1>2, <1>3

LEMMA SameExtends ==
  ASSUME Configured, UNCHANGED config
  PROVE  Extended
  BY DEF Configured, Extended, config

LEMMA LookUpExtends ==
  ASSUME Configured, NEW c \in Clients, pc[c] # "idle", NEW listed, LookUp(c, listed)
  PROVE  Extended /\ Configured'
  <1>1. CASE Decide(c, listed)
    <2>1. Extended
      BY <1>1, PersistExtends, SameExtends DEF Decide, Configured
    <2> QED
      BY <1>1, <2>1 DEF Decide, Configured, Extended
  <1>2. CASE Lapse(c, listed)
    <2>1. Extended
      BY <1>2, SameExtends DEF Lapse
    <2>2. Configured'
      BY <1>2 DEF Lapse, Configured, config
    <2> QED
      BY <2>1, <2>2
  <1> QED
    BY <1>1, <1>2 DEF LookUp

LEMMA ExtendedKeeps ==
  ASSUME RInv, Extended, Configured', UNCHANGED results
  PROVE  RInv'
  <1>1. UNCHANGED <<rows, calc, real, raced>>
    BY DEF results
  <1>2. Len(versions) \in Nat /\ Len(versions') \in Nat
    BY DEF RInv, Configured, Extended
  <1>3. \A v : v \in 1..Len(versions) => v \in 1..Len(versions') /\ versions'[v] = versions[v]
    BY <1>2 DEF Extended
  <1>4. Drafts'
    BY <1>1, <1>3 DEF RInv, Drafts
  <1>5. Stored'
    <2>1. \A v, row : Meets(v, row) => Meets(v, row)'
      BY <1>3 DEF Meets
    <2>2. \A v, t : Honest(v, t)' <=> Honest(v, t)
      BY <1>1 DEF Honest
    <2> QED
      BY <1>1, <2>1, <2>2 DEF RInv, Stored
  <1> QED
    BY <1>4, <1>5 DEF RInv

LEMMA ClientsKeep ==
  ASSUME RInv, NEW c \in Clients,
         \/ \E p \in Payloads : Ask(c, p)
         \/ Look(c) \/ Acquire(c) \/ Fetched(c) \/ FetchFails(c)
  PROVE  RInv'
  <1>0. Configured
    BY DEF RInv
  <1>1. ASSUME NEW p \in Payloads, Ask(c, p) PROVE Extended /\ Configured' /\ UNCHANGED results
    <2>1. Extended /\ UNCHANGED results /\ UNCHANGED config
      BY <1>0, <1>1, SameExtends DEF Ask
    <2>2. Configured'
      BY <1>0, <1>1 DEF Ask, Configured, config
    <2> QED
      BY <2>1, <2>2
  <1>2. ASSUME UNCHANGED <<config, request>>, NEW step \in {"waiting", "fetching"},
               pc[c] # "idle", pc' = [pc EXCEPT ![c] = step]
        PROVE  Extended /\ Configured'
    <2>1. Extended
      BY <1>0, <1>2, SameExtends
    <2>2. Configured'
      BY <1>0, <1>2 DEF Configured, config
    <2> QED
      BY <2>1, <2>2
  <1>3. ASSUME Look(c) PROVE Extended /\ Configured' /\ UNCHANGED results
    <2>1. pc[c] # "idle" /\ UNCHANGED results
      BY <1>3 DEF Look
    <2>2. CASE fresh
      BY <1>0, <1>3, <2>1, <2>2, LookUpExtends DEF Look
    <2>3. CASE ~ fresh
      BY <1>2, <1>3, <2>1, <2>3 DEF Look, config
    <2> QED
      BY <2>1, <2>2, <2>3
  <1>4. ASSUME Acquire(c) PROVE Extended /\ Configured' /\ UNCHANGED results
    <2>1. pc[c] # "idle" /\ UNCHANGED results
      BY <1>4 DEF Acquire
    <2>2. CASE fresh
      BY <1>0, <1>4, <2>1, <2>2, LookUpExtends DEF Acquire
    <2>3. CASE ~ fresh
      BY <1>2, <1>4, <2>1, <2>3 DEF Acquire, config
    <2> QED
      BY <2>1, <2>2, <2>3
  <1>5. ASSUME Fetched(c) PROVE Extended /\ Configured' /\ UNCHANGED results
    BY <1>0, <1>5, LookUpExtends DEF Fetched
  <1>6. ASSUME FetchFails(c) PROVE Extended /\ Configured' /\ UNCHANGED results
    <2>1. pc[c] # "idle" /\ UNCHANGED results
      BY <1>6 DEF FetchFails
    <2>2. CASE entries # {}
      BY <1>0, <1>6, <2>1, <2>2, LookUpExtends DEF FetchFails
    <2>3. CASE entries = {}
      <3>1. /\ pc' = [pc EXCEPT ![c] = "idle"] /\ request' = [request EXCEPT ![c] = None]
            /\ UNCHANGED config
        BY <1>6, <2>3 DEF FetchFails
      <3>2. Extended
        BY <1>0, <3>1, SameExtends
      <3>3. Configured'
        BY <1>0, <3>1 DEF Configured, config
      <3> QED
        BY <2>1, <3>2, <3>3
    <2> QED
      BY <2>1, <2>2, <2>3
  <1> QED
    BY <1>1, <1>3, <1>4, <1>5, <1>6, ExtendedKeeps

-----------------------------------------------------------------------------
(* The calculations.                                                       *)

\* A draft that k can have.
Sound(d) ==
  /\ IsDraft(d)
  /\ d.symbols \subseteq Symbols
  /\ d.step \in {"listing", "defining"} => 1 \in 1..Len(versions)
  /\ d.step \in {"defined", "commit"} =>
       d.version \in 1..Len(versions) /\ d.held = versions[d.version]
  /\ d.step = "commit" =>
       /\ d.value \in Value
       /\ d.value.weights = d.held.weights
       /\ Usable(d.held, d.value.used)
       /\ Replaces(d.read, d.value.approximate)

LEMMA IdleSound == Sound(Idle)
  BY DEF Sound, Idle, IsDraft

LEMMA DraftsSound == Drafts <=> calc = [k \in Calculators |-> calc[k]]
                                /\ \A k \in Calculators : Sound(calc[k])
  BY DEF Drafts, Sound

LEMMA DraftKeeps ==
  ASSUME RInv, NEW k \in Calculators, NEW d, Sound(d), calc' = [calc EXCEPT ![k] = d],
         UNCHANGED <<pc, request, config>>
  PROVE  Configured' /\ Drafts'
  <1>1. Configured' /\ versions' = versions
    BY DEF RInv, Configured, config
  <1>2. calc = [j \in Calculators |-> calc[j]] /\ \A j \in Calculators : Sound(calc[j])
    BY DraftsSound DEF RInv
  <1>3. \A j \in Calculators : calc'[j] = IF j = k THEN d ELSE calc[j]
    BY <1>2
  <1>4. calc' = [j \in Calculators |-> calc'[j]]
    BY <1>2
  <1>5. \A j \in Calculators : Sound(calc'[j])
    BY <1>2, <1>3
  <1>7. \A j \in Calculators : Sound(calc[j])'
    BY <1>1, <1>5 DEF Sound
  <1> QED
    BY <1>1, <1>4, <1>7 DEF Drafts, Sound

LEMMA StoredKeeps ==
  ASSUME RInv, UNCHANGED <<rows, real, raced, config>>
  PROVE  Stored'
  BY DEF RInv, Stored, Honest, Meets, config

LEMMA BegunDraft ==
  ASSUME NEW d, IsDraft(d), NEW step, NEW symbols
  PROVE  [d EXCEPT !.step = step, !.symbols = symbols] =
               [step |-> step, symbols |-> symbols, version |-> d.version, held |-> d.held,
                at |-> d.at, value |-> d.value, read |-> d.read]
  <1> DEFINE e == [d EXCEPT !.step = step, !.symbols = symbols]
             names == {"step", "symbols", "version", "held", "at", "value", "read"}
  <1>1. DOMAIN d = names /\ d = [n \in names |-> d[n]]
    BY DEF IsDraft
  <1>2. DOMAIN e = names /\ e = [n \in names |-> e[n]]
    BY <1>1
  <1>3. e.step = step /\ e.symbols = symbols /\ e.version = d.version /\ e.held = d.held
        /\ e.at = d.at /\ e.value = d.value /\ e.read = d.read
    BY <1>1
  <1> HIDE DEF e
  <1>4. e = [step |-> step, symbols |-> symbols, version |-> d.version, held |-> d.held,
                at |-> d.at, value |-> d.value, read |-> d.read]
    BY <1>2, <1>3
  <1> QED
    BY <1>4 DEF e

LEMMA DefinedDraft ==
  ASSUME NEW d, IsDraft(d), NEW step, NEW version, NEW held
  PROVE  [d EXCEPT !.step = step, !.version = version, !.held = held] =
               [step |-> step, symbols |-> d.symbols, version |-> version, held |-> held,
                at |-> d.at, value |-> d.value, read |-> d.read]
  <1> DEFINE e == [d EXCEPT !.step = step, !.version = version, !.held = held]
             names == {"step", "symbols", "version", "held", "at", "value", "read"}
  <1>1. DOMAIN d = names /\ d = [n \in names |-> d[n]]
    BY DEF IsDraft
  <1>2. DOMAIN e = names /\ e = [n \in names |-> e[n]]
    BY <1>1
  <1>3. e.step = step /\ e.symbols = d.symbols /\ e.version = version /\ e.held = held
        /\ e.at = d.at /\ e.value = d.value /\ e.read = d.read
    BY <1>1
  <1> HIDE DEF e
  <1>4. e = [step |-> step, symbols |-> d.symbols, version |-> version, held |-> held,
                at |-> d.at, value |-> d.value, read |-> d.read]
    BY <1>2, <1>3
  <1> QED
    BY <1>4 DEF e

LEMMA StepDraft ==
  ASSUME NEW d, IsDraft(d), NEW step
  PROVE  [d EXCEPT !.step = step] =
               [step |-> step, symbols |-> d.symbols, version |-> d.version, held |-> d.held,
                at |-> d.at, value |-> d.value, read |-> d.read]
  <1> DEFINE e == [d EXCEPT !.step = step]
             names == {"step", "symbols", "version", "held", "at", "value", "read"}
  <1>1. DOMAIN d = names /\ d = [n \in names |-> d[n]]
    BY DEF IsDraft
  <1>2. DOMAIN e = names /\ e = [n \in names |-> e[n]]
    BY <1>1
  <1>3. e.step = step /\ e.symbols = d.symbols /\ e.version = d.version /\ e.held = d.held
        /\ e.at = d.at /\ e.value = d.value /\ e.read = d.read
    BY <1>1
  <1> HIDE DEF e
  <1>4. e = [step |-> step, symbols |-> d.symbols, version |-> d.version, held |-> d.held,
                at |-> d.at, value |-> d.value, read |-> d.read]
    BY <1>2, <1>3
  <1> QED
    BY <1>4 DEF e

\* The configuration in force is a version.
LEMMA LatestVersion ==
  ASSUME Configured, versions # <<>>
  PROVE  /\ Latest \in Version /\ Latest = versions[Len(versions)]
         /\ Len(versions) \in 1..Len(versions) /\ 1 \in 1..Len(versions)
         /\ DOMAIN Latest.weights \subseteq Symbols
  <1>1. Latest \in Version /\ Latest = versions[Len(versions)]
    BY DEF Latest, Configured
  <1>2. Len(versions) \in 1..Len(versions) /\ 1 \in 1..Len(versions)
    BY DEF Configured
  <1>3. Latest.weights \in Weights
    BY <1>1 DEF Version
  <1>4. DOMAIN Latest.weights \subseteq Symbols
    BY <1>3 DEF Weights
  <1> QED
    BY <1>1, <1>2, <1>4

LEMMA BeginKeeps ==
  ASSUME RInv, NEW k \in Calculators, Begin(k)
  PROVE  RInv'
  <1> DEFINE step == IF Enabled THEN "listing" ELSE "symbols"
             d == [Idle EXCEPT !.step = step, !.symbols = Universe]
  <1>1. Sound(d)
    <2>1. Universe \subseteq Symbols /\ IsDraft(Idle)
      BY CustomIndexAssumption DEF IsDraft, Idle
    <2>2. /\ step \in {"listing", "symbols"}
          /\ step = "listing" => 1 \in 1..Len(versions)
      BY LatestVersion DEF Enabled, RInv, Configured
    <2> HIDE DEF step
    <2>3. d = [step |-> step, symbols |-> Universe, version |-> Idle.version,
               held |-> Idle.held, at |-> Idle.at, value |-> Idle.value, read |-> Idle.read]
      BY <2>1, BegunDraft
    <2> HIDE DEF d
    <2>4. d.step = step /\ d.symbols = Universe /\ IsDraft(d)
      BY <2>3 DEF IsDraft
    <2> QED
      BY <2>1, <2>2, <2>4 DEF Sound
  <1>2. calc' = [calc EXCEPT ![k] = d] /\ UNCHANGED <<pc, request, config>>
    BY DEF Begin, clients
  <1>3. UNCHANGED <<rows, real, raced, config>>
    BY DEF Begin
  <1> HIDE DEF d
  <1> QED
    BY <1>1, <1>2, <1>3, DraftKeeps, StoredKeeps DEF RInv

LEMMA ListKeeps ==
  ASSUME RInv, NEW k \in Calculators, List(k)
  PROVE  RInv'
  <1> DEFINE loaded == calc[k].symbols \cup DOMAIN Latest.weights
             d == [calc[k] EXCEPT !.step = "symbols", !.symbols = loaded]
  <1>1. Sound(calc[k]) /\ calc[k].step = "listing"
    BY DraftsSound DEF RInv, List
  <1>2. Sound(d)
    <2>1. IsDraft(calc[k]) /\ calc[k].symbols \subseteq Symbols /\ versions # <<>>
      BY <1>1 DEF Sound
    <2>2. loaded \subseteq Symbols
      BY <2>1, LatestVersion DEF RInv
    <2> HIDE DEF loaded
    <2>3. d = [step |-> "symbols", symbols |-> loaded, version |-> calc[k].version,
               held |-> calc[k].held, at |-> calc[k].at, value |-> calc[k].value,
               read |-> calc[k].read]
      BY <2>1, BegunDraft
    <2> HIDE DEF d
    <2>4. d.step = "symbols" /\ d.symbols = loaded /\ IsDraft(d)
      BY <2>3 DEF IsDraft
    <2> QED
      BY <2>2, <2>4 DEF Sound
  <1>3. calc' = [calc EXCEPT ![k] = d] /\ UNCHANGED <<pc, request, config>>
    <2>1. calc = [j \in Calculators |-> calc[j]]
      BY DEF RInv, Drafts
    <2> QED
      BY <2>1 DEF List, clients
  <1>4. UNCHANGED <<rows, real, raced, config>>
    BY DEF List
  <1> HIDE DEF d
  <1> QED
    BY <1>2, <1>3, <1>4, DraftKeeps, StoredKeeps DEF RInv

LEMMA DefineKeeps ==
  ASSUME RInv, NEW k \in Calculators, Define(k)
  PROVE  RInv'
  <1> DEFINE e == [calc[k] EXCEPT !.step = "defining"]
             d == IF Enabled THEN e ELSE Idle
  <1>1. Enabled => Sound(e)
    <2> SUFFICES ASSUME Enabled PROVE Sound(e)
      OBVIOUS
    <2>1. 1 \in 1..Len(versions)
      BY LatestVersion DEF Enabled, RInv, Configured
    <2>2. IsDraft(calc[k]) /\ calc[k].symbols \subseteq Symbols
      BY DraftsSound DEF RInv, Sound
    <2>3. e = [step |-> "defining", symbols |-> calc[k].symbols, version |-> calc[k].version,
               held |-> calc[k].held, at |-> calc[k].at, value |-> calc[k].value,
               read |-> calc[k].read]
      BY <2>2, StepDraft
    <2> HIDE DEF e
    <2>4. e.step = "defining" /\ e.symbols = calc[k].symbols /\ IsDraft(e)
      BY <2>3 DEF IsDraft
    <2> QED
      BY <2>1, <2>2, <2>4 DEF Sound
  <1>2. Sound(d)
    BY <1>1, IdleSound
  <1>3. calc' = [calc EXCEPT ![k] = d] /\ UNCHANGED <<pc, request, config>>
    <2>1. calc = [j \in Calculators |-> calc[j]]
      BY DEF RInv, Drafts
    <2> QED
      BY <2>1 DEF Define, clients
  <1>4. UNCHANGED <<rows, real, raced, config>>
    BY DEF Define
  <1> HIDE DEF d
  <1> QED
    BY <1>2, <1>3, <1>4, DraftKeeps, StoredKeeps DEF RInv

LEMMA LoadVersionKeeps ==
  ASSUME RInv, NEW k \in Calculators, LoadVersion(k)
  PROVE  RInv'
  <1> DEFINE d == [calc[k] EXCEPT !.step = "defined", !.version = Len(versions), !.held = Latest]
  <1>1. Sound(calc[k]) /\ calc[k].step = "defining"
    BY DraftsSound DEF RInv, LoadVersion
  <1>2. Sound(d)
    <2>1. IsDraft(calc[k]) /\ versions # <<>>
      BY <1>1 DEF Sound
    <2>2. Len(versions) \in 1..Len(versions) /\ Latest = versions[Len(versions)]
      BY <2>1, LatestVersion DEF RInv
    <2>3. d = [step |-> "defined", symbols |-> calc[k].symbols, version |-> Len(versions),
               held |-> Latest, at |-> calc[k].at, value |-> calc[k].value,
               read |-> calc[k].read]
      BY <2>1, DefinedDraft
    <2> HIDE DEF d
    <2>4. /\ IsDraft(d) /\ d.symbols = calc[k].symbols /\ d.step = "defined"
          /\ d.version = Len(versions) /\ d.held = Latest
      BY <2>3 DEF IsDraft
    <2> QED
      BY <1>1, <2>2, <2>4 DEF Sound
  <1>3. calc' = [calc EXCEPT ![k] = d] /\ UNCHANGED <<pc, request, config>>
    <2>1. calc = [j \in Calculators |-> calc[j]]
      BY DEF RInv, Drafts
    <2> QED
      BY <2>1 DEF LoadVersion, clients
  <1>4. UNCHANGED <<rows, real, raced, config>>
    BY DEF LoadVersion
  <1> HIDE DEF d
  <1> QED
    BY <1>2, <1>3, <1>4, DraftKeeps, StoredKeeps DEF RInv

LEMMA CalculateKeeps ==
  ASSUME RInv, NEW k \in Calculators, Calculate(k)
  PROVE  RInv'
  <1>1. Sound(calc[k]) /\ calc = [j \in Calculators |-> calc[j]]
    BY DraftsSound DEF RInv
  <1>2. PICK t \in Times, approximate \in BOOLEAN,
             used \in SUBSET (DOMAIN calc[k].held.weights \cap calc[k].symbols) :
          /\ Usable(calc[k].held, used)
          /\ calc' = [calc EXCEPT ![k] =
               IF Replaces(rows[calc[k].version][t], approximate)
               THEN [@ EXCEPT !.step = "commit", !.at = t,
                              !.read = rows[calc[k].version][t],
                              !.value = [weights |-> calc[k].held.weights, used |-> used,
                                         approximate |-> approximate]]
               ELSE Idle]
    BY DEF Calculate
  <1> DEFINE value == [weights |-> calc[k].held.weights, used |-> used,
                       approximate |-> approximate]
             read == rows[calc[k].version][t]
             e == [calc[k] EXCEPT !.step = "commit", !.at = t, !.read = read, !.value = value]
             d == IF Replaces(read, approximate) THEN e ELSE Idle
  <1>3. value \in Value
    <2>1. calc[k].held \in Version
      BY <1>1 DEF Calculate, Sound, RInv, Configured
    <2>2. calc[k].held.weights \in Weights
      BY <2>1 DEF Version
    <2>3. used \subseteq Symbols
      BY <1>1 DEF Sound
    <2> QED
      BY <2>2, <2>3 DEF Value
  <1>4. Replaces(read, approximate) => Sound(e)
    <2> SUFFICES ASSUME Replaces(read, approximate) PROVE Sound(e)
      OBVIOUS
    <2>1. /\ IsDraft(e) /\ e.symbols = calc[k].symbols /\ e.step = "commit"
          /\ e.version = calc[k].version /\ e.held = calc[k].held
          /\ e.read = read /\ e.value = value
      <3>1. IsDraft(calc[k])
        BY <1>1 DEF Sound
      <3> HIDE DEF read, value
      <3>3. e = [step |-> "commit", symbols |-> calc[k].symbols, version |-> calc[k].version,
                 held |-> calc[k].held, at |-> t, value |-> value, read |-> read]
        <4> DEFINE names == {"step", "symbols", "version", "held", "at", "value", "read"}
        <4>1. DOMAIN calc[k] = names /\ calc[k] = [n \in names |-> calc[k][n]]
          BY <3>1 DEF IsDraft
        <4>2. DOMAIN e = names /\ e = [n \in names |-> e[n]]
          BY <4>1
        <4>3. /\ e.step = "commit" /\ e.at = t /\ e.read = read /\ e.value = value
              /\ e.symbols = calc[k].symbols /\ e.version = calc[k].version
              /\ e.held = calc[k].held
          BY <4>1
        <4> HIDE DEF e
        <4> QED
          BY <4>2, <4>3
      <3> HIDE DEF e
      <3> QED
        BY <3>3 DEF IsDraft
    <2>2. calc[k].version \in 1..Len(versions) /\ calc[k].held = versions[calc[k].version]
      BY <1>1 DEF Sound, Calculate
    <2>3. value.weights = calc[k].held.weights /\ value.used = used
          /\ value.approximate = approximate
      OBVIOUS
    <2> QED
      BY <1>1, <1>2, <1>3, <2>1, <2>2, <2>3 DEF Sound
  <1>5. Sound(d)
    BY <1>4, IdleSound
  <1>6. calc' = [calc EXCEPT ![k] = d]
    BY <1>1, <1>2
  <1>7. UNCHANGED <<pc, request, config, rows, real, raced>>
    BY DEF Calculate, clients
  <1> HIDE DEF d
  <1> QED
    BY <1>5, <1>6, <1>7, DraftKeeps, StoredKeeps DEF RInv

LEMMA SkipKeeps ==
  ASSUME RInv, NEW k \in Calculators, Skip(k)
  PROVE  RInv'
  BY IdleSound, DraftKeeps, StoredKeeps DEF RInv, Skip, clients

LEMMA CommitKeeps ==
  ASSUME RInv, NEW k \in Calculators, Commit(k)
  PROVE  RInv'
  <1> DEFINE u == calc[k].version
             s == calc[k].at
             read == calc[k].read
             value == calc[k].value
  <1>1. Configured' /\ Drafts'
    <2>1. calc' = [calc EXCEPT ![k] = Idle] /\ UNCHANGED <<pc, request, config>>
      BY DEF Commit, clients
    <2> QED
      BY <2>1, IdleSound, DraftKeeps
  <1>2. versions' = versions
    BY DEF Commit, config
  <1>3. /\ value \in Value /\ Replaces(read, value.approximate)
        /\ u \in 1..Len(versions)
        /\ value.weights = versions[u].weights /\ Usable(versions[u], value.used)
    BY DraftsSound DEF RInv, Sound, Commit
  <1>4. CASE (read = None) # (rows[u][s] = None)
    <2>1. UNCHANGED <<rows, real, raced, config>>
      BY <1>4 DEF Commit
    <2> QED
      BY <1>1, <2>1, StoredKeeps DEF RInv
  <1>5. CASE (read = None) <=> (rows[u][s] = None)
    <2> DEFINE new == IF read = None THEN [value |-> value, estimated |-> value.approximate]
                      ELSE Updated(rows[u][s], read, value)
    <2>1. /\ rows' = [rows EXCEPT ![u][s] = new]
          /\ real' = IF value.approximate THEN real ELSE real \cup {<<u, s>>}
          /\ raced' = IF rows[u][s] # read THEN raced \cup {<<u, s>>} ELSE raced
      BY <1>5 DEF Commit
    <2>2. rows \in [VersionIds -> [Times -> Row \cup {None}]] /\ None \notin Row
      BY CustomIndexAssumption DEF RInv, Stored
    <2>3. value.approximate \in BOOLEAN
      BY <1>3 DEF Value
    <2>4. ASSUME u \in VersionIds, s \in Times
          PROVE  /\ new \in Row
                 /\ Meets(u, new)
                 /\ rows[u][s] = read => new.value = value /\ new.estimated = value.approximate
      <3>1. CASE read = None
        <4>1. new = [value |-> value, estimated |-> value.approximate]
          BY <3>1
        <4> HIDE DEF new
        <4>2. new \in Row /\ new.value = value /\ new.estimated = value.approximate
          BY <1>3, <2>3, <4>1 DEF Row
        <4> QED
          BY <1>3, <4>2 DEF Meets
      <3>2. CASE read # None
        <4>1. rows[u][s] \in Row /\ Meets(u, rows[u][s])
          BY <1>5, <2>2, <2>4, <3>2 DEF RInv, Stored
        <4>2. new = [value |-> IF value # read.value THEN value ELSE rows[u][s].value,
                     estimated |-> IF value.approximate # read.estimated
                                   THEN value.approximate ELSE rows[u][s].estimated]
          BY <3>2 DEF Updated
        <4> HIDE DEF new
        <4>3. /\ new.value = IF value # read.value THEN value ELSE rows[u][s].value
              /\ new.estimated = IF value.approximate # read.estimated
                                 THEN value.approximate ELSE rows[u][s].estimated
          BY <4>2
        <4>4. rows[u][s].value \in Value /\ rows[u][s].estimated \in BOOLEAN
          BY <4>1 DEF Row
        <4>5. new \in Row
          BY <1>3, <2>3, <4>2, <4>4 DEF Row
        <4>6. Meets(u, new)
          BY <1>3, <4>1, <4>3 DEF Meets
        <4>7. rows[u][s] = read => new.value = value /\ new.estimated = value.approximate
          BY <4>3
        <4> QED
          BY <4>5, <4>6, <4>7
      <3> QED
        BY <3>1, <3>2
    <2> HIDE DEF new
    <2>5. \A v \in VersionIds, t \in Times :
            rows'[v][t] = IF v = u /\ t = s THEN new ELSE rows[v][t]
      BY <2>1, <2>2
    <2>6. rows' \in [VersionIds -> [Times -> Row \cup {None}]]
      <3>1. CASE u \in VersionIds /\ s \in Times
        <4>1. [rows[u] EXCEPT ![s] = new] \in [Times -> Row \cup {None}]
          BY <2>2, <2>4, <3>1
        <4> QED
          BY <2>1, <2>2, <4>1
      <3>2. CASE u \notin VersionIds
        BY <2>1, <2>2, <3>2
      <3>3. CASE u \in VersionIds /\ s \notin Times
        <4>1. [rows[u] EXCEPT ![s] = new] = rows[u]
          BY <2>2, <3>3
        <4> QED
          BY <2>1, <2>2, <4>1
      <3> QED
        BY <3>1, <3>2, <3>3
    <2>7. ASSUME NEW v \in VersionIds, NEW t \in Times
          PROVE  /\ (rows[v][t] # None => Meets(v, rows[v][t]))'
                 /\ Honest(v, t)'
                 /\ (<<v, t>> \in real => rows[v][t] # None)'
      <3>1. CASE v = u /\ t = s
        <4>1. rows'[v][t] = new /\ new \in Row /\ new # None /\ Meets(u, new)
          BY <2>2, <2>4, <2>5, <3>1
        <4>2. Meets(v, rows[v][t])'
          BY <1>2, <3>1, <4>1 DEF Meets
        <4>3. Honest(v, t)'
          <5> SUFFICES ASSUME <<v, t>> \notin raced'
                       PROVE  /\ new.estimated = new.value.approximate
                              /\ <<v, t>> \in real' => ~ new.estimated
            BY <4>1 DEF Honest
          <5>1. rows[u][s] = read /\ <<u, s>> \notin raced
            BY <2>1, <3>1
          <5>2. new.value = value /\ new.estimated = value.approximate
            BY <2>4, <3>1, <5>1
          <5>3. ASSUME <<u, s>> \in real PROVE ~ value.approximate
            <6>1. read # None /\ ~ read.estimated
              BY <3>1, <5>1, <5>3 DEF RInv, Stored, Honest
            <6> QED
              BY <1>3, <6>1 DEF Replaces
          <5>4. <<u, s>> \in real' => ~ value.approximate
            BY <2>1, <5>3
          <5> QED
            BY <3>1, <5>2, <5>4
        <4> QED
          BY <4>1, <4>2, <4>3
      <3>2. CASE ~ (v = u /\ t = s)
        <4>1. rows'[v][t] = rows[v][t]
          BY <2>5, <3>2
        <4>2. <<v, t>> # <<u, s>>
          BY <3>2
        <4>3. (<<v, t>> \in real' <=> <<v, t>> \in real) /\ (<<v, t>> \in raced' <=> <<v, t>> \in raced)
          BY <2>1, <4>2
        <4> QED
          BY <1>2, <4>1, <4>3 DEF RInv, Stored, Honest, Meets
      <3> QED
        BY <3>1, <3>2
    <2> QED
      BY <1>1, <2>6, <2>7 DEF RInv, Stored
  <1> QED
    BY <1>4, <1>5

LEMMA StepRInv == RInv /\ [Next]_vars => RInv'
  <1> SUFFICES ASSUME RInv, [Next]_vars PROVE RInv'
    OBVIOUS
  <1>1. CASE \E c \in Clients : \/ \E p \in Payloads : Ask(c, p)
                                \/ Look(c) \/ Acquire(c) \/ Fetched(c) \/ FetchFails(c)
    BY <1>1, ClientsKeep
  <1>2. CASE \E k \in Calculators :
               Begin(k) \/ List(k) \/ Define(k) \/ LoadVersion(k) \/ Calculate(k) \/ Skip(k)
               \/ Commit(k)
    BY <1>2, BeginKeeps, ListKeeps, DefineKeeps, LoadVersionKeeps, CalculateKeeps, SkipKeeps,
       CommitKeeps
  <1>3. ASSUME UNCHANGED <<clients, config, results>> PROVE RInv'
    <2>1. Configured'
      BY <1>3 DEF RInv, Configured, clients, config
    <2> QED
      BY <1>3, <2>1, SameExtends, ExtendedKeeps DEF RInv
  <1>4. CASE Expire
    BY <1>3, <1>4 DEF Expire
  <1>5. CASE UNCHANGED vars
    BY <1>3, <1>5 DEF vars
  <1> QED
    BY <1>1, <1>2, <1>4, <1>5 DEF Next

\* A calculation that runs while the owner saves another configuration stores its result
\* under the version it was calculated with (save_custom_result), and that version still
\* says what it said.
THEOREM RowsBelong == Spec => []RowsMeetTheirVersion
  <1>1. RInv => RowsMeetTheirVersion
    <2> SUFFICES ASSUME RInv, NEW v \in VersionIds, NEW t \in Times, rows[v][t] # None
                 PROVE  /\ v \in DOMAIN versions
                        /\ rows[v][t].value.weights = versions[v].weights
                        /\ IF versions[v].policy = "STRICT"
                           THEN rows[v][t].value.used = DOMAIN versions[v].weights
                           ELSE Coverage(versions[v].weights, rows[v][t].value.used) >= 50
      BY DEF RowsMeetTheirVersion
    <2>1. Meets(v, rows[v][t])
      BY DEF RInv, Stored
    <2>2. DOMAIN versions = 1..Len(versions)
      BY DEF RInv, Configured
    <2> QED
      BY <2>1, <2>2 DEF Meets, Usable
  <1> QED
    BY <1>1, InitRInv, StepRInv, PTL DEF Spec

\* save_custom_result never puts an estimate over a real value, and its mark is true, as
\* long as no two calculations update the row at once.
THEOREM MarksAreHonest == Spec => []HonestRows
  <1>1. RInv => HonestRows
    BY DEF RInv, Stored, Honest, HonestRows
  <1> QED
    BY <1>1, InitRInv, StepRInv, PTL DEF Spec
-----------------------------------------------------------------------------
(* The types of the module: a directory once there is one, and as many      *)
(* versions as were asked for.                                             *)

Listed == /\ entries \subseteq Symbols /\ fresh \in BOOLEAN
          /\ fresh = TRUE => entries # {}
          /\ left \in [Clients -> SUBSET Symbols]

Busy == {c \in Clients : pc[c] # "idle"}

\* A version is made by a request, and the requests in progress have made none yet.
Counted == /\ saves \in Nat /\ saves <= MaxSaves
           /\ IsFiniteSet(Busy) /\ Len(versions) + Cardinality(Busy) <= saves

DraftTypes == calc \in [Calculators -> Draft]

TInv == RInv /\ Listed /\ Counted /\ index \in Index \cup {None} /\ DraftTypes

LEMMA InitTInv == Init => TInv
  <1> SUFFICES ASSUME Init PROVE TInv
    OBVIOUS
  <1>1. Busy = {} /\ IsFiniteSet(Busy) /\ Cardinality(Busy) = 0
    <2>1. Busy = {}
      BY DEF Init, Busy
    <2> QED
      BY <2>1, FS_EmptySet
  <1>2. Counted
    BY <1>1, CustomIndexAssumption DEF Init, Counted
  <1>3. Listed /\ index \in Index \cup {None}
    BY DEF Init, Listed
  <1>4. Idle \in Draft
    BY CustomIndexAssumption DEF Idle, Draft
  <1>5. DraftTypes
    BY <1>4 DEF Init, DraftTypes
  <1> QED
    BY <1>2, <1>3, <1>5, InitRInv DEF TInv

\* A request that is decided is no longer in progress, and has made one version at most.
LEMMA DecideCounted ==
  ASSUME TInv, NEW c \in Clients, pc[c] # "idle", NEW listed, Decide(c, listed), saves' = saves
  PROVE  Counted' /\ index' \in Index \cup {None}
  <1>1. request[c] \in Payloads /\ versions \in Seq(Version) /\ pc' = [pc EXCEPT ![c] = "idle"]
    BY DEF TInv, RInv, Configured, Decide
  <1>2. Busy' = Busy \ {c} /\ c \in Busy
    BY <1>1 DEF TInv, RInv, Configured, Busy
  <1>3. /\ IsFiniteSet(Busy') /\ Cardinality(Busy) \in Nat /\ Cardinality(Busy') \in Nat
        /\ Cardinality(Busy') = Cardinality(Busy) - 1
    BY <1>2, FS_RemoveElement, FS_CardinalityType DEF TInv, Counted
  <1>4. Len(versions') \in Nat /\ Len(versions) \in Nat /\ Len(versions') <= Len(versions) + 1
    <2>1. Persist(request[c]) \/ versions' = versions
      BY DEF Decide, config
    <2> QED
      BY <1>1, <2>1 DEF Persist
  <1>5. Counted'
    BY <1>3, <1>4 DEF TInv, Counted
  <1>6. index' \in Index \cup {None}
    <2>1. CASE UNCHANGED config
      BY <2>1 DEF config, TInv
    <2>2. CASE Persist(request[c])
      <3>1. request[c].enabled \in BOOLEAN /\ request[c].policy \in Policies
        BY <1>1, CustomIndexAssumption
      <3>2. index' = [enabled |-> request[c].enabled, policy |-> request[c].policy]
        BY <2>2 DEF Persist
      <3> QED
        BY <3>1, <3>2 DEF Index
    <2> QED
      BY <2>1, <2>2 DEF Decide
  <1> QED
    BY <1>5, <1>6

\* It waits or downloads, or is answered without a directory.
LEMMA WaitCounted ==
  ASSUME TInv, NEW c \in Clients, pc[c] # "idle", UNCHANGED <<saves, config>>,
         NEW step, pc' = [pc EXCEPT ![c] = step]
  PROVE  Counted' /\ index' \in Index \cup {None}
  <1>1. Busy' \subseteq Busy
    BY DEF TInv, RInv, Configured, Busy
  <1>2. /\ IsFiniteSet(Busy') /\ Cardinality(Busy) \in Nat /\ Cardinality(Busy') \in Nat
        /\ Cardinality(Busy') <= Cardinality(Busy)
    BY <1>1, FS_Subset, FS_CardinalityType DEF TInv, Counted
  <1>3. Len(versions) \in Nat /\ versions' = versions /\ index' = index
    BY DEF TInv, RInv, Configured, config
  <1> QED
    BY <1>2, <1>3 DEF TInv, Counted

\* A request looks up names: it is decided, or goes on waiting with fewer of them.
LEMMA LookUpCounted ==
  ASSUME TInv, NEW c \in Clients, pc[c] # "idle", NEW listed, LookUp(c, listed), saves' = saves,
         entries' \subseteq Symbols, entries' # {}
  PROVE  Listed' /\ Counted' /\ index' \in Index \cup {None}
  <1>1. left \in [Clients -> SUBSET Symbols]
    BY DEF TInv, Listed
  <1>2. CASE Decide(c, listed)
    <2>1. left' = [left EXCEPT ![c] = {}] /\ fresh' = TRUE
      BY <1>2 DEF Decide
    <2> QED
      BY <1>1, <1>2, <2>1, DecideCounted DEF Listed
  <1>3. CASE Lapse(c, listed)
    <2>1. /\ fresh' = FALSE /\ pc' = [pc EXCEPT ![c] = "waiting"] /\ UNCHANGED config
          /\ \E found : left' = [left EXCEPT ![c] = @ \ found]
      BY <1>3 DEF Lapse
    <2>2. left' \in [Clients -> SUBSET Symbols]
      BY <1>1, <2>1
    <2> QED
      BY <2>1, <2>2, WaitCounted DEF Listed
  <1> QED
    BY <1>2, <1>3 DEF LookUp

LEMMA ClientsTyped ==
  ASSUME TInv, RInv', NEW c \in Clients,
         \/ \E p \in Payloads : Ask(c, p)
         \/ Look(c) \/ Acquire(c) \/ Fetched(c) \/ FetchFails(c)
  PROVE  TInv'
  <1> SUFFICES Listed' /\ Counted' /\ index' \in Index \cup {None} /\ DraftTypes'
    BY DEF TInv
  <1>1. DraftTypes'
    BY DEF Ask, Look, Acquire, Fetched, FetchFails, results, TInv, DraftTypes
  <1>2. ASSUME NEW p \in Payloads, Ask(c, p)
        PROVE  Listed' /\ Counted' /\ index' \in Index \cup {None}
    <2>1. /\ pc[c] = "idle" /\ saves < MaxSaves /\ saves' = saves + 1
          /\ pc' = [pc EXCEPT ![c] = "asking"] /\ UNCHANGED <<entries, fresh, versions, index>>
          /\ left' = [left EXCEPT ![c] = DOMAIN p.weights]
      BY <1>2 DEF Ask, directory, config
    <2>5. left' \in [Clients -> SUBSET Symbols]
      <3>1. p.weights \in Weights
        BY CustomIndexAssumption
      <3>2. DOMAIN p.weights \subseteq Symbols
        BY <3>1 DEF Weights
      <3> QED
        BY <2>1, <3>2 DEF TInv, Listed
    <2>2. Busy' = Busy \cup {c} /\ c \notin Busy
      BY <2>1 DEF TInv, RInv, Configured, Busy
    <2>3. /\ IsFiniteSet(Busy') /\ Cardinality(Busy) \in Nat
          /\ Cardinality(Busy') = Cardinality(Busy) + 1
      BY <2>2, FS_AddElement, FS_CardinalityType DEF TInv, Counted
    <2>4. Len(versions) \in Nat /\ MaxSaves \in Nat
      BY CustomIndexAssumption DEF TInv, RInv, Configured
    <2> QED
      BY <2>1, <2>3, <2>4, <2>5 DEF TInv, Counted, Listed
  <1>3. CASE Look(c)
    <2>1. pc[c] # "idle" /\ saves' = saves /\ entries' = entries
      BY <1>3 DEF Look
    <2>2. CASE fresh
      <3>1. entries \subseteq Symbols /\ entries # {}
        BY <2>2 DEF TInv, Listed
      <3> QED
        BY <1>1, <1>3, <2>1, <2>2, <3>1, LookUpCounted DEF Look
    <2>3. CASE ~ fresh
      <3>1. Listed'
        BY <1>3, <2>1, <2>3 DEF Look, TInv, Listed
      <3> QED
        BY <1>1, <1>3, <2>1, <2>3, <3>1, WaitCounted DEF Look
    <2> QED
      BY <2>2, <2>3
  <1>4. CASE Acquire(c)
    <2>1. pc[c] # "idle" /\ saves' = saves /\ entries' = entries
      BY <1>4 DEF Acquire
    <2>2. CASE fresh
      <3>1. entries \subseteq Symbols /\ entries # {}
        BY <2>2 DEF TInv, Listed
      <3> QED
        BY <1>1, <1>4, <2>1, <2>2, <3>1, LookUpCounted DEF Acquire
    <2>3. CASE ~ fresh
      <3>1. Listed'
        BY <1>4, <2>1, <2>3 DEF Acquire, TInv, Listed
      <3> QED
        BY <1>1, <1>4, <2>1, <2>3, <3>1, WaitCounted DEF Acquire
    <2> QED
      BY <2>2, <2>3
  <1>5. CASE Fetched(c)
    <2>1. PICK listed \in Directories : entries' = listed /\ LookUp(c, listed)
      BY <1>5 DEF Fetched
    <2>2. listed \subseteq Symbols /\ listed # {}
      BY <2>1, CustomIndexAssumption
    <2> QED
      BY <1>1, <1>5, <2>1, <2>2, LookUpCounted DEF Fetched
  <1>6. CASE FetchFails(c)
    <2>1. pc[c] # "idle" /\ saves' = saves /\ entries' = entries
      BY <1>6 DEF FetchFails
    <2>2. CASE entries # {}
      <3>1. entries \subseteq Symbols
        BY DEF TInv, Listed
      <3> QED
        BY <1>1, <1>6, <2>1, <2>2, <3>1, LookUpCounted DEF FetchFails
    <2>3. CASE entries = {}
      <3>1. Listed'
        BY <1>6, <2>3 DEF FetchFails, TInv, Listed
      <3> QED
        BY <1>1, <1>6, <2>1, <2>3, <3>1, WaitCounted DEF FetchFails
    <2> QED
      BY <2>2, <2>3
  <1> QED
    BY <1>1, <1>2, <1>3, <1>4, <1>5, <1>6

\* The configuration in force, for a calculation that has found the index enabled.
LEMMA InForce ==
  ASSUME TInv, versions # <<>>
  PROVE  /\ Latest \in Version /\ DOMAIN Latest.weights \subseteq Symbols
         /\ Len(versions) \in 0..MaxSaves
  <1>1. Latest \in Version /\ DOMAIN Latest.weights \subseteq Symbols
    BY LatestVersion DEF TInv, RInv
  <1>2. Len(versions) \in Nat /\ Len(versions) <= MaxSaves
    <2>1. Cardinality(Busy) \in Nat /\ Len(versions) \in Nat /\ MaxSaves \in Nat
      BY CustomIndexAssumption, FS_CardinalityType DEF TInv, Counted, RInv, Configured
    <2> QED
      BY <2>1 DEF TInv, Counted
  <1> QED
    BY <1>1, <1>2, CustomIndexAssumption

\* A calculation between the two queries of enabled_definitions.
LEMMA Found ==
  ASSUME TInv, NEW k \in Calculators, calc[k].step \in {"listing", "defining"}
  PROVE  versions # <<>> /\ calc[k] \in Draft
  <1>1. 1 \in 1..Len(versions)
    BY DraftsSound DEF TInv, RInv, Sound
  <1> QED
    BY <1>1 DEF TInv, DraftTypes

LEMMA BeginTyped ==
  ASSUME TInv, NEW k \in Calculators, Begin(k)
  PROVE  DraftTypes'
  <1> DEFINE step == IF Enabled THEN "listing" ELSE "symbols"
             begun == [Idle EXCEPT !.step = step, !.symbols = Universe]
  <1>1. Idle \in Draft
    BY CustomIndexAssumption DEF Idle, Draft
  <1>2. calc' = [calc EXCEPT ![k] = begun] /\ step \in {"listing", "symbols"}
    BY DEF Begin
  <1> HIDE DEF step
  <1>3. begun \in Draft
    BY <1>1, <1>2, CustomIndexAssumption DEF Draft
  <1> HIDE DEF begun
  <1> QED
    BY <1>2, <1>3 DEF TInv, DraftTypes

LEMMA ListTyped ==
  ASSUME TInv, NEW k \in Calculators, List(k)
  PROVE  DraftTypes'
  <1> DEFINE loaded == calc[k].symbols \cup DOMAIN Latest.weights
             listed == [calc[k] EXCEPT !.step = "symbols", !.symbols = loaded]
  <1>1. versions # <<>> /\ calc[k] \in Draft
    BY Found DEF List
  <1>2. loaded \subseteq Symbols
    BY <1>1, InForce DEF Draft
  <1>3. calc' = [calc EXCEPT ![k] = listed]
    BY DEF List, TInv, DraftTypes
  <1> HIDE DEF loaded
  <1>4. listed \in Draft
    BY <1>1, <1>2 DEF Draft
  <1> HIDE DEF listed
  <1> QED
    BY <1>3, <1>4 DEF TInv, DraftTypes

LEMMA DefineTyped ==
  ASSUME TInv, NEW k \in Calculators, Define(k)
  PROVE  DraftTypes'
  <1> DEFINE found == [calc[k] EXCEPT !.step = "defining"]
  <1>1. Idle \in Draft
    BY CustomIndexAssumption DEF Idle, Draft
  <1>2. calc[k] \in Draft
    BY DEF TInv, DraftTypes
  <1>3. found \in Draft
    BY <1>2 DEF Draft
  <1>4. calc' = [calc EXCEPT ![k] = IF Enabled THEN found ELSE Idle]
    BY DEF Define, TInv, DraftTypes
  <1> HIDE DEF found
  <1> QED
    BY <1>1, <1>3, <1>4 DEF TInv, DraftTypes

LEMMA LoadVersionTyped ==
  ASSUME TInv, NEW k \in Calculators, LoadVersion(k)
  PROVE  DraftTypes'
  <1> DEFINE defined == [calc[k] EXCEPT !.step = "defined", !.version = Len(versions),
                                        !.held = Latest]
  <1>1. versions # <<>> /\ calc[k] \in Draft
    BY Found DEF LoadVersion
  <1>2. defined \in Draft
    BY <1>1, InForce DEF Draft
  <1>3. calc' = [calc EXCEPT ![k] = defined]
    BY DEF LoadVersion, TInv, DraftTypes
  <1> HIDE DEF defined
  <1> QED
    BY <1>2, <1>3 DEF TInv, DraftTypes

LEMMA CalculateTyped ==
  ASSUME TInv, NEW k \in Calculators, Calculate(k)
  PROVE  DraftTypes'
  <1>1. PICK t \in Times, approximate \in BOOLEAN,
             used \in SUBSET (DOMAIN calc[k].held.weights \cap calc[k].symbols) :
          calc' = [calc EXCEPT ![k] =
               IF Replaces(rows[calc[k].version][t], approximate)
               THEN [@ EXCEPT !.step = "commit", !.at = t,
                              !.read = rows[calc[k].version][t],
                              !.value = [weights |-> calc[k].held.weights, used |-> used,
                                         approximate |-> approximate]]
               ELSE Idle]
    BY DEF Calculate
  <1> DEFINE value == [weights |-> calc[k].held.weights, used |-> used,
                       approximate |-> approximate]
             read == rows[calc[k].version][t]
             drafted == [calc[k] EXCEPT !.step = "commit", !.at = t, !.read = read,
                                        !.value = value]
  <1>2. calc[k] \in Draft /\ Idle \in Draft
    BY CustomIndexAssumption DEF TInv, DraftTypes, Idle, Draft
  <1>3. calc[k].version \in 1..Len(versions) /\ calc[k].held = versions[calc[k].version]
    BY DraftsSound DEF TInv, RInv, Sound, Calculate
  <1>4. calc[k].held \in Version
    BY <1>3 DEF TInv, RInv, Configured
  <1>5. value \in Value
    <2>1. calc[k].held.weights \in Weights
      BY <1>4 DEF Version
    <2>2. used \subseteq Symbols
      BY <1>2 DEF Draft
    <2> QED
      BY <2>1, <2>2 DEF Value
  <1>6. read \in Row \cup {None}
    <2>1. Cardinality(Busy) \in Nat /\ Len(versions) \in Nat /\ MaxSaves \in Nat
      BY CustomIndexAssumption, FS_CardinalityType DEF TInv, Counted, RInv, Configured
    <2>2. calc[k].version \in VersionIds
      BY <1>3, <2>1 DEF TInv, Counted, VersionIds
    <2> QED
      BY <2>2 DEF TInv, RInv, Stored
  <1> HIDE DEF value, read
  <1>7. drafted \in Draft
    BY <1>2, <1>5, <1>6 DEF Draft
  <1>8. calc' = [calc EXCEPT ![k] = IF Replaces(read, approximate) THEN drafted ELSE Idle]
    BY <1>1 DEF TInv, DraftTypes, read, value
  <1> HIDE DEF drafted
  <1> QED
    BY <1>2, <1>7, <1>8 DEF TInv, DraftTypes

LEMMA CalculatorsTyped ==
  ASSUME TInv, RInv', NEW k \in Calculators,
         Begin(k) \/ List(k) \/ Define(k) \/ LoadVersion(k) \/ Calculate(k)
           \/ Skip(k) \/ Commit(k)
  PROVE  TInv'
  <1>1. UNCHANGED <<entries, fresh, left, pc, saves, versions, index>>
    BY DEF Begin, List, Define, LoadVersion, Calculate, Skip, Commit, directory, clients, config
  <1>2. Listed' /\ Counted' /\ index' \in Index \cup {None}
    BY <1>1 DEF TInv, Listed, Counted, Busy
  <1>3. Idle \in Draft
    BY CustomIndexAssumption DEF Idle, Draft
  <1>4. CASE Skip(k) \/ Commit(k)
    <2>1. calc' = [calc EXCEPT ![k] = Idle]
      BY <1>4 DEF Skip, Commit
    <2> QED
      BY <1>2, <1>3, <2>1 DEF TInv, DraftTypes
  <1> QED
    BY <1>2, <1>4, BeginTyped, ListTyped, DefineTyped, LoadVersionTyped, CalculateTyped DEF TInv

LEMMA StepTInv == TInv /\ [Next]_vars => TInv'
  <1> SUFFICES ASSUME TInv, [Next]_vars PROVE TInv'
    OBVIOUS
  <1>1. RInv'
    BY StepRInv DEF TInv
  <1>2. CASE \E c \in Clients : \/ \E p \in Payloads : Ask(c, p)
                                \/ Look(c) \/ Acquire(c) \/ Fetched(c) \/ FetchFails(c)
    BY <1>1, <1>2, ClientsTyped
  <1>3. CASE \E k \in Calculators :
               Begin(k) \/ List(k) \/ Define(k) \/ LoadVersion(k) \/ Calculate(k) \/ Skip(k)
               \/ Commit(k)
    BY <1>1, <1>3, CalculatorsTyped
  <1>4. CASE Expire
    BY <1>1, <1>4 DEF Expire, clients, config, results, TInv, Listed, Counted, Busy, DraftTypes
  <1>5. CASE UNCHANGED vars
    BY <1>1, <1>5 DEF vars, directory, clients, config, results, TInv, Listed, Counted, Busy,
                      DraftTypes
  <1> QED
    BY <1>2, <1>3, <1>4, <1>5 DEF Next

\* Once _download has found both files there always is a directory to look names up in
\* (symbol_directory.py), no request makes more than one version, and what a calculation
\* holds from one query to the next is of the types the module gives.
THEOREM TypeCorrect == Spec => []TypeOK
  <1>1. TInv => TypeOK
    <2> SUFFICES ASSUME TInv PROVE TypeOK
      OBVIOUS
    <2>1. Len(versions) <= MaxSaves
      <3>1. Cardinality(Busy) \in Nat /\ Len(versions) \in Nat /\ MaxSaves \in Nat
        BY CustomIndexAssumption, FS_CardinalityType DEF TInv, Counted, RInv, Configured
      <3> QED
        BY <3>1 DEF TInv, Counted
    <2> QED
      BY <2>1 DEF TInv, RInv, Listed, Configured, Stored, DraftTypes, TypeOK
  <1> QED
    BY <1>1, InitTInv, StepTInv, PTL DEF Spec
=============================================================================
