------------------------------- MODULE Bridge -------------------------------
(***************************************************************************)
(* One collection of quotes through a provider's client, and a status check *)
(* beside it: services/market_collector.py, bridge.py,                     *)
(* api/provider_bridge.py, data/providers/ (Python backend).               *)
(*                                                                         *)
(* A request runs one coroutine.  It asks its own client for one thing at a *)
(* time, under a timeout.  The clients of IBKR and Futu run blocking calls  *)
(* of a vendor's library on threads: giving up a call that runs does not    *)
(* stop it.  IBKR's client has one thread, so that a later call waits for   *)
(* it; Futu's uses the pool of the event loop.  Alpaca's client awaits HTTP *)
(* instead, which stops, and has the quotes of a chain it has loaded.       *)
(***************************************************************************)
EXTENDS Integers, FiniteSets, FiniteSetsExt

CONSTANTS Kinds,        \* providers: among "IBKR", "FUTU", "ALPACA"
          Checked,      \* bound: those whose status is asked for meanwhile (never Alpaca's)
          Symbols,      \* number of symbols requested
          MaxContracts, \* max_contracts_per_symbol
          Pool,         \* threads of an event loop's default executor
          MaxFaults     \* bound: statements the database refuses, and cancellations that
                        \* fail in one session

ASSUME BridgeAssumption ==
  /\ Kinds \subseteq {"IBKR", "FUTU", "ALPACA"} /\ Checked \subseteq {"IBKR", "FUTU"}
  /\ {Symbols, MaxContracts, Pool} \subseteq Nat \ {0}
  /\ MaxFaults \in Nat

Requests == {"collect", "status"}
Points   == {"connect", "health", "stock", "chain", "quote", "disconnect"}
Ends     == {"idle", "answered"}
Refused  == {"NO_CHAIN", "NO_QUOTES", "TIMEOUT", "FAILED", "SKIPPED"}

VARIABLES
  kind,      \* the enabled provider
  at,        \* request -> the call it awaits
  calls,     \* calls handed to a thread, awaited or given up
  subs,      \* market data subscriptions at the gateway, by the call that made them
  kept,      \* history variable: those of them whose cancellation failed
  sessions,  \* requests whose client holds a session at the gateway
  symbol,    \* the symbol the collection is at
  left,      \* contracts it has yet to ask for
  got,       \* quotes of the symbol
  stocks,    \* symbols with a stock row released into the transaction
  stored,    \* symbol -> option rows released into the transaction
  priced,    \* symbols whose symbol_status[symbol]["stock"] is "SAVED"
  status,    \* symbol -> symbol_status[symbol]["options"]
  stock_quotes_saved,         \* counters of the summary: stock quotes,
  succeeded, failed, counted, \* symbols, symbols, option quotes
  retry,     \* retry_after_seconds is set
  result,    \* what the collection returns: "summary" or "error"
  dropped,   \* history variable: requests whose disconnection never ran to its end
  overcount, \* history variable: the release of a savepoint failed
  faults

client  == <<calls, subs, kept, sessions>>
stock   == <<stocks, priced, stock_quotes_saved>>
summary == <<symbol, left, got, stock, stored, status, succeeded, failed, counted, retry, result>>
vars    == <<kind, at, client, summary, dropped, overcount, faults>>

SymbolIds == 1..Symbols
Call == [req : Requests, point : Points, symbol : 0..Symbols, contract : 0..MaxContracts,
         running : BOOLEAN, awaited : BOOLEAN]

\* The types of the calls, of the gateway's state and of the summary.
TypeOK ==
  /\ kind \in Kinds
  /\ at \in [Requests -> Points \cup Ends]
  /\ calls \subseteq Call /\ subs \subseteq Requests \X Points \X SymbolIds \X (0..MaxContracts)
  /\ kept \subseteq subs /\ sessions \subseteq Requests
  /\ stocks \subseteq SymbolIds /\ priced \subseteq SymbolIds /\ stock_quotes_saved \in 0..Symbols
  /\ symbol \in SymbolIds /\ left \in 0..MaxContracts /\ got \in 0..MaxContracts
  /\ stored \in [SymbolIds -> 0..MaxContracts]
  /\ status \in [SymbolIds -> Refused \cup {"NONE", "PENDING", "SAVED"}]
  /\ succeeded \in 0..Symbols /\ failed \in 0..(2 * Symbols)
  /\ counted \in 0..(Symbols * MaxContracts)
  /\ retry \in BOOLEAN /\ result \in {"none", "summary", "error"}
  /\ dropped \subseteq Requests /\ overcount \in BOOLEAN
  /\ faults \in 0..MaxFaults

Init ==
  /\ kind \in Kinds
  /\ at = [r \in Requests |-> "idle"]
  /\ calls = {} /\ subs = {} /\ kept = {} /\ sessions = {}
  /\ symbol = 1 /\ left = 0 /\ got = 0
  /\ stocks = {} /\ priced = {} /\ stock_quotes_saved = 0
  /\ stored = [s \in SymbolIds |-> 0]
  /\ status = [s \in SymbolIds |-> "NONE"]
  /\ succeeded = 0 /\ failed = 0 /\ counted = 0
  /\ retry = FALSE /\ result = "none"
  /\ dropped = {} /\ overcount = FALSE
  /\ faults = 0

-----------------------------------------------------------------------------
(* The client and its threads. *)

Of(r)      == {c \in calls : c.req = r}
Slot(c)    == <<c.req, c.point, c.symbol, c.contract>>

NewCall(r, p, s, k) == [req |-> r, point |-> p, symbol |-> s, contract |-> k,
                        running |-> kind = "ALPACA", awaited |-> TRUE]

\* The request goes on to another call; rest are the calls there still are.
Ask(r, p, s, k, rest) ==
  /\ at' = [at EXCEPT ![r] = p]
  /\ calls' = rest \cup {NewCall(r, p, s, k)}

\* Bug: IBKR's calls are not limited to one thread.
StartsAlways(c) == TRUE

\* A thread is free for c: IBKR's executor has one.
Starts(c) ==
  Cardinality({other \in Of(c.req) : other.running}) < (IF kind = "IBKR" THEN 1 ELSE Pool)

Start(c) ==
  /\ ~ c.running /\ Starts(c)
  /\ calls' = (calls \ {c}) \cup {[c EXCEPT !.running = TRUE]}
  /\ UNCHANGED <<kind, at, subs, kept, sessions, summary, dropped, overcount, faults>>

Connected(r) == r \in sessions

\* Calls that subscribe and then wait for a quote; IBKR's chain asks for the stock's.
Quoted(c) == CASE kind = "IBKR"   -> c.point \in {"stock", "chain", "quote"}
               [] kind = "FUTU"   -> c.point \in {"stock", "quote"}
               [] kind = "ALPACA" -> FALSE

Subscribe(c) ==
  /\ c.running /\ Quoted(c)
  /\ Connected(c.req) /\ Slot(c) \notin subs
  /\ subs' = subs \cup {Slot(c)}
  /\ UNCHANGED <<kind, at, calls, kept, sessions, summary, dropped, overcount, faults>>

\* Alpaca's calls that await nothing.
Immediate(c) == kind = "ALPACA" /\ c.point \in {"connect", "quote"}

\* How a request for data may end: it needs a connection, and a quote its subscription;
\* Alpaca may refuse it or limit the rate.
Replies(c) ==
  {"error"} \cup (IF Connected(c.req) /\ (Quoted(c) => Slot(c) \in subs) THEN {"ok"} ELSE {})
            \cup (IF kind = "ALPACA" /\ ~ Immediate(c) THEN {"limit"} ELSE {})

\* No page of a chain may have a contract of the symbol.
ChainReplies(c) == Replies(c) \cup (IF Connected(c.req) THEN {"empty"} ELSE {})

\* How a call may end: a gateway admits a client id once.
Outcomes(c) ==
  CASE c.point = "connect" ->
         IF kind = "ALPACA" THEN {"ok"}
         ELSE IF kind = "IBKR" /\ sessions \ {c.req} # {} THEN {"error"} ELSE {"ok", "error"}
    [] c.point = "disconnect" -> {"ok"} \cup (IF Connected(c.req) THEN {"error"} ELSE {})
    [] c.point = "chain" -> ChainReplies(c)
    [] c.point \in {"health", "stock", "quote"} -> Replies(c)

\* A connection made or closed.  A disconnection that raises may leave it open (one that
\* raises after it was closed is like one that ends well).
Session(c, o) ==
  /\ sessions' = CASE c.point = "connect" /\ o = "ok"    -> sessions \cup {c.req}
                   [] c.point = "disconnect" /\ o = "ok" -> sessions \ {c.req}
                   [] OTHER -> sessions
  /\ dropped' = IF c.point = "disconnect" /\ o # "ok" THEN dropped \cup {c.req} ELSE dropped

\* The subscription of c, if cancelling it may fail: Futu's errors are logged at best.
Uncancelled(c) ==
  IF kind = "FUTU" /\ Cardinality(kept) < MaxFaults THEN subs \cap {Slot(c)} ELSE {}

\* The gateway forgets all subscriptions of a session that is closed.
OfOthers(held, c) == {x \in held : x[1] # c.req}

\* Bug: only a call that has succeeded cancels.
EffectsOnSuccess(c, o) ==
  /\ Session(c, o)
  /\ IF c.point = "disconnect" /\ o = "ok"
     THEN subs' = OfOthers(subs, c) /\ kept' = OfOthers(kept, c)
     ELSE \E fails \in {{}, Uncancelled(c)} :
            /\ subs' = IF o = "ok" THEN (subs \ {Slot(c)}) \cup fails ELSE subs
            /\ kept' = (kept \ {Slot(c)}) \cup fails

\* What the end of a call does to the client: the session, and the subscription, which
\* is to be cancelled however the call ends.
Effects(c, o) ==
  /\ Session(c, o)
  /\ IF c.point = "disconnect" /\ o = "ok"
     THEN subs' = OfOthers(subs, c) /\ kept' = OfOthers(kept, c)
     ELSE \E fails \in {{}, Uncancelled(c)} :
            /\ subs' = (subs \ {Slot(c)}) \cup fails
            /\ kept' = (kept \ {Slot(c)}) \cup fails

\* A call that was given up ends: nobody hears of it.
EndAbandoned(c) ==
  /\ c.running /\ ~ c.awaited
  /\ \E o \in Outcomes(c) : Effects(c, o)
  /\ calls' = calls \ {c}
  /\ UNCHANGED <<kind, at, summary, overcount, faults>>

-----------------------------------------------------------------------------
(* The collection. *)

UnchangedSummary == UNCHANGED <<summary, overcount, faults>>

\* The transaction with these rows is committed, or refused and rolled back; then the
\* client is closed.
Commit(rows, spent, rest) ==
  /\ \/ result' = "summary" /\ stored' = rows /\ UNCHANGED stocks /\ faults' = faults + spent
     \/ /\ faults + spent < MaxFaults /\ faults' = faults + spent + 1
        /\ result' = "error" /\ stored' = [s \in SymbolIds |-> 0] /\ stocks' = {}
  /\ Ask("collect", "disconnect", 0, 0, rest)

\* A symbol is through, its savepoint left these rows: the next symbol, or the commit.
Leave(rows, spent, rest) ==
  LET table == [stored EXCEPT ![symbol] = rows] IN
  /\ got' = 0 /\ left' = 0
  /\ IF symbol = Symbols THEN Commit(table, spent, rest) /\ symbol' = symbol
     ELSE /\ symbol' = symbol + 1
          /\ stored' = table /\ faults' = faults + spent
          /\ Ask("collect", "stock", symbol + 1, 0, rest)
          /\ UNCHANGED <<stocks, result>>

\* The symbol has no option rows.
Refuse(why, rest) ==
  /\ status' = [status EXCEPT ![symbol] = why]
  /\ failed' = failed + 1
  /\ Leave(0, 0, rest)
  /\ UNCHANGED <<priced, stock_quotes_saved, succeeded, counted, retry, overcount>>

\* The same within the savepoint, whose release may fail: the symbol, which has counted as
\* failed already, does so once more.
RefuseWithin(why, rest) ==
  \/ Refuse(why, rest)
  \/ /\ faults < MaxFaults /\ overcount' = TRUE
     /\ status' = [status EXCEPT ![symbol] = "FAILED"]
     /\ failed' = failed + 2
     /\ Leave(0, 1, rest)
     /\ UNCHANGED <<priced, stock_quotes_saved, succeeded, counted, retry>>

\* Bug: the symbol it happened at does not count as failed.
BreakUncounted(why, rest) ==
  /\ status' = [status EXCEPT ![symbol] = why]
  /\ retry' = TRUE
  /\ got' = 0 /\ left' = 0
  /\ Commit(stored, 0, rest)
  /\ UNCHANGED <<symbol, priced, stock_quotes_saved, succeeded, failed, counted, overcount>>

\* A permission or rate limit error ends the collection; what was saved is committed.
Break(why, rest) ==
  /\ status' = [status EXCEPT ![symbol] = why]
  /\ failed' = failed + 1
  /\ retry' = TRUE
  /\ got' = 0 /\ left' = 0
  /\ Commit(stored, 0, rest)
  /\ UNCHANGED <<symbol, priced, stock_quotes_saved, succeeded, counted, overcount>>

\* Bug: the quotes of all symbols so far are added again.
KeepQuotesAgain(n, rest) ==
  /\ counted' = counted + counted + n /\ succeeded' = succeeded + 1
  /\ status' = [status EXCEPT ![symbol] = "SAVED"]
  /\ Leave(n, 0, rest)
  /\ UNCHANGED <<priced, stock_quotes_saved, failed, retry, overcount>>

\* All contracts were asked for: n quotes.
KeepQuotes(n, rest) ==
  /\ counted' = counted + n /\ succeeded' = succeeded + 1
  /\ status' = [status EXCEPT ![symbol] = "SAVED"]
  /\ Leave(n, 0, rest)
  /\ UNCHANGED <<priced, stock_quotes_saved, failed, retry, overcount>>

\* The savepoint writes them when it is released, after they have been counted, and the
\* database may refuse one: all are undone, and the symbol counts as failed too.
LoseQuotes(n, rest) ==
  /\ faults < MaxFaults /\ overcount' = TRUE
  /\ counted' = counted + n /\ succeeded' = succeeded + 1 /\ failed' = failed + 1
  /\ status' = [status EXCEPT ![symbol] = "FAILED"]
  /\ Leave(0, 1, rest)
  /\ UNCHANGED <<priced, stock_quotes_saved, retry>>

\* The answer to a quote, or its absence: the next contract, or the end of the symbol.
AfterQuote(n, rest) ==
  IF left > 1
  THEN /\ left' = left - 1 /\ got' = n
       /\ Ask("collect", "quote", symbol, left - 1, rest)
       /\ UNCHANGED <<symbol, stock, stored, status, succeeded, failed, counted, retry, result,
                      overcount, faults>>
  ELSE IF n = 0 THEN RefuseWithin("NO_QUOTES", rest)
  ELSE KeepQuotes(n, rest) \/ LoseQuotes(n, rest)

\* The stock quote is counted, and its savepoint released: the row is written or refused.
SaveStock ==
  /\ stock_quotes_saved' = stock_quotes_saved + 1
  /\ \/ /\ stocks' = stocks \cup {symbol} /\ priced' = priced \cup {symbol}
        /\ UNCHANGED <<overcount, faults>>
     \/ /\ faults < MaxFaults /\ faults' = faults + 1 /\ overcount' = TRUE
        /\ UNCHANGED <<stocks, priced>>

\* The chain is asked for with or without a stock quote.
AfterStock(o, rest) ==
  IF o = "limit" THEN Break("SKIPPED", rest)
  ELSE /\ IF o = "ok" THEN SaveStock ELSE UNCHANGED <<stock, overcount, faults>>
       /\ status' = [status EXCEPT ![symbol] = "PENDING"]
       /\ Ask("collect", "chain", symbol, 0, rest)
       /\ UNCHANGED <<symbol, left, got, stored, succeeded, failed, counted, retry, result>>

\* _select_contracts: some contract is left of a chain that is not empty.
Selected == 1..MaxContracts

AfterChain(o, rest) ==
  CASE o = "limit"   -> Break("FAILED", rest)
    [] o = "empty"   -> RefuseWithin("NO_CHAIN", rest)
    [] o = "timeout" -> Refuse("TIMEOUT", rest)
    [] o = "error"   -> Refuse("FAILED", rest)
    [] o = "ok"      -> \E n \in Selected :
         /\ left' = n
         /\ Ask("collect", "quote", symbol, n, rest)
         /\ UNCHANGED <<symbol, got, stock, stored, status, succeeded, failed, counted, retry,
                        result, overcount, faults>>

\* Without a connection the collection ends with an error, after the disconnection.
AfterConnect(r, o, rest) ==
  IF o # "ok" THEN /\ Ask(r, "disconnect", 0, 0, rest)
                   /\ result' = IF r = "collect" THEN "error" ELSE result
                   /\ UNCHANGED <<symbol, left, got, stock, stored, status, succeeded, failed,
                                  counted, retry, overcount, faults>>
  ELSE /\ IF r = "collect" THEN Ask(r, "stock", 1, 0, rest) ELSE Ask(r, "health", 0, 0, rest)
       /\ UnchangedSummary

\* The request r gets outcome o for the call it awaits.
Resume(r, o, rest) ==
  CASE at[r] = "connect"    -> AfterConnect(r, o, rest)
    [] at[r] = "health"     -> Ask(r, "disconnect", 0, 0, rest) /\ UnchangedSummary
    [] at[r] = "stock"      -> AfterStock(o, rest)
    [] at[r] = "chain"      -> AfterChain(o, rest)
    [] at[r] = "quote"      -> IF o = "limit" THEN Break("FAILED", rest)
                               ELSE AfterQuote(IF o = "ok" THEN got + 1 ELSE got, rest)
    [] at[r] = "disconnect" -> /\ at' = [at EXCEPT ![r] = "answered"]
                               /\ calls' = rest
                               /\ UnchangedSummary

\* bridge.collect and provider_bridge.status, up to the first call.
Begin(r) ==
  /\ at[r] = "idle"
  /\ r = "status" => kind \in Checked
  /\ Ask(r, "connect", 0, 0, calls)
  /\ UNCHANGED <<kind, subs, kept, sessions, summary, dropped, overcount, faults>>

\* An awaited call ends in time.
End(c) ==
  /\ c.running /\ c.awaited
  /\ \E o \in Outcomes(c) : Effects(c, o) /\ Resume(c.req, o, calls \ {c})
  /\ UNCHANGED kind

\* wait_for gives up: a call that has not started never will, one that runs goes on
\* (Alpaca's is cancelled).
GivenUp(c) ==
  (calls \ {c}) \cup (IF c.running /\ kind # "ALPACA" THEN {[c EXCEPT !.awaited = FALSE]} ELSE {})

\* Bug: a call that runs is waited for, however long.
TimeoutInQueue(c) ==
  /\ c.awaited /\ ~ c.running
  /\ dropped' = IF c.point = "disconnect" THEN dropped \cup {c.req} ELSE dropped
  /\ Resume(c.req, "timeout", calls \ {c})
  /\ UNCHANGED <<kind, subs, kept, sessions>>

Timeout(c) ==
  /\ c.awaited /\ ~ Immediate(c)
  /\ dropped' = IF c.point = "disconnect" /\ ~ \E d \in GivenUp(c) : d.req = c.req /\ d.point = c.point
                THEN dropped \cup {c.req} ELSE dropped
  /\ Resume(c.req, "timeout", GivenUp(c))
  /\ UNCHANGED <<kind, subs, kept, sessions>>

-----------------------------------------------------------------------------
Next ==
  \/ \E r \in Requests : Begin(r)
  \/ \E c \in calls : Start(c) \/ Subscribe(c) \/ End(c) \/ Timeout(c) \/ EndAbandoned(c)

Spec == Init /\ [][Next]_vars

\* Nothing is assumed of the vendor's library: a call may run for ever.  The timers of
\* the event loop fire, and what awaits nothing ends.
FairSpec ==
  /\ Spec
  /\ WF_vars(\E c \in calls : Timeout(c))
  /\ WF_vars(\E c \in calls : Immediate(c) /\ End(c))

-----------------------------------------------------------------------------
(* Properties. *)

\* Every subscription is one of a session that is still open and belongs to a call that
\* runs (ibkr/client.py, lines 3-5), whatever was given up on the way, unless cancelling it
\* has failed, which only Futu's client lets pass: such a one ends with its session.
SubscriptionsHeld ==
  \A x \in subs :
    /\ x[1] \in sessions
    /\ \/ \E c \in calls : c.running /\ Slot(c) = x
       \/ kind = "FUTU" /\ x \in kept

\* When a request has been answered and its threads are done, its session at the gateway
\* is closed, unless its disconnection was given up before it ran (Alpaca's: cancelled) or
\* raised an error.
\* With Futu's pool a connection can still come up after the disconnection.
SessionReleased ==
  \A r \in Requests :
    (at[r] = "answered" /\ Of(r) = {} /\ r \in sessions) => (r \in dropped \/ kind = "FUTU")

\* What a collection returns is what it has committed (its summary is written step by
\* step, and the rows after it): a stock or the options of a symbol are SAVED exactly when
\* they have rows; the counters are never below rows and statuses, and agree with them
\* unless a savepoint could not be released; and a collection that leaves out symbols says
\* when to retry.
SummaryAgrees ==
  (at["collect"] = "answered" /\ result = "summary") =>
    LET saved   == {s \in SymbolIds : status[s] = "SAVED"}
        refused == {s \in SymbolIds : status[s] \in Refused}
        rows    == MapThenSumSet(LAMBDA s : stored[s], SymbolIds) IN
    /\ saved = {s \in SymbolIds : stored[s] > 0} /\ priced = stocks
    /\ /\ stock_quotes_saved >= Cardinality(stocks) /\ counted >= rows
       /\ succeeded >= Cardinality(saved) /\ failed >= Cardinality(refused)
    /\ ~ overcount =>
         /\ stock_quotes_saved = Cardinality(stocks) /\ counted = rows
         /\ succeeded = Cardinality(saved) /\ failed = Cardinality(refused)
    /\ retry = FALSE => saved \cup refused = SymbolIds

\* A collection is answered, though a call of the library may never return.
CollectionAnswered == (at["collect"] # "idle") ~> (at["collect"] = "answered")
=============================================================================
