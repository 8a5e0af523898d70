---------------------------- MODULE BridgeProofs ----------------------------
(***************************************************************************)
(* What the bridge gives back to a gateway, and to the one who asked, for  *)
(* any symbols, contracts and threads.                                     *)
(***************************************************************************)
EXTENDS Bridge, FiniteSetTheorems, WellFoundedInduction, TLAPS

Calls == [req : Requests, point : Points, symbol : Int, contract : Int,
          running : BOOLEAN, awaited : BOOLEAN]

\* Types of what the calls depend on.
Shape ==
  /\ kind \in {"IBKR", "FUTU", "ALPACA"}
  /\ at \in [Requests -> Points \cup Ends]
  /\ calls \subseteq Calls /\ IsFiniteSet(calls)
  /\ symbol \in Int /\ left \in Int

\* A request awaits the call it is at, and no other.
Awaiting ==
  /\ \A c \in calls : c.awaited = TRUE => at[c.req] = c.point
  /\ \A c, d \in calls : c.req = d.req /\ c.awaited = TRUE /\ d.awaited = TRUE => c = d
  /\ at["status"] \in {"idle", "connect", "health", "disconnect", "answered"}

\* Only a call that runs is left behind.
LeftRunning == \A c \in calls : c.awaited = FALSE => c.running = TRUE

\* Alpaca's calls are cancelled when they are given up, and subscribe to nothing.
AlpacaTidy == kind = "ALPACA" => subs = {} /\ \A c \in calls : c.awaited = TRUE

\* IBKR's thread.
OneThread ==
  kind = "IBKR" =>
    \A c, d \in calls : c.req = d.req /\ c.running = TRUE /\ d.running = TRUE => c = d

\* What is left of a request: nothing before it begins; at the end a disconnection that
\* runs, or no call and no session.
Remains ==
  \A r \in Requests :
    /\ at[r] = "idle" => Of(r) = {}
    /\ at[r] = "answered" /\ r \notin dropped /\ kind # "FUTU" =>
         \/ Of(r) = {} /\ r \notin sessions
         \/ \E d \in Of(r) : d.point = "disconnect" /\ d.running = TRUE

IInv == /\ Shape /\ Awaiting /\ LeftRunning /\ AlpacaTidy /\ OneThread /\ Remains
        /\ SubscriptionsHeld

-----------------------------------------------------------------------------
(* How a request goes on.                                                  *)

\* Request r goes on to another call, rest are the calls there still are.
Asks(r, rest) ==
  \E p \in Points, s, k \in Int :
    Ask(r, p, s, k, rest) /\ (r = "status" => p \in {"health", "disconnect"})

LEMMA CommitAsks ==
  ASSUME NEW rows, NEW spent, NEW rest, Commit(rows, spent, rest)
  PROVE  Asks("collect", rest)
  BY DEF Commit, Asks, Points

LEMMA LeaveAsks ==
  ASSUME symbol \in Int, NEW rows, NEW spent, NEW rest, Leave(rows, spent, rest)
  PROVE  Asks("collect", rest) /\ symbol' \in Int /\ left' \in Int
  <1> DEFINE table == [stored EXCEPT ![symbol] = rows]
  <1>1. left' = 0
    BY DEF Leave
  <1>2. CASE symbol = Symbols
    <2>1. Commit(table, spent, rest) /\ symbol' = symbol
      BY <1>2 DEF Leave
    <2> QED
      BY <1>1, <2>1, CommitAsks
  <1>3. CASE symbol # Symbols
    <2>1. Ask("collect", "stock", symbol + 1, 0, rest) /\ symbol' = symbol + 1
      BY <1>3 DEF Leave
    <2>2. symbol + 1 \in Int /\ 0 \in Int /\ "stock" \in Points
      BY DEF Points
    <2> QED
      BY <1>1, <2>1, <2>2 DEF Asks
  <1> QED
    BY <1>2, <1>3

LEMMA RefuseAsks ==
  ASSUME symbol \in Int, NEW why, NEW rest, Refuse(why, rest)
  PROVE  Asks("collect", rest) /\ symbol' \in Int /\ left' \in Int
  BY LeaveAsks DEF Refuse

LEMMA RefuseWithinAsks ==
  ASSUME symbol \in Int, NEW why, NEW rest, RefuseWithin(why, rest)
  PROVE  Asks("collect", rest) /\ symbol' \in Int /\ left' \in Int
  BY LeaveAsks, RefuseAsks DEF RefuseWithin

LEMMA BreakAsks ==
  ASSUME symbol \in Int, NEW why, NEW rest, Break(why, rest)
  PROVE  Asks("collect", rest) /\ symbol' \in Int /\ left' \in Int
  BY CommitAsks DEF Break

LEMMA QuoteAsks ==
  ASSUME symbol \in Int, left \in Int, NEW n, NEW rest, AfterQuote(n, rest)
  PROVE  Asks("collect", rest) /\ symbol' \in Int /\ left' \in Int
  <1>1. CASE left > 1
    <2>1. Ask("collect", "quote", symbol, left - 1, rest) /\ symbol' = symbol
          /\ left' = left - 1
      BY <1>1 DEF AfterQuote
    <2>2. left - 1 \in Int /\ "quote" \in Points
      BY DEF Points
    <2> QED
      BY <2>1, <2>2 DEF Asks
  <1>2. CASE ~ (left > 1) /\ n = 0
    BY <1>2, RefuseWithinAsks DEF AfterQuote
  <1>3. CASE ~ (left > 1) /\ n # 0
    BY <1>3, LeaveAsks DEF AfterQuote, KeepQuotes, LoseQuotes
  <1> QED
    BY <1>1, <1>2, <1>3

LEMMA ChainAsks ==
  ASSUME symbol \in Int, NEW o \in {"ok", "error", "limit", "empty", "timeout"}, NEW rest,
         AfterChain(o, rest)
  PROVE  Asks("collect", rest) /\ symbol' \in Int /\ left' \in Int
  <1>1. CASE o = "limit"
    BY <1>1, BreakAsks DEF AfterChain
  <1>2. CASE o \in {"empty", "timeout", "error"}
    BY <1>2, RefuseAsks, RefuseWithinAsks DEF AfterChain
  <1>3. CASE o = "ok"
    <2>1. PICK n \in Selected : /\ left' = n /\ symbol' = symbol
                                /\ Ask("collect", "quote", symbol, n, rest)
      BY <1>3 DEF AfterChain
    <2>2. n \in Int /\ "quote" \in Points
      BY DEF Selected, Points
    <2> QED
      BY <2>1, <2>2 DEF Asks
  <1> QED
    BY <1>1, <1>2, <1>3

\* Request r gets an answer: it goes on to another call, or has been answered.
LEMMA ResumeEffect ==
  ASSUME Shape, NEW r \in Requests, at[r] \in Points,
         r = "status" => at[r] \in {"connect", "health", "disconnect"},
         NEW o \in {"ok", "error", "limit", "empty", "timeout"}, NEW rest,
         Resume(r, o, rest)
  PROVE  /\ symbol' \in Int /\ left' \in Int
         /\ \/ Asks(r, rest)
            \/ /\ at[r] = "disconnect"
               /\ at' = [at EXCEPT ![r] = "answered"] /\ calls' = rest
  <1>0. symbol \in Int /\ left \in Int /\ r \in {"collect", "status"}
    BY DEF Shape, Requests
  <1>1. CASE at[r] = "connect"
    <2>1. AfterConnect(r, o, rest)
      BY <1>1 DEF Resume
    <2>2. symbol' = symbol /\ left' = left
      BY <2>1 DEF AfterConnect, UnchangedSummary, summary
    <2>3. \/ Ask(r, "disconnect", 0, 0, rest)
          \/ r = "collect" /\ Ask(r, "stock", 1, 0, rest)
          \/ r = "status" /\ Ask(r, "health", 0, 0, rest)
      BY <1>0, <2>1 DEF AfterConnect
    <2>4. Asks(r, rest)
      BY <2>3 DEF Asks, Points
    <2> QED
      BY <1>0, <2>2, <2>4
  <1>2. CASE at[r] = "health"
    <2>1. Ask(r, "disconnect", 0, 0, rest) /\ symbol' = symbol /\ left' = left
      BY <1>2 DEF Resume, UnchangedSummary, summary
    <2>2. Asks(r, rest)
      BY <2>1 DEF Asks, Points
    <2> QED
      BY <1>0, <2>1, <2>2
  <1>3. CASE at[r] = "stock"
    <2>1. AfterStock(o, rest) /\ r = "collect"
      BY <1>0, <1>3 DEF Resume
    <2>2. CASE o = "limit"
      BY <1>0, <2>1, <2>2, BreakAsks DEF AfterStock
    <2>3. CASE o # "limit"
      <3>1. Ask("collect", "chain", symbol, 0, rest) /\ symbol' = symbol /\ left' = left
        BY <2>1, <2>3 DEF AfterStock
      <3> QED
        BY <1>0, <2>1, <3>1 DEF Asks, Points
    <2> QED
      BY <2>2, <2>3
  <1>4. CASE at[r] = "chain"
    <2>1. AfterChain(o, rest) /\ r = "collect"
      BY <1>0, <1>4 DEF Resume
    <2> QED
      BY <1>0, <2>1, ChainAsks
  <1>5. CASE at[r] = "quote"
    <2>1. r = "collect"
          /\ IF o = "limit" THEN Break("FAILED", rest)
             ELSE AfterQuote(IF o = "ok" THEN got + 1 ELSE got, rest)
      BY <1>0, <1>5 DEF Resume
    <2>2. CASE o = "limit"
      BY <1>0, <2>1, <2>2, BreakAsks
    <2>3. CASE o # "limit"
      BY <1>0, <2>1, <2>3, QuoteAsks
    <2> QED
      BY <2>2, <2>3
  <1>6. CASE at[r] = "disconnect"
    BY <1>0, <1>6 DEF Resume, UnchangedSummary, summary
  <1> QED
    BY <1>1, <1>2, <1>3, <1>4, <1>5, <1>6 DEF Points

\* G are the calls left when the request of c goes on: c is gone or given up.
LeftOver(c, G) ==
  \/ G = calls \ {c}
  \/ /\ c.running = TRUE /\ kind # "ALPACA"
     /\ \E x \in Calls :
          /\ x.req = c.req /\ x.point = c.point /\ Slot(x) = Slot(c)
          /\ x.running = TRUE /\ x.awaited = FALSE
          /\ G = (calls \ {c}) \cup {x}

\* What holds of the calls, whatever they leave at the gateway.
CallsInv ==
  Shape /\ Awaiting /\ LeftRunning /\ OneThread
    /\ (kind = "ALPACA" => \A c \in calls : c.awaited = TRUE)

\* The request of c, and only it, goes on to another call, or has been answered.
GoesOn(c, G) ==
  /\ symbol' \in Int /\ left' \in Int
  /\ \/ Asks(c.req, G)
     \/ /\ at[c.req] = "disconnect"
        /\ at' = [at EXCEPT ![c.req] = "answered"] /\ calls' = G

LEMMA AskEffect ==
  ASSUME NEW r \in Requests, NEW G, Asks(r, G)
  PROVE  \E p \in Points, new \in Calls :
           /\ r = "status" => p \in {"health", "disconnect"}
           /\ new.req = r /\ new.point = p /\ new.awaited = TRUE
           /\ kind # "ALPACA" => new.running = FALSE
           /\ at' = [at EXCEPT ![r] = p] /\ calls' = G \cup {new}
  <1>0. PICK p \in Points, s \in Int, k \in Int :
          Ask(r, p, s, k, G) /\ (r = "status" => p \in {"health", "disconnect"})
    BY DEF Asks
  <1> DEFINE alpaca == kind = "ALPACA"
             new == [req |-> r, point |-> p, symbol |-> s, contract |-> k,
                     running |-> alpaca, awaited |-> TRUE]
  <1>1. alpaca \in BOOLEAN /\ (kind # "ALPACA" => alpaca = FALSE)
    OBVIOUS
  <1>2. at' = [at EXCEPT ![r] = p] /\ calls' = G \cup {new}
    BY <1>0 DEF Ask, NewCall
  <1> HIDE DEF alpaca
  <1>3. /\ new \in Calls /\ new.req = r /\ new.point = p /\ new.awaited = TRUE
        /\ kind # "ALPACA" => new.running = FALSE
    BY <1>1 DEF Calls
  <1> HIDE DEF new
  <1> QED
    BY <1>0, <1>2, <1>3

LEMMA GoesOnKeepsCalls ==
  ASSUME CallsInv, NEW c \in calls, c.awaited = TRUE, NEW G, LeftOver(c, G),
         GoesOn(c, G), kind' = kind
  PROVE  CallsInv'
  <1> DEFINE r == c.req
  <1>1. /\ c \in Calls /\ r \in Requests /\ at[r] = c.point /\ c.point \in Points
        /\ at \in [Requests -> Points \cup Ends]
    BY DEF CallsInv, Shape, Awaiting, Calls
  <1>2. /\ G \subseteq Calls /\ IsFiniteSet(G)
        /\ \A d \in G : d.awaited = TRUE => d \in calls /\ d.req # r
        /\ \A d, e \in G : d.req = e.req /\ d.awaited = TRUE /\ e.awaited = TRUE => d = e
        /\ \A d \in G : d.awaited = FALSE => d.running = TRUE
        /\ kind = "IBKR" => \A d, e \in G :
             d.req = e.req /\ d.running = TRUE /\ e.running = TRUE => d = e
        /\ kind = "ALPACA" => \A d \in G : d.awaited = TRUE
    <2>1. /\ calls \subseteq Calls /\ IsFiniteSet(calls \ {c})
          /\ \A d \in calls : d.awaited = TRUE /\ d.req = r => d = c
      BY FS_RemoveElement DEF CallsInv, Shape, Awaiting
    <2>2. CASE G = calls \ {c}
      BY <2>1, <2>2 DEF CallsInv, Awaiting, LeftRunning, OneThread
    <2>3. CASE G # calls \ {c}
      <3>1. PICK x \in Calls :
              /\ x.req = r /\ x.running = TRUE /\ x.awaited = FALSE
              /\ G = (calls \ {c}) \cup {x}
              /\ c.running = TRUE /\ kind # "ALPACA"
        BY <2>3 DEF LeftOver
      <3>2. IsFiniteSet(G)
        BY <2>1, <3>1, FS_AddElement
      <3>3. kind = "IBKR" =>
              \A d \in calls \ {c} : d.running = TRUE => d.req # r
        BY <3>1 DEF CallsInv, OneThread
      <3>4. kind = "IBKR" => \A d, e \in G :
              d.req = e.req /\ d.running = TRUE /\ e.running = TRUE => d = e
        BY <3>1, <3>3 DEF CallsInv, OneThread
      <3> QED
        BY <2>1, <3>1, <3>2, <3>4 DEF CallsInv, Awaiting, LeftRunning
    <2> QED
      BY <2>2, <2>3
  <1>3. CASE Asks(r, G)
    <2>1. r \in Requests
      BY <1>1
    <2>2. PICK p \in Points, new \in Calls :
            /\ r = "status" => p \in {"health", "disconnect"}
            /\ new.req = r /\ new.point = p /\ new.awaited = TRUE
            /\ kind # "ALPACA" => new.running = FALSE
            /\ at' = [at EXCEPT ![r] = p] /\ calls' = G \cup {new}
      <3> HIDE DEF r
      <3> QED
        BY <1>3, <2>1, AskEffect
    <2>3. at' = [at EXCEPT ![r] = p] /\ calls' = G \cup {new}
      BY <2>2
    <2>4. /\ at' \in [Requests -> Points \cup Ends]
          /\ at'[r] = p /\ \A q \in Requests : q # r => at'[q] = at[q]
      BY <1>1, <2>3
    <2>5. Shape'
      <3>1. IsFiniteSet(calls')
        BY <1>2, <2>3, FS_AddElement
      <3> QED
        BY <1>2, <2>3, <2>4, <3>1 DEF CallsInv, Shape, GoesOn
    <2>6. Awaiting'
      <3>1. \A d \in calls' : d.awaited = TRUE => at'[d.req] = d.point
        BY <1>2, <2>2, <2>3, <2>4 DEF CallsInv, Awaiting, Calls
      <3>2. \A d, e \in calls' : d.req = e.req /\ d.awaited = TRUE /\ e.awaited = TRUE => d = e
        BY <1>2, <2>2, <2>3
      <3>3. at'["status"] \in {"idle", "connect", "health", "disconnect", "answered"}
        BY <2>2, <2>4 DEF CallsInv, Awaiting, Requests
      <3> QED
        BY <3>1, <3>2, <3>3 DEF Awaiting
    <2>7. LeftRunning' /\ OneThread' /\ (kind = "ALPACA" => \A d \in calls' : d.awaited = TRUE)
      BY <1>2, <2>2, <2>3 DEF LeftRunning, OneThread
    <2> QED
      BY <2>5, <2>6, <2>7 DEF CallsInv
  <1>4. CASE at' = [at EXCEPT ![r] = "answered"] /\ calls' = G
    <2>1. /\ at' \in [Requests -> Points \cup Ends]
          /\ at'[r] = "answered" /\ \A q \in Requests : q # r => at'[q] = at[q]
      BY <1>1, <1>4 DEF Ends
    <2>2. Shape'
      BY <1>2, <1>4, <2>1 DEF CallsInv, Shape, GoesOn
    <2>3. Awaiting'
      <3>1. \A d \in calls' : d.awaited = TRUE => at'[d.req] = d.point
        BY <1>2, <1>4, <2>1 DEF CallsInv, Awaiting, Calls
      <3>2. at'["status"] \in {"idle", "connect", "health", "disconnect", "answered"}
        BY <2>1 DEF CallsInv, Awaiting, Requests
      <3> QED
        BY <1>2, <1>4, <3>1, <3>2 DEF Awaiting
    <2>4. LeftRunning' /\ OneThread' /\ (kind = "ALPACA" => \A d \in calls' : d.awaited = TRUE)
      BY <1>2, <1>4 DEF LeftRunning, OneThread
    <2> QED
      BY <2>2, <2>3, <2>4 DEF CallsInv
  <1> QED
    BY <1>3, <1>4 DEF GoesOn

\* What the request of c has left behind is in order if its last call leaves it so.
LEMMA GoesOnKeepsRemains ==
  ASSUME CallsInv, Remains, NEW c \in calls, c.awaited = TRUE, NEW G, LeftOver(c, G),
         GoesOn(c, G), kind' = kind, dropped \subseteq dropped',
         \A q \in Requests : q # c.req /\ q \in sessions' => q \in sessions,
         c.point = "disconnect" /\ kind # "FUTU" /\ c.req \notin dropped' =>
           \/ {d \in G : d.req = c.req} = {} /\ c.req \notin sessions'
           \/ \E d \in G : d.req = c.req /\ d.point = "disconnect" /\ d.running = TRUE
  PROVE  Remains'
  <1> DEFINE r == c.req
  <1>1. /\ r \in Requests /\ at[r] = c.point
        /\ at \in [Requests -> Points \cup Ends]
    BY DEF CallsInv, Shape, Awaiting, Calls
  <1>2. \A q \in Requests : q # r => {d \in G : d.req = q} = {d \in calls : d.req = q}
    BY DEF LeftOver
  <1>3. CASE Asks(r, G)
    <2>1. r \in Requests
      BY <1>1
    <2>2. PICK p \in Points, new \in Calls :
            /\ r = "status" => p \in {"health", "disconnect"}
            /\ new.req = r /\ new.point = p /\ new.awaited = TRUE
            /\ kind # "ALPACA" => new.running = FALSE
            /\ at' = [at EXCEPT ![r] = p] /\ calls' = G \cup {new}
      <3> HIDE DEF r
      <3> QED
        BY <1>3, <2>1, AskEffect
    <2>3. at'[r] = p /\ p \notin {"idle", "answered"}
          /\ \A q \in Requests : q # r => at'[q] = at[q]
      BY <1>1, <2>2 DEF Points
    <2>4. \A q \in Requests : q # r => Of(q)' = Of(q)
      BY <1>2, <2>2 DEF Of
    <2> SUFFICES ASSUME NEW q \in Requests, q # r
                 PROVE  /\ at'[q] = "idle" => Of(q)' = {}
                        /\ at'[q] = "answered" /\ q \notin dropped' /\ kind # "FUTU" =>
                             \/ Of(q)' = {} /\ q \notin sessions'
                             \/ \E d \in Of(q)' : d.point = "disconnect" /\ d.running = TRUE
      BY <2>3 DEF Remains
    <2> QED
      BY <2>3, <2>4 DEF Remains
  <1>4. CASE at[r] = "disconnect" /\ at' = [at EXCEPT ![r] = "answered"] /\ calls' = G
    <2>1. at'[r] = "answered" /\ \A q \in Requests : q # r => at'[q] = at[q]
      BY <1>1, <1>4
    <2>2. \A q \in Requests : q # r => Of(q)' = Of(q)
      BY <1>2, <1>4 DEF Of
    <2>3. Of(r)' = {d \in G : d.req = r}
      BY <1>4 DEF Of
    <2>4. kind # "FUTU" /\ r \notin dropped' =>
            \/ Of(r)' = {} /\ r \notin sessions'
            \/ \E d \in Of(r)' : d.point = "disconnect" /\ d.running = TRUE
      BY <1>1, <1>4, <2>3
    <2> SUFFICES ASSUME NEW q \in Requests
                 PROVE  /\ at'[q] = "idle" => Of(q)' = {}
                        /\ at'[q] = "answered" /\ q \notin dropped' /\ kind # "FUTU" =>
                             \/ Of(q)' = {} /\ q \notin sessions'
                             \/ \E d \in Of(q)' : d.point = "disconnect" /\ d.running = TRUE
      BY DEF Remains
    <2>5. CASE q = r
      BY <2>1, <2>4, <2>5
    <2>6. CASE q # r
      BY <2>1, <2>2, <2>6 DEF Remains
    <2> QED
      BY <2>5, <2>6
  <1> QED
    BY <1>3, <1>4 DEF GoesOn

-----------------------------------------------------------------------------
(* The steps.                                                              *)

LEMMA InitIInv == Init => IInv
  <1> SUFFICES ASSUME Init PROVE IInv
    OBVIOUS
  <1>1. calls = {} /\ subs = {} /\ \A r \in Requests : at[r] = "idle"
    BY DEF Init
  <1>2. Shape
    <2>1. at \in [Requests -> Points \cup Ends]
      BY DEF Init, Ends
    <2>2. symbol \in Int /\ left \in Int
      BY DEF Init
    <2>3. kind \in {"IBKR", "FUTU", "ALPACA"}
      BY BridgeAssumption DEF Init
    <2> QED
      BY <1>1, <2>1, <2>2, <2>3, FS_EmptySet DEF Shape
  <1>3. Awaiting
    BY <1>1 DEF Awaiting, Requests
  <1>4. LeftRunning /\ AlpacaTidy /\ OneThread /\ Remains /\ SubscriptionsHeld
    BY <1>1 DEF LeftRunning, AlpacaTidy, OneThread, Remains, SubscriptionsHeld, Of
  <1> QED
    BY <1>2, <1>3, <1>4 DEF IInv

LEMMA BeginKeepsInv ==
  ASSUME IInv, NEW r \in Requests, Begin(r)
  PROVE  IInv'
  <1> DEFINE alpaca == kind = "ALPACA"
  <1>1. PICK new : new = [req |-> r, point |-> "connect", symbol |-> 0, contract |-> 0,
                          running |-> alpaca, awaited |-> TRUE]
    OBVIOUS
  <1>2. alpaca \in BOOLEAN /\ (kind # "ALPACA" => alpaca = FALSE)
    OBVIOUS
  <1>3. /\ at[r] = "idle" /\ at' = [at EXCEPT ![r] = "connect"] /\ calls' = calls \cup {new}
        /\ UNCHANGED <<kind, subs, kept, sessions, symbol, left, dropped>>
    BY <1>1 DEF Begin, Ask, NewCall, summary
  <1> HIDE DEF alpaca
  <1>4. /\ new \in Calls /\ new.req = r /\ new.point = "connect" /\ new.awaited = TRUE
        /\ kind # "ALPACA" => new.running = FALSE
    BY <1>1, <1>2 DEF Calls, Points
  <1>5. /\ at \in [Requests -> Points \cup Ends] /\ "connect" \in Points
        /\ Of(r) = {}
    BY <1>3 DEF IInv, Shape, Points, Remains
  <1>6. /\ at' \in [Requests -> Points \cup Ends] /\ at'[r] = "connect"
        /\ \A q \in Requests : q # r => at'[q] = at[q]
    BY <1>3, <1>5
  <1>7. Shape'
    <2>1. IsFiniteSet(calls')
      BY <1>3, FS_AddElement DEF IInv, Shape
    <2> QED
      BY <1>3, <1>4, <1>6, <2>1 DEF IInv, Shape
  <1>8. \A d \in calls : d.req # r
    BY <1>5 DEF Of
  <1>9. Awaiting'
    <2>1. \A d \in calls' : d.awaited = TRUE => at'[d.req] = d.point
      BY <1>3, <1>4, <1>6, <1>8 DEF IInv, Shape, Awaiting, Calls
    <2>2. \A d, e \in calls' : d.req = e.req /\ d.awaited = TRUE /\ e.awaited = TRUE => d = e
      BY <1>3, <1>4, <1>8 DEF IInv, Awaiting
    <2>3. at'["status"] \in {"idle", "connect", "health", "disconnect", "answered"}
      BY <1>6 DEF IInv, Awaiting, Requests
    <2> QED
      BY <2>1, <2>2, <2>3 DEF Awaiting
  <1>10. LeftRunning' /\ AlpacaTidy'
    BY <1>3, <1>4 DEF IInv, LeftRunning, AlpacaTidy
  <1>11. OneThread'
    BY <1>3, <1>4, <1>8 DEF IInv, OneThread
  <1>12. Remains'
    <2>1. \A q \in Requests : q # r => Of(q)' = Of(q)
      BY <1>3, <1>4 DEF Of
    <2> QED
      BY <1>3, <1>6, <2>1 DEF IInv, Remains
  <1>13. SubscriptionsHeld'
    BY <1>3 DEF IInv, SubscriptionsHeld
  <1> QED
    BY <1>7, <1>9, <1>10, <1>11, <1>12, <1>13 DEF IInv

LEMMA StartKeepsInv ==
  ASSUME IInv, NEW c \in calls, Start(c)
  PROVE  IInv'
  <1>0. c \in Calls
    BY DEF IInv, Shape
  <1>1. PICK x : x = [c EXCEPT !.running = TRUE]
    OBVIOUS
  <1>2. /\ x \in Calls /\ x.req = c.req /\ x.point = c.point /\ x.awaited = c.awaited
        /\ x.running = TRUE /\ x.symbol = c.symbol /\ x.contract = c.contract
    BY <1>0, <1>1 DEF Calls
  <1>3. /\ calls' = (calls \ {c}) \cup {x}
        /\ UNCHANGED <<kind, at, subs, kept, sessions, symbol, left, dropped>>
    BY <1>1 DEF Start, summary
  <1>4. c.running = FALSE /\ c.awaited = TRUE
    <2>1. c.running = FALSE
      BY <1>0, Zenon DEF Start, Calls
    <2>2. c.awaited \in BOOLEAN
      BY <1>0 DEF Calls
    <2> QED
      BY <2>1, <2>2 DEF IInv, LeftRunning
  <1>5. Shape'
    <2>1. IsFiniteSet(calls')
      BY <1>3, FS_AddElement, FS_RemoveElement DEF IInv, Shape
    <2> QED
      BY <1>2, <1>3, <2>1 DEF IInv, Shape
  <1>6. Awaiting'
    BY <1>2, <1>3, <1>4 DEF IInv, Awaiting
  <1>7. LeftRunning' /\ AlpacaTidy'
    BY <1>2, <1>3, <1>4 DEF IInv, LeftRunning, AlpacaTidy
  <1>8. OneThread'
    <2> SUFFICES ASSUME kind = "IBKR" PROVE OneThread'
      BY <1>3 DEF OneThread
    <2> DEFINE R == {other \in Of(c.req) : other.running}
    <2>1. IsFiniteSet(R)
      <3>1. IsFiniteSet(calls) /\ R \subseteq calls
        BY DEF IInv, Shape, Of
      <3> QED
        BY <3>1, FS_Subset
    <2>2. Cardinality(R) < 1
      BY DEF Start, Starts
    <2>3. R = {}
      BY <2>1, <2>2, FS_CardinalityType, FS_EmptySet
    <2>4. \A d \in calls : d.req = c.req => d.running # TRUE
      BY <2>3 DEF Of
    <2> HIDE DEF R
    <2> SUFFICES ASSUME NEW d \in calls', NEW e \in calls',
                        d.req = e.req, d.running = TRUE, e.running = TRUE
                 PROVE  d = e
      BY DEF OneThread
    <2>5. CASE d = x \/ e = x
      BY <1>2, <1>3, <2>4, <2>5
    <2>6. CASE d # x /\ e # x
      BY <1>3, <2>6 DEF IInv, OneThread
    <2> QED
      BY <2>5, <2>6
  <1>9. Remains'
    <2> SUFFICES ASSUME NEW q \in Requests
                 PROVE  /\ at[q] = "idle" => Of(q)' = {}
                        /\ at[q] = "answered" /\ q \notin dropped /\ kind # "FUTU" =>
                             \/ Of(q)' = {} /\ q \notin sessions
                             \/ \E d \in Of(q)' : d.point = "disconnect" /\ d.running = TRUE
      BY <1>3 DEF Remains
    <2>1. CASE q = c.req
      BY <1>0, <1>4, <2>1 DEF IInv, Awaiting, Calls, Points
    <2>2. CASE q # c.req
      <3>1. Of(q)' = Of(q)
        BY <1>2, <1>3, <2>2 DEF Of
      <3> QED
        BY <3>1 DEF IInv, Remains
    <2> QED
      BY <2>1, <2>2
  <1>10. SubscriptionsHeld'
    <2> SUFFICES ASSUME NEW y \in subs, ~ (kind = "FUTU" /\ y \in kept)
                 PROVE  \E d \in calls' : d.running /\ Slot(d) = y
      BY <1>3 DEF IInv, SubscriptionsHeld
    <2>1. PICK d \in calls : d.running /\ Slot(d) = y
      BY DEF IInv, SubscriptionsHeld
    <2>2. d # c
      BY <1>4, <2>1
    <2> QED
      BY <1>3, <2>1, <2>2
  <1> QED
    BY <1>5, <1>6, <1>7, <1>8, <1>9, <1>10 DEF IInv

LEMMA SubscribeKeepsInv ==
  ASSUME IInv, NEW c \in calls, Subscribe(c)
  PROVE  IInv'
  <1>1. /\ c.running /\ subs' = subs \cup {Slot(c)}
        /\ UNCHANGED <<kind, at, calls, kept, sessions, symbol, left, dropped>>
        /\ Slot(c)[1] \in sessions
    BY DEF Subscribe, Connected, Slot, summary
  <1>2. kind # "ALPACA"
    BY DEF Subscribe, Quoted
  <1>3. Shape' /\ Awaiting' /\ LeftRunning' /\ AlpacaTidy' /\ OneThread' /\ Remains'
    BY <1>1, <1>2 DEF IInv, Shape, Awaiting, LeftRunning, AlpacaTidy, OneThread, Remains, Of
  <1>4. SubscriptionsHeld'
    BY <1>1 DEF IInv, SubscriptionsHeld, Slot
  <1> QED
    BY <1>3, <1>4 DEF IInv

\* The end of a call takes back what the call has made, or it is known that it did not.
LEMMA EndEffects ==
  ASSUME NEW c, NEW o, Effects(c, o)
  PROVE  /\ subs' \subseteq subs
         /\ \A y \in subs' : y = Slot(c) => kind = "FUTU" /\ y \in kept'
         /\ \A y \in subs' : y \in kept => y \in kept'
         /\ \A y \in subs' : y[1] \in sessions => y[1] \in sessions'
         /\ \A q \in Requests : q # c.req /\ q \in sessions' => q \in sessions
         /\ c.point = "disconnect" /\ c.req \notin dropped' => c.req \notin sessions'
         /\ dropped \subseteq dropped' /\ dropped' \subseteq dropped \cup {c.req}
  <1>1. Slot(c)[1] = c.req
    BY DEF Slot
  <1>2. /\ \A q \in Requests : q # c.req /\ q \in sessions' => q \in sessions
        /\ c.point = "disconnect" /\ c.req \notin dropped' => c.req \notin sessions'
        /\ dropped \subseteq dropped' /\ dropped' \subseteq dropped \cup {c.req}
    BY DEF Effects, Session
  <1>3. CASE c.point = "disconnect" /\ o = "ok"
    <2>1. /\ subs' = OfOthers(subs, c) /\ kept' = OfOthers(kept, c)
          /\ sessions' = sessions \ {c.req}
      BY <1>3 DEF Effects, Session
    <2>2. \A y \in subs' : y # Slot(c) /\ y[1] # c.req /\ y \in subs
      BY <1>1, <2>1 DEF OfOthers
    <2> QED
      BY <1>2, <2>1, <2>2 DEF OfOthers
  <1>4. CASE ~ (c.point = "disconnect" /\ o = "ok")
    <2>1. PICK fails \in {{}, Uncancelled(c)} :
            /\ subs' = (subs \ {Slot(c)}) \cup fails
            /\ kept' = (kept \ {Slot(c)}) \cup fails
      BY <1>4 DEF Effects
    <2>2. fails \subseteq subs /\ fails \subseteq {Slot(c)} /\ (fails # {} => kind = "FUTU")
      BY <2>1 DEF Uncancelled
    <2>3. sessions \subseteq sessions'
      BY <1>4 DEF Effects, Session
    <2> QED
      BY <1>2, <2>1, <2>2, <2>3
  <1> QED
    BY <1>3, <1>4

LEMMA EndKeepsInv ==
  ASSUME IInv, NEW c \in calls, End(c)
  PROVE  IInv'
  <1>0. c \in Calls /\ c.req \in Requests /\ c.point \in Points
        /\ c.running = TRUE /\ c.awaited = TRUE
    <2>1. c \in Calls /\ c.running /\ c.awaited
      BY DEF IInv, Shape, End
    <2>2. c.running = TRUE /\ c.awaited = TRUE
      BY <2>1, Zenon DEF Calls
    <2> QED
      BY <2>1, <2>2 DEF Calls
  <1> DEFINE G == calls \ {c}
  <1>1. PICK o \in {"ok", "error", "limit", "empty", "timeout"} :
          Effects(c, o) /\ Resume(c.req, o, G)
    <2>1. PICK o \in Outcomes(c) : Effects(c, o) /\ Resume(c.req, o, G)
      BY DEF End
    <2>2. o \in {"ok", "error", "limit", "empty", "timeout"}
      BY <1>0 DEF Outcomes, ChainReplies, Replies, Points
    <2> QED
      BY <2>1, <2>2
  <1>2. kind' = kind
    BY DEF End
  <1>3. /\ at[c.req] = c.point
        /\ c.req = "status" => c.point \in {"connect", "health", "disconnect"}
    BY <1>0 DEF IInv, Awaiting, Points
  <1>4. GoesOn(c, G)
    BY <1>0, <1>1, <1>3, ResumeEffect DEF IInv, GoesOn
  <1>5. LeftOver(c, G)
    BY DEF LeftOver
  <1>6. CallsInv
    BY DEF IInv, CallsInv, AlpacaTidy
  <1>7. CallsInv'
    BY <1>0, <1>2, <1>4, <1>5, <1>6, GoesOnKeepsCalls
  <1>8. /\ subs' \subseteq subs
        /\ \A y \in subs' : y = Slot(c) => kind = "FUTU" /\ y \in kept'
        /\ \A y \in subs' : y \in kept => y \in kept'
        /\ \A y \in subs' : y[1] \in sessions => y[1] \in sessions'
        /\ \A q \in Requests : q # c.req /\ q \in sessions' => q \in sessions
        /\ c.point = "disconnect" /\ c.req \notin dropped' => c.req \notin sessions'
        /\ dropped \subseteq dropped'
    BY <1>1, EndEffects
  <1>9. Remains'
    <2>1. ASSUME kind # "FUTU"
          PROVE  {d \in G : d.req = c.req} = {}
      <3> SUFFICES ASSUME NEW d \in calls, d # c, d.req = c.req PROVE FALSE
        OBVIOUS
      <3>1. d \in Calls
        BY DEF IInv, Shape
      <3>2. d.awaited = FALSE
        BY <1>0, <3>1 DEF IInv, Awaiting, Calls
      <3>3. d.running = TRUE
        BY <3>2 DEF IInv, LeftRunning
      <3>4. kind # "IBKR" /\ kind # "ALPACA"
        BY <1>0, <3>2, <3>3 DEF IInv, OneThread, AlpacaTidy
      <3> QED
        BY <2>1, <3>4 DEF IInv, Shape
    <2> QED
      BY <1>0, <1>2, <1>4, <1>5, <1>6, <1>8, <2>1, GoesOnKeepsRemains DEF IInv
  <1>10. calls \ {c} \subseteq calls'
    BY <1>4 DEF GoesOn, Asks, Ask
  <1>11. SubscriptionsHeld'
    <2> SUFFICES ASSUME NEW y \in subs', ~ (kind = "FUTU" /\ y \in kept')
                 PROVE  \E d \in calls' : d.running /\ Slot(d) = y
      BY <1>2, <1>8 DEF IInv, SubscriptionsHeld
    <2>1. PICK d \in calls : d.running /\ Slot(d) = y
      BY <1>8 DEF IInv, SubscriptionsHeld
    <2> QED
      BY <1>8, <1>10, <2>1
  <1> QED
    BY <1>2, <1>7, <1>8, <1>9, <1>11 DEF IInv, CallsInv, AlpacaTidy

LEMMA TimeoutKeepsInv ==
  ASSUME IInv, NEW c \in calls, Timeout(c)
  PROVE  IInv'
  <1>0. c \in Calls /\ c.req \in Requests /\ c.point \in Points /\ c.awaited = TRUE
    <2>1. c \in Calls /\ c.awaited
      BY DEF IInv, Shape, Timeout
    <2>2. c.awaited = TRUE
      BY <2>1, Zenon DEF Calls
    <2> QED
      BY <2>1, <2>2 DEF Calls
  <1> DEFINE G == GivenUp(c)
             gone == ~ \E d \in G : d.req = c.req /\ d.point = c.point
  <1>1. /\ Resume(c.req, "timeout", G)
        /\ UNCHANGED <<kind, subs, kept, sessions>>
        /\ dropped' = IF c.point = "disconnect" /\ gone THEN dropped \cup {c.req} ELSE dropped
    BY DEF Timeout
  <1>2. \/ G = calls \ {c}
        \/ /\ c.running = TRUE /\ kind # "ALPACA"
           /\ G = (calls \ {c}) \cup {[c EXCEPT !.awaited = FALSE]}
    <2>1. CASE c.running /\ kind # "ALPACA"
      <3>1. c.running = TRUE
        BY <1>0, <2>1, Zenon DEF Calls
      <3> QED
        BY <2>1, <3>1 DEF GivenUp
    <2>2. CASE ~ (c.running /\ kind # "ALPACA")
      BY <2>2 DEF GivenUp
    <2> QED
      BY <2>1, <2>2
  <1>3. LeftOver(c, G)
    <2>1. CASE G = calls \ {c}
      BY <2>1 DEF LeftOver
    <2>2. CASE /\ c.running = TRUE /\ kind # "ALPACA"
               /\ G = (calls \ {c}) \cup {[c EXCEPT !.awaited = FALSE]}
      <3>1. PICK x : x = [c EXCEPT !.awaited = FALSE]
        OBVIOUS
      <3>2. /\ x \in Calls /\ x.req = c.req /\ x.point = c.point
            /\ x.symbol = c.symbol /\ x.contract = c.contract
            /\ x.running = TRUE /\ x.awaited = FALSE
        BY <1>0, <2>2, <3>1 DEF Calls
      <3>3. Slot(x) = Slot(c)
        BY <3>2 DEF Slot
      <3>4. G = (calls \ {c}) \cup {x}
        BY <2>2, <3>1
      <3> HIDE DEF G
      <3> QED
        BY <2>2, <3>2, <3>3, <3>4 DEF LeftOver
    <2> QED
      BY <1>2, <2>1, <2>2
  <1> HIDE DEF G
  <1>4. /\ at[c.req] = c.point
        /\ c.req = "status" => c.point \in {"connect", "health", "disconnect"}
    BY <1>0 DEF IInv, Awaiting, Points
  <1>5. GoesOn(c, G)
    BY <1>0, <1>1, <1>4, ResumeEffect DEF IInv, GoesOn
  <1>6. CallsInv
    BY DEF IInv, CallsInv, AlpacaTidy
  <1>7. CallsInv'
    BY <1>0, <1>1, <1>3, <1>5, <1>6, GoesOnKeepsCalls
  <1>8. Remains'
    <2>1. dropped \subseteq dropped'
      BY <1>1
    <2>2. ASSUME c.point = "disconnect", c.req \notin dropped'
          PROVE  \E d \in G : d.req = c.req /\ d.point = "disconnect" /\ d.running = TRUE
      <3>1. PICK d \in G : d.req = c.req /\ d.point = c.point
        BY <1>1, <2>2
      <3>2. d.running = TRUE
        <4>1. CASE d \in calls \ {c}
          <5>1. d \in Calls
            BY <4>1 DEF IInv, Shape
          <5>2. d.awaited = FALSE
            BY <1>0, <3>1, <4>1, <5>1 DEF IInv, Awaiting, Calls
          <5> QED
            BY <4>1, <5>2 DEF IInv, LeftRunning
        <4>2. CASE d \notin calls \ {c}
          BY <1>3, <3>1, <4>2 DEF LeftOver
        <4> QED
          BY <4>1, <4>2
      <3> QED
        BY <2>2, <3>1, <3>2
    <2> QED
      BY <1>0, <1>1, <1>3, <1>5, <1>6, <2>1, <2>2, GoesOnKeepsRemains DEF IInv
  <1>9. G \subseteq calls'
    BY <1>5 DEF GoesOn, Asks, Ask
  <1>10. SubscriptionsHeld'
    <2> SUFFICES ASSUME NEW y \in subs, ~ (kind = "FUTU" /\ y \in kept)
                 PROVE  \E d \in calls' : d.running /\ Slot(d) = y
      BY <1>1 DEF IInv, SubscriptionsHeld
    <2>1. PICK d \in calls : d.running /\ Slot(d) = y
      BY DEF IInv, SubscriptionsHeld
    <2>2. CASE d # c
      <3>1. d \in G
        BY <1>3, <2>2 DEF LeftOver
      <3> QED
        BY <1>9, <2>1, <3>1
    <2>3. CASE d = c
      <3>1. kind # "ALPACA" /\ c.running
        BY <2>1, <2>3 DEF IInv, AlpacaTidy
      <3>2. [c EXCEPT !.awaited = FALSE] \in G
        BY <3>1 DEF G, GivenUp
      <3>3. PICK x : x = [c EXCEPT !.awaited = FALSE]
        OBVIOUS
      <3>4. /\ x.req = c.req /\ x.point = c.point /\ x.symbol = c.symbol
            /\ x.contract = c.contract /\ x.running = c.running
        BY <1>0, <3>3 DEF Calls
      <3>5. Slot(x) = y /\ x.running
        BY <2>1, <2>3, <3>4 DEF Slot
      <3> QED
        BY <1>9, <3>2, <3>3, <3>5
    <2> QED
      BY <2>2, <2>3
  <1>11. kind' = kind /\ subs' = subs
    BY <1>1
  <1> QED
    BY <1>7, <1>8, <1>10, <1>11 DEF IInv, CallsInv, AlpacaTidy

LEMMA EndAbandonedKeepsInv ==
  ASSUME IInv, NEW c \in calls, EndAbandoned(c)
  PROVE  IInv'
  <1>1. /\ c \in Calls /\ calls' = calls \ {c}
        /\ UNCHANGED <<kind, at, symbol, left>>
    BY DEF IInv, Shape, EndAbandoned, summary
  <1>2. c.running = TRUE /\ c.awaited = FALSE
    <2>1. c.running /\ ~ c.awaited
      BY DEF EndAbandoned
    <2> QED
      BY <1>1, <2>1, Zenon DEF Calls
  <1>3. PICK o \in Outcomes(c) : Effects(c, o)
    BY DEF EndAbandoned
  <1>4. /\ subs' \subseteq subs
        /\ \A y \in subs' : y = Slot(c) => kind = "FUTU" /\ y \in kept'
        /\ \A y \in subs' : y \in kept => y \in kept'
        /\ \A y \in subs' : y[1] \in sessions => y[1] \in sessions'
        /\ \A q \in Requests : q # c.req /\ q \in sessions' => q \in sessions
        /\ c.point = "disconnect" /\ c.req \notin dropped' => c.req \notin sessions'
        /\ dropped \subseteq dropped'
    BY <1>3, EndEffects
  <1>5. Shape'
    <2>1. IsFiniteSet(calls')
      BY <1>1, FS_RemoveElement DEF IInv, Shape
    <2> QED
      BY <1>1, <2>1 DEF IInv, Shape
  <1>6. Awaiting' /\ LeftRunning' /\ OneThread'
    BY <1>1 DEF IInv, Awaiting, LeftRunning, OneThread
  <1>7. kind # "ALPACA"
    BY <1>2 DEF IInv, AlpacaTidy
  <1>8. AlpacaTidy'
    BY <1>1, <1>7 DEF AlpacaTidy
  <1>9. SubscriptionsHeld'
    <2> SUFFICES ASSUME NEW y \in subs', ~ (kind = "FUTU" /\ y \in kept')
                 PROVE  \E d \in calls' : d.running /\ Slot(d) = y
      BY <1>1, <1>4 DEF IInv, SubscriptionsHeld
    <2>1. PICK d \in calls : d.running /\ Slot(d) = y
      BY <1>4 DEF IInv, SubscriptionsHeld
    <2> QED
      BY <1>1, <1>4, <2>1
  <1>10. Remains'
    <2> SUFFICES ASSUME NEW q \in Requests
                 PROVE  /\ at[q] = "idle" => Of(q)' = {}
                        /\ at[q] = "answered" /\ q \notin dropped' /\ kind # "FUTU" =>
                             \/ Of(q)' = {} /\ q \notin sessions'
                             \/ \E d \in Of(q)' : d.point = "disconnect" /\ d.running = TRUE
      BY <1>1 DEF Remains
    <2>1. CASE q # c.req
      <3>1. Of(q)' = Of(q)
        BY <1>1, <2>1 DEF Of
      <3> QED
        BY <1>4, <2>1, <3>1 DEF IInv, Remains
    <2>2. CASE q = c.req
      <3>1. c \in Of(q)
        BY <2>2 DEF Of
      <3>2. at[q] # "idle"
        BY <3>1 DEF IInv, Remains
      <3>3. ASSUME at[q] = "answered", q \notin dropped', kind # "FUTU"
            PROVE  Of(q)' = {} /\ q \notin sessions'
        <4>1. PICK d \in Of(q) : d.point = "disconnect" /\ d.running = TRUE
          BY <1>4, <3>1, <3>3 DEF IInv, Remains
        <4>2. kind = "IBKR"
          BY <1>7, <3>3 DEF IInv, Shape
        <4>3. d = c
          BY <1>2, <2>2, <4>1, <4>2 DEF IInv, OneThread, Of
        <4>4. \A e \in calls : e.req = q => e = c
          <5> SUFFICES ASSUME NEW e \in calls, e.req = q PROVE e = c
            OBVIOUS
          <5>1. e \in Calls
            BY DEF IInv, Shape
          <5>2. e.awaited = FALSE
            BY <3>3, <5>1 DEF IInv, Awaiting, Calls, Points
          <5>3. e.running = TRUE
            BY <5>2 DEF IInv, LeftRunning
          <5> QED
            BY <1>2, <2>2, <4>2, <5>3 DEF IInv, OneThread
        <4> QED
          BY <1>1, <1>4, <2>2, <3>3, <4>1, <4>3, <4>4 DEF Of
      <3> QED
        BY <3>2, <3>3
    <2> QED
      BY <2>1, <2>2
  <1> QED
    BY <1>5, <1>6, <1>8, <1>9, <1>10 DEF IInv

LEMMA NextIInv == IInv /\ [Next]_vars => IInv'
  <1> SUFFICES ASSUME IInv, [Next]_vars PROVE IInv'
    OBVIOUS
  <1>1. ASSUME NEW r \in Requests, Begin(r) PROVE IInv'
    BY <1>1, BeginKeepsInv
  <1>2. ASSUME NEW c \in calls, Start(c) PROVE IInv'
    BY <1>2, StartKeepsInv
  <1>3. ASSUME NEW c \in calls, Subscribe(c) PROVE IInv'
    BY <1>3, SubscribeKeepsInv
  <1>4. ASSUME NEW c \in calls, End(c) PROVE IInv'
    BY <1>4, EndKeepsInv
  <1>5. ASSUME NEW c \in calls, Timeout(c) PROVE IInv'
    BY <1>5, TimeoutKeepsInv
  <1>6. ASSUME NEW c \in calls, EndAbandoned(c) PROVE IInv'
    BY <1>6, EndAbandonedKeepsInv
  <1>7. CASE UNCHANGED vars
    BY <1>7 DEF vars, client, summary, IInv, Shape, Awaiting, LeftRunning, AlpacaTidy,
                OneThread, Remains, SubscriptionsHeld, Of
  <1> QED
    BY <1>1, <1>2, <1>3, <1>4, <1>5, <1>6, <1>7 DEF Next

LEMMA AlwaysIInv == Spec => []IInv
  BY InitIInv, NextIInv, PTL DEF Spec

-----------------------------------------------------------------------------
\* A subscription at the gateway belongs to a call that runs, whatever was given up: no
\* thread is forgotten before it has cancelled (ibkr/client.py, futu/client.py).
THEOREM SubscriptionsEnd == Spec => []SubscriptionsHeld
  BY AlwaysIInv, PTL DEF IInv

\* A request that has been answered, and has no thread left, holds no session of IBKR's
\* gateway or Alpaca's unless its disconnection was given up before it ran (bridge.py).
THEOREM SessionsEnd == Spec => []SessionReleased
  <1>1. IInv => SessionReleased
    BY DEF IInv, Remains, SessionReleased
  <1> QED
    BY <1>1, AlwaysIInv, PTL

-----------------------------------------------------------------------------
(* Sums and counts over the symbols.                                       *)

\* The library's sum over a set is the function of its subsets that takes an element
\* off at a time.
Pick(t) == CHOOSE y \in t : TRUE
Sums(w, h, S) ==
  w = [t \in SUBSET S |-> IF t = {} THEN 0 ELSE h[Pick(t)] + w[t \ {Pick(t)}]]

Total(h, S)    == MapThenSumSet(LAMBDA s : h[s], S)
HasTotal(h, S) == \E w : Sums(w, h, S) /\ w \in [SUBSET S -> Int]

LEMMA TotalIs ==
  ASSUME NEW h, NEW S
  PROVE  Total(h, S) = (CHOOSE w : Sums(w, h, S))[S]
  BY DEF Total, MapThenSumSet, MapThenFoldSet, Sums, Pick

\* There is one such function for a finite set: a smallest subset where two
\* differ would be one element more than one where they agree.
LEMMA SumsUnique ==
  ASSUME NEW S, IsFiniteSet(S), NEW h, NEW w, NEW v, Sums(w, h, S), Sums(v, h, S)
  PROVE  w = v
  <1> DEFINE T == {t \in SUBSET S : w[t] # v[t]}
  <1>1. ASSUME T # {} PROVE FALSE
    <2>1. T \subseteq FiniteSubsetsOf(S)
      <3> SUFFICES ASSUME NEW t \in T PROVE t \in SUBSET S /\ IsFiniteSet(t)
        BY DEF FiniteSubsetsOf
      <3> QED
        BY FS_Subset
    <2>2. IsWellFoundedOn(StrictSubsetOrdering(S), FiniteSubsetsOf(S))
      BY FS_StrictSubsetOrderingWellFounded
    <2>3. PICK t \in T : \A u \in T : ~ (<<u, t>> \in StrictSubsetOrdering(S))
      <3> HIDE DEF T
      <3> QED
        BY <1>1, <2>1, <2>2, WFMin
    <2>4. t \in SUBSET S /\ w[t] # v[t]
      OBVIOUS
    <2> DEFINE u == t \ {Pick(t)}
    <2>5. /\ w[t] = IF t = {} THEN 0 ELSE h[Pick(t)] + w[u]
          /\ v[t] = IF t = {} THEN 0 ELSE h[Pick(t)] + v[u]
      BY <2>4 DEF Sums
    <2>6. t # {} /\ w[u] # v[u]
      BY <2>4, <2>5
    <2>7. Pick(t) \in t
      BY <2>6 DEF Pick
    <2>8. u \in T /\ u \in SUBSET S /\ u # t /\ u \subseteq t
      BY <2>4, <2>6, <2>7
    <2> HIDE DEF T, u
    <2>9. <<u, t>> \in StrictSubsetOrdering(S)
      BY <2>4, <2>8 DEF StrictSubsetOrdering
    <2> QED
      BY <2>3, <2>8, <2>9
  <1>2. \A t \in SUBSET S : w[t] = v[t]
    BY <1>1
  <1> QED
    <2>1. w = [t \in SUBSET S |-> w[t]] /\ v = [t \in SUBSET S |-> v[t]]
      BY DEF Sums
    <2> QED
      BY <1>2, <2>1, Zenon

LEMMA TotalOf ==
  ASSUME NEW S, IsFiniteSet(S), NEW h, NEW w, Sums(w, h, S)
  PROVE  Total(h, S) = w[S]
  <1>1. Sums(CHOOSE v : Sums(v, h, S), h, S)
    OBVIOUS
  <1>2. (CHOOSE v : Sums(v, h, S)) = w
    BY <1>1, SumsUnique
  <1> QED
    BY <1>2, TotalIs

LEMMA TotalZero ==
  ASSUME NEW S, IsFiniteSet(S)
  PROVE  HasTotal([s \in S |-> 0], S) /\ Total([s \in S |-> 0], S) = 0
  <1> DEFINE h == [s \in S |-> 0]
             w == [t \in SUBSET S |-> 0]
  <1>1. Sums(w, h, S)
    <2> SUFFICES ASSUME NEW t \in SUBSET S
                 PROVE  0 = IF t = {} THEN 0 ELSE h[Pick(t)] + w[t \ {Pick(t)}]
      BY DEF Sums
    <2>1. t # {} => Pick(t) \in t
      BY DEF Pick
    <2> QED
      BY <2>1
  <1>2. w \in [SUBSET S -> Int] /\ w[S] = 0
    OBVIOUS
  <1> HIDE DEF w, h
  <1>3. HasTotal(h, S) /\ Total(h, S) = 0
    BY <1>1, <1>2, TotalOf DEF HasTotal
  <1> QED
    BY <1>3 DEF h

\* The total grows by what is put where there was nothing.
LEMMA TotalPut ==
  ASSUME NEW S, IsFiniteSet(S), NEW h \in [S -> Int], HasTotal(h, S),
         NEW x \in S, h[x] = 0, NEW n \in Int
  PROVE  LET g == [h EXCEPT ![x] = n] IN
         HasTotal(g, S) /\ Total(g, S) = Total(h, S) + n
  <1> DEFINE g == [h EXCEPT ![x] = n]
             extra(t) == IF x \in t THEN n ELSE 0
  <1>1. PICK w : Sums(w, h, S) /\ w \in [SUBSET S -> Int]
    BY DEF HasTotal
  <1> DEFINE v == [t \in SUBSET S |-> w[t] + extra(t)]
  <1>2. Sums(v, g, S)
    <2> SUFFICES ASSUME NEW t \in SUBSET S
                 PROVE  v[t] = IF t = {} THEN 0 ELSE g[Pick(t)] + v[t \ {Pick(t)}]
      BY DEF Sums
    <2>1. w[t] = IF t = {} THEN 0 ELSE h[Pick(t)] + w[t \ {Pick(t)}]
      BY <1>1 DEF Sums
    <2>2. CASE t = {}
      BY <2>1, <2>2
    <2>3. CASE t # {}
      <3>1. PICK p \in t : p = Pick(t)
        BY <2>3 DEF Pick
      <3>2. PICK u \in SUBSET S : u = t \ {p}
        OBVIOUS
      <3>3. w[t] = h[p] + w[u] /\ w[u] \in Int /\ h[p] \in Int /\ w[t] \in Int
        BY <1>1, <2>1, <2>3, <3>1, <3>2
      <3>4. v[t] = w[t] + extra(t) /\ v[u] = w[u] + extra(u)
        OBVIOUS
      <3>5. CASE p = x
        <4>1. g[p] = n /\ h[p] = 0 /\ extra(t) = n /\ extra(u) = 0
          BY <3>2, <3>5
        <4> HIDE DEF v, extra, g
        <4>2. v[t] = g[p] + v[u]
          BY <3>3, <3>4, <4>1
        <4> QED
          BY <2>3, <3>1, <3>2, <4>2
      <3>6. CASE p # x
        <4>1. g[p] = h[p] /\ extra(t) = extra(u) /\ extra(t) \in Int
          BY <3>2, <3>6
        <4> HIDE DEF v, extra, g
        <4>2. v[t] = g[p] + v[u]
          BY <3>3, <3>4, <4>1
        <4> QED
          BY <2>3, <3>1, <3>2, <4>2
      <3> QED
        BY <3>5, <3>6
    <2> QED
      BY <2>2, <2>3
  <1>3. v \in [SUBSET S -> Int] /\ v[S] = w[S] + n
    BY <1>1
  <1> HIDE DEF v, g
  <1>4. Total(h, S) = w[S] /\ Total(g, S) = v[S]
    BY <1>1, <1>2, TotalOf
  <1>5. HasTotal(g, S) /\ Total(g, S) = Total(h, S) + n
    BY <1>2, <1>3, <1>4 DEF HasTotal
  <1> QED
    BY <1>5 DEF g

LEMMA SymbolsFinite == IsFiniteSet(SymbolIds)
  BY FS_Interval, BridgeAssumption DEF SymbolIds

LEMMA TotalInt ==
  ASSUME NEW S, IsFiniteSet(S), NEW h, HasTotal(h, S)
  PROVE  Total(h, S) \in Int
  <1>1. PICK w : Sums(w, h, S) /\ w \in [SUBSET S -> Int]
    BY DEF HasTotal
  <1> QED
    BY <1>1, TotalOf

LEMMA SubsetCounts ==
  ASSUME NEW X, X \subseteq SymbolIds
  PROVE  IsFiniteSet(X) /\ Cardinality(X) \in Nat
  BY SymbolsFinite, FS_Subset, FS_CardinalityType

\* A symbol that was in neither count goes into one.
LEMMA CountPut ==
  ASSUME NEW f, DOMAIN f = SymbolIds, NEW X, NEW x \in SymbolIds, NEW y, f[x] \notin X
  PROVE  LET g == [f EXCEPT ![x] = y]
             before == {s \in SymbolIds : f[s] \in X}
             after  == {s \in SymbolIds : g[s] \in X}
         IN /\ Cardinality(before) \in Nat
            /\ Cardinality(after) = Cardinality(before) + (IF y \in X THEN 1 ELSE 0)
  <1> DEFINE g == [f EXCEPT ![x] = y]
             before == {s \in SymbolIds : f[s] \in X}
             after  == {s \in SymbolIds : g[s] \in X}
  <1>1. IsFiniteSet(before) /\ x \notin before
    <2>1. before \subseteq SymbolIds
      OBVIOUS
    <2> QED
      BY <2>1, SymbolsFinite, FS_Subset
  <1>2. Cardinality(before) \in Nat
    BY <1>1, FS_CardinalityType
  <1>3. CASE y \in X
    <2>1. after = before \cup {x}
      BY <1>3
    <2> HIDE DEF after, before
    <2>2. Cardinality(after) = Cardinality(before) + 1
      BY <1>1, <2>1, FS_AddElement
    <2> QED
      BY <1>2, <1>3, <2>2 DEF after, before
  <1>4. CASE y \notin X
    <2>1. after = before
      BY <1>4
    <2> HIDE DEF after, before
    <2>2. Cardinality(after) = Cardinality(before) + 0
      BY <1>2, <2>1
    <2> QED
      BY <1>2, <1>4, <2>2 DEF after, before
  <1> QED
    BY <1>3, <1>4

-----------------------------------------------------------------------------
(* The summary of a collection.                                            *)

\* The types of the summary.
Typed ==
  /\ symbol \in SymbolIds /\ left \in 0..MaxContracts /\ got \in 0..MaxContracts
  /\ stored \in [SymbolIds -> 0..MaxContracts]
  /\ status \in [SymbolIds -> Refused \cup {"NONE", "PENDING", "SAVED"}]
  /\ stocks \subseteq SymbolIds /\ priced \subseteq SymbolIds
  /\ stock_quotes_saved \in Nat /\ succeeded \in Nat /\ failed \in Nat /\ counted \in Nat
  /\ retry \in BOOLEAN /\ result \in {"none", "summary", "error"}
  /\ overcount \in BOOLEAN /\ faults \in 0..MaxFaults

Ended   == at["collect"] \in {"disconnect", "answered"}
Unpriced == at["collect"] \in {"idle", "connect", "stock"}
Decided == Refused \cup {"SAVED"}
Saved   == {s \in SymbolIds : status[s] \in {"SAVED"}}
Lacking == {s \in SymbolIds : status[s] \in Refused}

\* Where the collection is in its symbols and contracts, and what it can have counted.
Progress ==
  /\ at["collect"] # "health"
  /\ at["collect"] # "quote" => got = 0
  /\ at["collect"] = "quote" => left >= 1
  /\ got + left <= MaxContracts
  /\ LET through == IF Ended THEN symbol ELSE symbol - 1 IN
     /\ succeeded <= through /\ failed <= 2 * through
     /\ counted <= through * MaxContracts
  /\ LET asked == IF Unpriced THEN symbol - 1 ELSE symbol IN
     /\ stock_quotes_saved <= asked
     /\ \A s \in stocks : s <= asked
  /\ ~ Ended =>
       /\ result = "none"
       /\ \A s \in SymbolIds : IF s < symbol THEN status[s] \in Decided
                               ELSE status[s] \in {"NONE", "PENDING"}
  /\ Ended /\ result = "summary" /\ retry = FALSE =>
       \A s \in SymbolIds : status[s] \in Decided

\* Rows, statuses and counters agree all the way, unless a transaction is rolled back.
Tally ==
  result # "error" =>
    /\ \A s \in SymbolIds : status[s] = "SAVED" <=> stored[s] > 0
    /\ HasTotal(stored, SymbolIds) /\ priced = stocks
    /\ stock_quotes_saved >= Cardinality(stocks) /\ counted >= Total(stored, SymbolIds)
    /\ succeeded >= Cardinality(Saved) /\ failed >= Cardinality(Lacking)
    /\ ~ overcount => /\ stock_quotes_saved = Cardinality(stocks)
                      /\ counted = Total(stored, SymbolIds)
                      /\ succeeded = Cardinality(Saved) /\ failed = Cardinality(Lacking)

SInv == Typed /\ Progress /\ Tally

\* The collection is through with a symbol: x is its status, n rows are left of it, and
\* spent statements were refused.  It goes to the next symbol, or the transaction ends.
Through(x, n, spent) ==
  LET table == [stored EXCEPT ![symbol] = n] IN
  /\ x \in Decided /\ n \in 0..MaxContracts /\ (x = "SAVED" <=> n > 0)
  /\ status' = [status EXCEPT ![symbol] = x]
  /\ got' = 0 /\ left' = 0 /\ retry' \in BOOLEAN /\ overcount' \in BOOLEAN
  /\ spent \in {0, 1} /\ faults + spent <= MaxFaults
  /\ succeeded' \in {succeeded, succeeded + 1}
  /\ failed' \in {failed, failed + 1, failed + 2}
  /\ succeeded' >= succeeded + (IF x = "SAVED" THEN 1 ELSE 0)
  /\ failed' >= failed + (IF x \in Refused THEN 1 ELSE 0)
  /\ \E k \in 0..MaxContracts : counted' = counted + k /\ k >= n
  /\ priced' = priced /\ stock_quotes_saved' = stock_quotes_saved
  /\ ~ overcount' => /\ ~ overcount
                     /\ succeeded' = succeeded + (IF x = "SAVED" THEN 1 ELSE 0)
                     /\ failed' = failed + (IF x \in Refused THEN 1 ELSE 0)
                     /\ counted' = counted + n
  /\ \/ /\ symbol' = symbol /\ at'["collect"] = "disconnect"
        /\ symbol = Symbols \/ retry' = TRUE
        /\ \/ result' = "summary" /\ stored' = table /\ stocks' = stocks /\ faults' = faults + spent
           \/ /\ result' = "error" /\ stored' = [s \in SymbolIds |-> 0] /\ stocks' = {}
              /\ faults + spent < MaxFaults /\ faults' = faults + spent + 1
     \/ /\ symbol # Symbols /\ symbol' = symbol + 1 /\ at'["collect"] = "stock"
        /\ stored' = table /\ stocks' = stocks /\ faults' = faults + spent /\ result' = result

LEMMA ThroughKeepsSummary ==
  ASSUME SInv, at["collect"] \in {"stock", "chain", "quote"},
         NEW x, NEW n, NEW spent, Through(x, n, spent)
  PROVE  SInv'
  <1>0. /\ symbol \in SymbolIds /\ SymbolIds = 1..Symbols /\ SymbolIds \subseteq Int
        /\ Symbols \in Nat /\ MaxContracts \in Nat /\ MaxFaults \in Nat
        /\ symbol \in Int /\ symbol >= 1 /\ symbol <= Symbols
    BY BridgeAssumption DEF SInv, Typed, SymbolIds
  <1>1. /\ x \in Decided /\ n \in 0..MaxContracts /\ (x = "SAVED" <=> n > 0)
        /\ status' = [status EXCEPT ![symbol] = x]
        /\ got' = 0 /\ left' = 0 /\ retry' \in BOOLEAN /\ overcount' \in BOOLEAN
        /\ spent \in {0, 1} /\ faults + spent <= MaxFaults
        /\ succeeded' \in {succeeded, succeeded + 1}
        /\ failed' \in {failed, failed + 1, failed + 2}
        /\ succeeded' >= succeeded + (IF x = "SAVED" THEN 1 ELSE 0)
        /\ failed' >= failed + (IF x \in Refused THEN 1 ELSE 0)
        /\ priced' = priced /\ stock_quotes_saved' = stock_quotes_saved
        /\ ~ overcount' => /\ ~ overcount
                           /\ succeeded' = succeeded + (IF x = "SAVED" THEN 1 ELSE 0)
                           /\ failed' = failed + (IF x \in Refused THEN 1 ELSE 0)
                           /\ counted' = counted + n
    BY DEF Through
  <1>2. PICK k \in 0..MaxContracts : counted' = counted + k /\ k >= n
    BY DEF Through
  <1> DEFINE table == [stored EXCEPT ![symbol] = n]
  <1>3. \/ /\ symbol' = symbol /\ at'["collect"] = "disconnect"
           /\ symbol = Symbols \/ retry' = TRUE
           /\ \/ result' = "summary" /\ stored' = table /\ stocks' = stocks /\ faults' = faults + spent
              \/ /\ result' = "error" /\ stored' = [s \in SymbolIds |-> 0] /\ stocks' = {}
                 /\ faults + spent < MaxFaults /\ faults' = faults + spent + 1
        \/ /\ symbol # Symbols /\ symbol' = symbol + 1 /\ at'["collect"] = "stock"
           /\ stored' = table /\ stocks' = stocks /\ faults' = faults + spent /\ result' = result
    BY DEF Through
  <1>4. /\ stored \in [SymbolIds -> 0..MaxContracts]
        /\ status \in [SymbolIds -> Refused \cup {"NONE", "PENDING", "SAVED"}]
        /\ succeeded \in Nat /\ failed \in Nat /\ counted \in Nat /\ faults \in 0..MaxFaults
        /\ left \in 0..MaxContracts /\ got \in 0..MaxContracts
        /\ stocks \subseteq SymbolIds /\ priced \subseteq SymbolIds /\ stock_quotes_saved \in Nat
    BY DEF SInv, Typed
  <1>5. ~ Ended /\ result = "none"
    BY DEF SInv, Progress, Ended
  <1>6. /\ succeeded <= symbol - 1 /\ failed <= 2 * (symbol - 1)
        /\ counted <= (symbol - 1) * MaxContracts
        /\ \A s \in SymbolIds : IF s < symbol THEN status[s] \in Decided
                                ELSE status[s] \in {"NONE", "PENDING"}
    BY <1>5 DEF SInv, Progress
  <1>7. status[symbol] \in {"NONE", "PENDING"} /\ stored[symbol] = 0
    <2>1. status[symbol] \in {"NONE", "PENDING"}
      BY <1>0, <1>6
    <2>2. ~ (stored[symbol] > 0)
      BY <1>0, <1>5, <2>1 DEF SInv, Tally
    <2> QED
      BY <1>0, <1>4, <2>1, <2>2
  <1>8. (symbol - 1) * MaxContracts + MaxContracts = symbol * MaxContracts
    BY <1>0
  <1>9. /\ succeeded' \in Nat /\ failed' \in Nat /\ counted' \in Nat
        /\ succeeded' <= symbol /\ failed' <= 2 * symbol /\ counted' <= symbol * MaxContracts
    <2>1. PICK a \in Int : a = (symbol - 1) * MaxContracts
      BY <1>0
    <2>2. PICK b \in Int : b = symbol * MaxContracts
      BY <1>0
    <2>3. counted <= a /\ a + MaxContracts = b
      BY <1>6, <1>8, <2>1, <2>2
    <2>4. counted' \in Nat /\ counted' <= b
      BY <1>0, <1>2, <1>4, <2>1, <2>2, <2>3
    <2> QED
      BY <1>0, <1>1, <1>4, <1>6, <2>2, <2>4
  <1>10. table \in [SymbolIds -> 0..MaxContracts]
    BY <1>1, <1>4
  <1>11. /\ \A s \in SymbolIds : status'[s] = IF s = symbol THEN x ELSE status[s]
         /\ \A s \in SymbolIds : table[s] = IF s = symbol THEN n ELSE stored[s]
         /\ status' \in [SymbolIds -> Refused \cup {"NONE", "PENDING", "SAVED"}]
    BY <1>1, <1>4 DEF Decided
  <1>12. Typed'
    <2>1. symbol' \in SymbolIds
      BY <1>0, <1>3
    <2>2. faults' \in 0..MaxFaults
      BY <1>0, <1>1, <1>3, <1>4
    <2>3. stored' \in [SymbolIds -> 0..MaxContracts]
      <3>1. stored' = table \/ stored' = [s \in SymbolIds |-> 0]
        BY <1>3
      <3>2. [s \in SymbolIds |-> 0] \in [SymbolIds -> 0..MaxContracts]
        BY <1>0
      <3> QED
        BY <1>10, <3>1, <3>2
    <2>4. result' \in {"none", "summary", "error"}
      BY <1>3, <1>5
    <2>5. left' \in 0..MaxContracts /\ got' \in 0..MaxContracts
      BY <1>0, <1>1
    <2>6. stocks' \subseteq SymbolIds /\ priced' \subseteq SymbolIds /\ stock_quotes_saved' \in Nat
      BY <1>1, <1>3, <1>4
    <2> HIDE DEF table
    <2> QED
      BY <1>1, <1>9, <1>11, <2>1, <2>2, <2>3, <2>4, <2>5, <2>6 DEF Typed
  <1>13. /\ stock_quotes_saved' <= (IF Unpriced' THEN symbol' - 1 ELSE symbol')
         /\ \A s \in stocks' : s <= (IF Unpriced' THEN symbol' - 1 ELSE symbol')
    <2>1. stock_quotes_saved <= symbol /\ \A s \in stocks : s <= symbol
      <3>1. CASE Unpriced
        <4>1. stock_quotes_saved <= symbol - 1 /\ \A s \in stocks : s <= symbol - 1
          BY <3>1 DEF SInv, Progress
        <4>2. stocks \subseteq Int
          BY <1>0, <1>4
        <4> QED
          BY <1>0, <1>4, <4>1, <4>2
      <3>2. CASE ~ Unpriced
        BY <3>2 DEF SInv, Progress
      <3> QED
        BY <3>1, <3>2
    <2>2. (IF Unpriced' THEN symbol' - 1 ELSE symbol') = symbol
      BY <1>0, <1>3 DEF Unpriced
    <2>3. stocks' \subseteq stocks
      BY <1>3
    <2> QED
      BY <1>1, <2>1, <2>2, <2>3
  <1>14. Progress'
    <2>1. /\ got' = 0 /\ got' + left' <= MaxContracts
          /\ at'["collect"] # "quote" /\ at'["collect"] # "health"
      BY <1>0, <1>1, <1>3
    <2>2. CASE at'["collect"] = "disconnect"
      <3>1. symbol' = symbol /\ Ended'
        BY <1>3, <2>2 DEF Ended
      <3>2. ASSUME retry' = FALSE, NEW s \in SymbolIds PROVE status'[s] \in Decided
        <4>1. symbol = Symbols
          BY <1>3, <2>2, <3>2
        <4>2. s = symbol \/ s < symbol
          BY <1>0, <4>1
        <4> QED
          BY <1>1, <1>6, <1>11, <4>2
      <3> QED
        BY <1>9, <1>13, <2>1, <3>1, <3>2 DEF Progress
    <2>3. CASE at'["collect"] = "stock"
      <3>1. symbol' = symbol + 1 /\ result' = "none" /\ ~ Ended' /\ symbol' - 1 = symbol
        BY <1>0, <1>3, <1>5, <2>3 DEF Ended
      <3>2. ASSUME NEW s \in SymbolIds
            PROVE  IF s < symbol' THEN status'[s] \in Decided
                   ELSE status'[s] \in {"NONE", "PENDING"}
        <4>1. s \in Int
          BY <1>0
        <4>2. CASE s = symbol
          BY <1>0, <1>1, <1>11, <3>1, <4>2
        <4>3. CASE s # symbol
          <5>1. s < symbol' <=> s < symbol
            BY <1>0, <3>1, <4>1, <4>3
          <5> QED
            BY <1>6, <1>11, <4>3, <5>1
        <4> QED
          BY <4>2, <4>3
      <3> QED
        BY <1>9, <1>13, <2>1, <3>1, <3>2 DEF Progress
    <2> QED
      BY <1>3, <2>2, <2>3
  <1>15. Tally'
    <2> SUFFICES ASSUME result' # "error" PROVE Tally'
      BY DEF Tally
    <2>1. stored' = table /\ stocks' = stocks
      BY <1>3
    <2>2. /\ \A s \in SymbolIds : status[s] = "SAVED" <=> stored[s] > 0
          /\ HasTotal(stored, SymbolIds) /\ priced = stocks
          /\ stock_quotes_saved >= Cardinality(stocks) /\ counted >= Total(stored, SymbolIds)
          /\ succeeded >= Cardinality(Saved) /\ failed >= Cardinality(Lacking)
          /\ ~ overcount => /\ stock_quotes_saved = Cardinality(stocks)
                            /\ counted = Total(stored, SymbolIds)
                            /\ succeeded = Cardinality(Saved) /\ failed = Cardinality(Lacking)
      BY <1>5 DEF SInv, Tally
    <2>3. \A s \in SymbolIds : status'[s] = "SAVED" <=> stored'[s] > 0
      BY <1>1, <1>11, <2>1, <2>2
    <2>4. HasTotal(table, SymbolIds) /\ Total(table, SymbolIds) = Total(stored, SymbolIds) + n
      <3>1. stored \in [SymbolIds -> Int] /\ n \in Int
        BY <1>0, <1>1, <1>4
      <3> QED
        BY <1>0, <1>7, <2>2, <3>1, SymbolsFinite, TotalPut
    <2>5. DOMAIN status = SymbolIds
      BY <1>4
    <2>6. Cardinality(Saved') = Cardinality(Saved) + (IF x = "SAVED" THEN 1 ELSE 0)
      <3>1. PICK X : X = {"SAVED"}
        OBVIOUS
      <3>2. status[symbol] \notin X
        BY <1>7, <3>1
      <3>3. Cardinality({s \in SymbolIds : [status EXCEPT ![symbol] = x][s] \in X})
              = Cardinality({s \in SymbolIds : status[s] \in X}) + (IF x \in X THEN 1 ELSE 0)
        BY <1>0, <2>5, <3>2, CountPut
      <3> QED
        BY <1>1, <3>1, <3>3 DEF Saved
    <2>7. Cardinality(Lacking') = Cardinality(Lacking) + (IF x \in Refused THEN 1 ELSE 0)
      <3>1. status[symbol] \notin Refused
        BY <1>7 DEF Refused
      <3> QED
        BY <1>0, <1>1, <2>5, <3>1, CountPut DEF Lacking
    <2>8. /\ Cardinality(Saved) \in Nat /\ Cardinality(Lacking) \in Nat
          /\ Total(stored, SymbolIds) \in Int
      BY <2>2, SubsetCounts, SymbolsFinite, TotalInt DEF Saved, Lacking
    <2>9. /\ counted' >= Total(table, SymbolIds)
          /\ succeeded' >= Cardinality(Saved') /\ failed' >= Cardinality(Lacking')
      <3> HIDE DEF table
      <3>1. counted' >= Total(table, SymbolIds)
        BY <1>0, <1>1, <1>2, <1>4, <2>2, <2>4, <2>8
      <3>2. succeeded' >= Cardinality(Saved')
        BY <1>1, <1>4, <2>2, <2>6, <2>8
      <3>3. failed' >= Cardinality(Lacking')
        BY <1>1, <1>4, <2>2, <2>7, <2>8
      <3> QED
        BY <3>1, <3>2, <3>3
    <2> HIDE DEF table
    <2>10. ~ overcount' => /\ stock_quotes_saved' = Cardinality(stocks')
                           /\ counted' = Total(table, SymbolIds)
                           /\ succeeded' = Cardinality(Saved') /\ failed' = Cardinality(Lacking')
      BY <1>1, <2>1, <2>2, <2>4, <2>6, <2>7
    <2>11. priced' = stocks' /\ stock_quotes_saved' >= Cardinality(stocks')
      BY <1>1, <2>1, <2>2
    <2> QED
      BY <2>1, <2>3, <2>4, <2>9, <2>10, <2>11 DEF Tally
  <1> QED
    BY <1>12, <1>14, <1>15 DEF SInv

\* A call as a request makes it: one that can subscribe is about a symbol.
ProperCalls ==
  {c \in Call : c.point \in {"stock", "chain", "quote"} => c.symbol \in SymbolIds}

LEMMA AskProper ==
  ASSUME at \in [Requests -> Points \cup Ends], NEW r \in Requests, NEW p \in Points,
         NEW s \in 0..Symbols, NEW k \in 0..MaxContracts, NEW rest, Ask(r, p, s, k, rest),
         p \in {"stock", "chain", "quote"} => s \in SymbolIds
  PROVE  /\ calls' \subseteq rest \cup ProperCalls
         /\ at' = [at EXCEPT ![r] = p] /\ at'[r] = p
  <1> DEFINE runs == kind = "ALPACA"
             new == [req |-> r, point |-> p, symbol |-> s, contract |-> k,
                     running |-> runs, awaited |-> TRUE]
  <1>1. runs \in BOOLEAN
    OBVIOUS
  <1>2. at' = [at EXCEPT ![r] = p] /\ calls' = rest \cup {new}
    BY DEF Ask, NewCall
  <1> HIDE DEF runs
  <1>3. new \in ProperCalls
    BY <1>1 DEF ProperCalls, Call
  <1> HIDE DEF new
  <1> QED
    BY <1>2, <1>3

LEMMA CommitEnds ==
  ASSUME at \in [Requests -> Points \cup Ends], NEW rows, NEW spent, NEW rest,
         Commit(rows, spent, rest)
  PROVE  /\ at'["collect"] = "disconnect" /\ calls' \subseteq rest \cup ProperCalls
         /\ \/ result' = "summary" /\ stored' = rows /\ stocks' = stocks /\ faults' = faults + spent
            \/ /\ result' = "error" /\ stored' = [s \in SymbolIds |-> 0] /\ stocks' = {}
               /\ faults + spent < MaxFaults /\ faults' = faults + spent + 1
  <1>1. Ask("collect", "disconnect", 0, 0, rest)
    BY DEF Commit
  <1>2. "collect" \in Requests /\ "disconnect" \in Points /\ 0 \in 0..Symbols
        /\ 0 \in 0..MaxContracts
    BY BridgeAssumption DEF Requests, Points
  <1>3. at'["collect"] = "disconnect" /\ calls' \subseteq rest \cup ProperCalls
    BY <1>1, <1>2, AskProper
  <1> QED
    BY <1>3 DEF Commit

LEMMA LeaveEnds ==
  ASSUME at \in [Requests -> Points \cup Ends], symbol \in SymbolIds,
         NEW n, NEW spent, NEW rest, Leave(n, spent, rest)
  PROVE  LET table == [stored EXCEPT ![symbol] = n] IN
         /\ got' = 0 /\ left' = 0 /\ calls' \subseteq rest \cup ProperCalls
         /\ \/ /\ symbol' = symbol /\ at'["collect"] = "disconnect" /\ symbol = Symbols
               /\ \/ result' = "summary" /\ stored' = table /\ stocks' = stocks /\ faults' = faults + spent
                  \/ /\ result' = "error" /\ stored' = [s \in SymbolIds |-> 0] /\ stocks' = {}
                     /\ faults + spent < MaxFaults /\ faults' = faults + spent + 1
            \/ /\ symbol # Symbols /\ symbol' = symbol + 1 /\ at'["collect"] = "stock"
               /\ stored' = table /\ stocks' = stocks /\ faults' = faults + spent /\ result' = result
  <1> DEFINE table == [stored EXCEPT ![symbol] = n]
  <1>1. got' = 0 /\ left' = 0
    BY DEF Leave
  <1>2. CASE symbol = Symbols
    <2>1. Commit(table, spent, rest) /\ symbol' = symbol
      BY <1>2 DEF Leave
    <2> HIDE DEF table
    <2>2. /\ at'["collect"] = "disconnect" /\ calls' \subseteq rest \cup ProperCalls
          /\ \/ result' = "summary" /\ stored' = table /\ stocks' = stocks /\ faults' = faults + spent
             \/ /\ result' = "error" /\ stored' = [s \in SymbolIds |-> 0] /\ stocks' = {}
                /\ faults + spent < MaxFaults /\ faults' = faults + spent + 1
      BY <2>1, CommitEnds
    <2> QED
      BY <1>1, <1>2, <2>1, <2>2 DEF table
  <1>3. CASE symbol # Symbols
    <2>1. /\ Ask("collect", "stock", symbol + 1, 0, rest) /\ symbol' = symbol + 1
          /\ stored' = table /\ stocks' = stocks /\ faults' = faults + spent /\ result' = result
      BY <1>3 DEF Leave
    <2>2. /\ "collect" \in Requests /\ "stock" \in Points /\ 0 \in 0..MaxContracts
          /\ symbol + 1 \in 0..Symbols /\ symbol + 1 \in SymbolIds
      BY <1>3, BridgeAssumption DEF Requests, Points, SymbolIds
    <2>3. at'["collect"] = "stock" /\ calls' \subseteq rest \cup ProperCalls
      BY <2>1, <2>2, AskProper
    <2> QED
      BY <1>1, <1>3, <2>1, <2>3
  <1> QED
    BY <1>2, <1>3

\* What the ways to be through with a symbol come to.
LEMMA RefuseThrough ==
  ASSUME SInv, at \in [Requests -> Points \cup Ends], NEW why \in Refused, NEW rest,
         Refuse(why, rest)
  PROVE  Through(why, 0, 0) /\ calls' \subseteq rest \cup ProperCalls
  <1>1. /\ symbol \in SymbolIds /\ MaxContracts \in Nat /\ faults \in 0..MaxFaults
        /\ MaxFaults \in Nat /\ retry \in BOOLEAN /\ overcount \in BOOLEAN
        /\ succeeded \in Nat /\ failed \in Nat /\ counted \in Nat
    BY BridgeAssumption DEF SInv, Typed
  <1>2. why # "SAVED" /\ why \in Decided
    BY DEF Refused, Decided
  <1>3. /\ status' = [status EXCEPT ![symbol] = why] /\ failed' = failed + 1
        /\ Leave(0, 0, rest)
        /\ UNCHANGED <<priced, stock_quotes_saved, succeeded, counted, retry, overcount>>
    BY DEF Refuse
  <1>4. LET table == [stored EXCEPT ![symbol] = 0] IN
         /\ got' = 0 /\ left' = 0 /\ calls' \subseteq rest \cup ProperCalls
         /\ \/ /\ symbol' = symbol /\ at'["collect"] = "disconnect" /\ symbol = Symbols
               /\ \/ result' = "summary" /\ stored' = table /\ stocks' = stocks /\ faults' = faults + 0
                  \/ /\ result' = "error" /\ stored' = [s \in SymbolIds |-> 0] /\ stocks' = {}
                     /\ faults + 0 < MaxFaults /\ faults' = faults + 0 + 1
            \/ /\ symbol # Symbols /\ symbol' = symbol + 1 /\ at'["collect"] = "stock"
               /\ stored' = table /\ stocks' = stocks /\ faults' = faults + 0 /\ result' = result
    BY <1>1, <1>3, LeaveEnds
  <1>5. \E k \in 0..MaxContracts : counted' = counted + k /\ k >= 0
    BY <1>1, <1>3
  <1>6. /\ 0 \in 0..MaxContracts /\ faults + 0 <= MaxFaults
        /\ succeeded' = succeeded + 0 /\ counted' = counted + 0
    BY <1>1, <1>3
  <1> QED
    BY <1>1, <1>2, <1>3, <1>4, <1>5, <1>6 DEF Through

LEMMA RefuseWithinThrough ==
  ASSUME SInv, at \in [Requests -> Points \cup Ends], NEW why \in Refused, NEW rest,
         RefuseWithin(why, rest), ~ Refuse(why, rest)
  PROVE  Through("FAILED", 0, 1) /\ calls' \subseteq rest \cup ProperCalls
  <1>1. /\ symbol \in SymbolIds /\ MaxContracts \in Nat /\ faults \in 0..MaxFaults
        /\ MaxFaults \in Nat /\ retry \in BOOLEAN /\ overcount \in BOOLEAN
        /\ succeeded \in Nat /\ failed \in Nat /\ counted \in Nat
    BY BridgeAssumption DEF SInv, Typed
  <1>2. "FAILED" \in Refused /\ "FAILED" \in Decided /\ "FAILED" # "SAVED"
    BY DEF Refused, Decided
  <1>3. /\ faults < MaxFaults /\ overcount' = TRUE
        /\ status' = [status EXCEPT ![symbol] = "FAILED"] /\ failed' = failed + 2
        /\ Leave(0, 1, rest)
        /\ UNCHANGED <<priced, stock_quotes_saved, succeeded, counted, retry>>
    BY DEF RefuseWithin
  <1>4. LET table == [stored EXCEPT ![symbol] = 0] IN
         /\ got' = 0 /\ left' = 0 /\ calls' \subseteq rest \cup ProperCalls
         /\ \/ /\ symbol' = symbol /\ at'["collect"] = "disconnect" /\ symbol = Symbols
               /\ \/ result' = "summary" /\ stored' = table /\ stocks' = stocks /\ faults' = faults + 1
                  \/ /\ result' = "error" /\ stored' = [s \in SymbolIds |-> 0] /\ stocks' = {}
                     /\ faults + 1 < MaxFaults /\ faults' = faults + 1 + 1
            \/ /\ symbol # Symbols /\ symbol' = symbol + 1 /\ at'["collect"] = "stock"
               /\ stored' = table /\ stocks' = stocks /\ faults' = faults + 1 /\ result' = result
    BY <1>1, <1>3, LeaveEnds
  <1>5. /\ 0 \in 0..MaxContracts /\ faults + 1 <= MaxFaults /\ counted' = counted + 0
        /\ succeeded' = succeeded /\ succeeded' >= succeeded + 0 /\ failed' >= failed + 1
    BY <1>1, <1>3
  <1> QED
    BY <1>1, <1>2, <1>3, <1>4, <1>5 DEF Through

LEMMA BreakThrough ==
  ASSUME SInv, at \in [Requests -> Points \cup Ends], at["collect"] \in {"stock", "chain", "quote"},
         NEW why \in Refused, NEW rest, Break(why, rest)
  PROVE  Through(why, 0, 0) /\ calls' \subseteq rest \cup ProperCalls
  <1>1. /\ symbol \in SymbolIds /\ MaxContracts \in Nat /\ faults \in 0..MaxFaults
        /\ MaxFaults \in Nat /\ retry \in BOOLEAN /\ overcount \in BOOLEAN
        /\ succeeded \in Nat /\ failed \in Nat /\ counted \in Nat
        /\ stored \in [SymbolIds -> 0..MaxContracts] /\ symbol \in Int
    BY BridgeAssumption DEF SInv, Typed, SymbolIds
  <1>2. why # "SAVED" /\ why \in Decided
    BY DEF Refused, Decided
  <1>3. /\ status' = [status EXCEPT ![symbol] = why] /\ failed' = failed + 1
        /\ retry' = TRUE /\ got' = 0 /\ left' = 0
        /\ Commit(stored, 0, rest)
        /\ UNCHANGED <<symbol, priced, stock_quotes_saved, succeeded, counted, overcount>>
    BY DEF Break
  <1>4. stored = [stored EXCEPT ![symbol] = 0]
    <2>1. result = "none" /\ status[symbol] \in {"NONE", "PENDING"}
      BY <1>1 DEF SInv, Progress, Ended
    <2>2. ~ (stored[symbol] > 0)
      BY <1>1, <2>1 DEF SInv, Tally
    <2>3. stored[symbol] = 0
      BY <1>1, <2>2
    <2> QED
      BY <1>1, <2>3
  <1>5. /\ at'["collect"] = "disconnect" /\ calls' \subseteq rest \cup ProperCalls
        /\ \/ result' = "summary" /\ stored' = stored /\ stocks' = stocks /\ faults' = faults + 0
           \/ /\ result' = "error" /\ stored' = [s \in SymbolIds |-> 0] /\ stocks' = {}
              /\ faults + 0 < MaxFaults /\ faults' = faults + 0 + 1
    BY <1>3, CommitEnds
  <1>6. \E k \in 0..MaxContracts : counted' = counted + k /\ k >= 0
    BY <1>1, <1>3
  <1>7. /\ 0 \in 0..MaxContracts /\ faults + 0 <= MaxFaults
        /\ succeeded' = succeeded + 0 /\ counted' = counted + 0
    BY <1>1, <1>3
  <1> QED
    BY <1>1, <1>2, <1>3, <1>4, <1>5, <1>6, <1>7 DEF Through

LEMMA KeepThrough ==
  ASSUME SInv, at \in [Requests -> Points \cup Ends], NEW n \in 1..MaxContracts, NEW rest,
         KeepQuotes(n, rest)
  PROVE  Through("SAVED", n, 0) /\ calls' \subseteq rest \cup ProperCalls
  <1>1. /\ symbol \in SymbolIds /\ MaxContracts \in Nat /\ faults \in 0..MaxFaults
        /\ MaxFaults \in Nat /\ retry \in BOOLEAN /\ overcount \in BOOLEAN
        /\ succeeded \in Nat /\ failed \in Nat /\ counted \in Nat
    BY BridgeAssumption DEF SInv, Typed
  <1>2. "SAVED" \notin Refused /\ "SAVED" \in Decided
    BY DEF Refused, Decided
  <1>3. /\ status' = [status EXCEPT ![symbol] = "SAVED"]
        /\ counted' = counted + n /\ succeeded' = succeeded + 1
        /\ Leave(n, 0, rest)
        /\ UNCHANGED <<priced, stock_quotes_saved, failed, retry, overcount>>
    BY DEF KeepQuotes
  <1>4. LET table == [stored EXCEPT ![symbol] = n] IN
         /\ got' = 0 /\ left' = 0 /\ calls' \subseteq rest \cup ProperCalls
         /\ \/ /\ symbol' = symbol /\ at'["collect"] = "disconnect" /\ symbol = Symbols
               /\ \/ result' = "summary" /\ stored' = table /\ stocks' = stocks /\ faults' = faults + 0
                  \/ /\ result' = "error" /\ stored' = [s \in SymbolIds |-> 0] /\ stocks' = {}
                     /\ faults + 0 < MaxFaults /\ faults' = faults + 0 + 1
            \/ /\ symbol # Symbols /\ symbol' = symbol + 1 /\ at'["collect"] = "stock"
               /\ stored' = table /\ stocks' = stocks /\ faults' = faults + 0 /\ result' = result
    BY <1>1, <1>3, LeaveEnds
  <1>5. n \in 0..MaxContracts /\ n > 0 /\ faults + 0 <= MaxFaults /\ failed' = failed + 0
    BY <1>1, <1>3
  <1> QED
    BY <1>1, <1>2, <1>3, <1>4, <1>5 DEF Through

LEMMA LoseThrough ==
  ASSUME SInv, at \in [Requests -> Points \cup Ends], NEW n \in 1..MaxContracts, NEW rest,
         LoseQuotes(n, rest)
  PROVE  Through("FAILED", 0, 1) /\ calls' \subseteq rest \cup ProperCalls
  <1>1. /\ symbol \in SymbolIds /\ MaxContracts \in Nat /\ faults \in 0..MaxFaults
        /\ MaxFaults \in Nat /\ retry \in BOOLEAN /\ overcount \in BOOLEAN
        /\ succeeded \in Nat /\ failed \in Nat /\ counted \in Nat
    BY BridgeAssumption DEF SInv, Typed
  <1>2. "FAILED" \in Refused /\ "FAILED" \in Decided
    BY DEF Refused, Decided
  <1>3. /\ status' = [status EXCEPT ![symbol] = "FAILED"]
        /\ counted' = counted + n /\ succeeded' = succeeded + 1 /\ failed' = failed + 1
        /\ Leave(0, 1, rest) /\ faults < MaxFaults /\ overcount' = TRUE
        /\ UNCHANGED <<priced, stock_quotes_saved, retry>>
    BY DEF LoseQuotes
  <1>4. LET table == [stored EXCEPT ![symbol] = 0] IN
         /\ got' = 0 /\ left' = 0 /\ calls' \subseteq rest \cup ProperCalls
         /\ \/ /\ symbol' = symbol /\ at'["collect"] = "disconnect" /\ symbol = Symbols
               /\ \/ result' = "summary" /\ stored' = table /\ stocks' = stocks /\ faults' = faults + 1
                  \/ /\ result' = "error" /\ stored' = [s \in SymbolIds |-> 0] /\ stocks' = {}
                     /\ faults + 1 < MaxFaults /\ faults' = faults + 1 + 1
            \/ /\ symbol # Symbols /\ symbol' = symbol + 1 /\ at'["collect"] = "stock"
               /\ stored' = table /\ stocks' = stocks /\ faults' = faults + 1 /\ result' = result
    BY <1>1, <1>3, LeaveEnds
  <1>5. n \in 0..MaxContracts /\ 0 \in 0..MaxContracts /\ faults + 1 <= MaxFaults
    BY <1>1, <1>3
  <1> QED
    BY <1>1, <1>2, <1>3, <1>4, <1>5 DEF Through

\* A step that leaves the summary alone and the collection among its symbols, or ended.
LEMMA SameSummary ==
  ASSUME SInv, UNCHANGED <<summary, overcount, faults>>, Ended' <=> Ended,
         Unpriced' <=> Unpriced,
         at'["collect"] = "quote" <=> at["collect"] = "quote", at'["collect"] # "health"
  PROVE  SInv'
  <1>1. Typed' /\ Tally'
    BY DEF SInv, Typed, Tally, summary, stock, Saved, Lacking
  <1>2. Progress'
    BY DEF SInv, Progress, summary, stock
  <1> QED
    BY <1>1, <1>2 DEF SInv

LEMMA ConnectKeepsSummary ==
  ASSUME SInv, at \in [Requests -> Points \cup Ends], at["collect"] = "connect",
         NEW o, NEW rest, AfterConnect("collect", o, rest)
  PROVE  SInv' /\ calls' \subseteq rest \cup ProperCalls
  <1>0. /\ "collect" \in Requests /\ {"stock", "disconnect"} \subseteq Points
        /\ 0 \in 0..MaxContracts /\ 0 \in 0..Symbols /\ 1 \in 0..Symbols /\ 1 \in SymbolIds
    BY BridgeAssumption DEF Requests, Points, SymbolIds
  <1>1. CASE o # "ok"
    <2>1. /\ Ask("collect", "disconnect", 0, 0, rest) /\ result' = "error"
          /\ UNCHANGED <<symbol, left, got, stocks, priced, stock_quotes_saved, stored, status,
                         succeeded, failed, counted, retry, overcount, faults>>
      BY <1>1 DEF AfterConnect, stock
    <2>2. at'["collect"] = "disconnect" /\ calls' \subseteq rest \cup ProperCalls
      BY <1>0, <2>1, AskProper
    <2>3. Typed' /\ Tally'
      BY <2>1 DEF SInv, Typed, Tally
    <2>4. ~ Ended /\ Ended' /\ Unpriced /\ ~ Unpriced'
      BY <2>2 DEF Ended, Unpriced
    <2>5. /\ symbol \in Int /\ symbol >= 1 /\ MaxContracts \in Nat
          /\ succeeded \in Nat /\ failed \in Nat /\ counted \in Nat
          /\ stock_quotes_saved \in Nat /\ stocks \subseteq Int
      BY BridgeAssumption DEF SInv, Typed, SymbolIds
    <2>6. /\ succeeded <= symbol - 1 /\ failed <= 2 * (symbol - 1)
          /\ counted <= (symbol - 1) * MaxContracts
          /\ stock_quotes_saved <= symbol - 1 /\ \A s \in stocks : s <= symbol - 1
      BY <2>4 DEF SInv, Progress
    <2>7. (symbol - 1) * MaxContracts + MaxContracts = symbol * MaxContracts
      BY <2>5
    <2>8. /\ succeeded <= symbol /\ failed <= 2 * symbol /\ counted <= symbol * MaxContracts
          /\ stock_quotes_saved <= symbol /\ \A s \in stocks : s <= symbol
      <3>1. PICK a \in Int : a = (symbol - 1) * MaxContracts
        BY <2>5
      <3>2. PICK b \in Int : b = symbol * MaxContracts
        BY <2>5
      <3>3. counted <= a /\ a + MaxContracts = b
        BY <2>6, <2>7, <3>1, <3>2
      <3> QED
        BY <2>5, <2>6, <3>2, <3>3
    <2>9. Progress'
      BY <2>1, <2>2, <2>4, <2>8 DEF SInv, Progress
    <2> QED
      BY <2>2, <2>3, <2>9 DEF SInv
  <1>2. CASE o = "ok"
    <2>1. Ask("collect", "stock", 1, 0, rest) /\ UnchangedSummary
      BY <1>2 DEF AfterConnect
    <2>2. at'["collect"] = "stock" /\ calls' \subseteq rest \cup ProperCalls
      BY <1>0, <2>1, AskProper
    <2>3. UNCHANGED <<summary, overcount, faults>> /\ (Ended' <=> Ended) /\ (Unpriced' <=> Unpriced)
      BY <2>1, <2>2 DEF UnchangedSummary, Ended, Unpriced
    <2> QED
      BY <2>2, <2>3, SameSummary
  <1> QED
    BY <1>1, <1>2

LEMMA StockKeepsSummary ==
  ASSUME SInv, at \in [Requests -> Points \cup Ends], at["collect"] = "stock",
         NEW o, NEW rest, AfterStock(o, rest)
  PROVE  SInv' /\ calls' \subseteq rest \cup ProperCalls
  <1>1. CASE o = "limit"
    <2>1. Break("SKIPPED", rest) /\ "SKIPPED" \in Refused
      BY <1>1 DEF AfterStock, Refused
    <2>2. Through("SKIPPED", 0, 0) /\ calls' \subseteq rest \cup ProperCalls
      BY <2>1, BreakThrough
    <2> QED
      BY <2>2, ThroughKeepsSummary
  <1>2. CASE o # "limit"
    <2>1. /\ status' = [status EXCEPT ![symbol] = "PENDING"]
          /\ Ask("collect", "chain", symbol, 0, rest)
          /\ UNCHANGED <<symbol, left, got, stored, succeeded, failed, counted, retry, result>>
          /\ SaveStock \/ UNCHANGED <<stocks, priced, stock_quotes_saved, overcount, faults>>
      BY <1>2 DEF AfterStock, stock
    <2>2. /\ symbol \in SymbolIds /\ symbol \in Int /\ SymbolIds \subseteq Int
          /\ symbol \in 0..Symbols /\ 0 \in 0..MaxContracts
          /\ "collect" \in Requests /\ "chain" \in Points
      BY BridgeAssumption DEF SInv, Typed, SymbolIds, Requests, Points
    <2>3. at'["collect"] = "chain" /\ calls' \subseteq rest \cup ProperCalls
      BY <2>1, <2>2, AskProper
    <2>4. ~ Ended /\ ~ Ended' /\ Unpriced /\ ~ Unpriced'
      BY <2>3 DEF Ended, Unpriced
    <2>5. status[symbol] \in {"NONE", "PENDING"} /\ result = "none"
      BY <2>2, <2>4 DEF SInv, Progress
    <2>11. /\ stocks \subseteq SymbolIds /\ priced = stocks /\ stock_quotes_saved \in Nat
           /\ stock_quotes_saved <= symbol - 1 /\ \A s \in stocks : s <= symbol - 1
           /\ faults \in 0..MaxFaults /\ MaxFaults \in Nat /\ overcount \in BOOLEAN
      BY <2>4, <2>5, BridgeAssumption DEF SInv, Typed, Progress, Tally
    <2>12. /\ stocks' \subseteq SymbolIds /\ priced' = stocks' /\ stock_quotes_saved' \in Nat
           /\ stock_quotes_saved' <= symbol /\ \A s \in stocks' : s <= symbol
           /\ faults' \in 0..MaxFaults /\ overcount' \in BOOLEAN
           /\ ~ overcount' => ~ overcount
      <3>1. CASE SaveStock
        <4>1. /\ stock_quotes_saved' = stock_quotes_saved + 1
              /\ \/ /\ stocks' = stocks \cup {symbol} /\ priced' = priced \cup {symbol}
                    /\ overcount' = overcount /\ faults' = faults
                 \/ /\ faults < MaxFaults /\ faults' = faults + 1 /\ overcount' = TRUE
                    /\ stocks' = stocks /\ priced' = priced
          BY <3>1 DEF SaveStock
        <4>2. stocks' \subseteq stocks \cup {symbol} /\ priced' = stocks'
          BY <2>11, <4>1
        <4>3. \A s \in stocks' : s <= symbol
          BY <2>2, <2>11, <4>2
        <4>4. faults' \in 0..MaxFaults
          BY <2>11, <4>1
        <4>5. overcount' \in BOOLEAN /\ (~ overcount' => ~ overcount)
          BY <2>11, <4>1, Zenon
        <4> QED
          BY <2>2, <2>11, <4>1, <4>2, <4>3, <4>4, <4>5
      <3>2. CASE UNCHANGED <<stocks, priced, stock_quotes_saved, overcount, faults>>
        <4>1. \A s \in stocks : s <= symbol
          BY <2>2, <2>11
        <4> QED
          BY <2>2, <2>11, <3>2, <4>1
      <3> QED
        BY <2>1, <3>1, <3>2
    <2>13. /\ stock_quotes_saved' >= Cardinality(stocks')
           /\ ~ overcount' => stock_quotes_saved' = Cardinality(stocks')
      <3>1. /\ stock_quotes_saved >= Cardinality(stocks)
            /\ ~ overcount => stock_quotes_saved = Cardinality(stocks)
        BY <2>5 DEF SInv, Tally
      <3>2. IsFiniteSet(stocks) /\ Cardinality(stocks) \in Nat /\ symbol \notin stocks
        <4>1. symbol \notin stocks
          BY <2>2, <2>11
        <4> QED
          BY <2>11, <4>1, SubsetCounts
      <3>3. Cardinality(stocks \cup {symbol}) = Cardinality(stocks) + 1
        BY <3>2, FS_AddElement
      <3>4. CASE SaveStock
        <4>1. CASE stocks' = stocks \cup {symbol} /\ overcount' = overcount
          BY <2>11, <3>1, <3>2, <3>3, <3>4, <4>1 DEF SaveStock
        <4>2. CASE overcount' = TRUE /\ stocks' = stocks
          BY <2>11, <3>1, <3>2, <3>4, <4>2 DEF SaveStock
        <4> QED
          BY <3>4, <4>1, <4>2 DEF SaveStock
      <3>5. CASE UNCHANGED <<stocks, priced, stock_quotes_saved, overcount, faults>>
        BY <3>1, <3>5
      <3> QED
        BY <2>1, <3>4, <3>5
    <2>6. /\ \A s \in SymbolIds : status'[s] = IF s = symbol THEN "PENDING" ELSE status[s]
          /\ status' \in [SymbolIds -> Refused \cup {"NONE", "PENDING", "SAVED"}]
      BY <2>1, <2>2 DEF SInv, Typed
    <2>7. Saved' = Saved /\ Lacking' = Lacking
      BY <2>5, <2>6 DEF Saved, Lacking, Refused
    <2>8. Typed'
      BY <2>1, <2>6, <2>12 DEF SInv, Typed
    <2>9. Tally'
      <3>1. \A s \in SymbolIds : status'[s] = "SAVED" <=> status[s] = "SAVED"
        BY <2>5, <2>6
      <3> QED
        BY <2>1, <2>5, <2>7, <2>12, <2>13, <3>1 DEF SInv, Tally
    <2>10. Progress'
      <3>1. \A s \in SymbolIds : IF s < symbol THEN status'[s] \in Decided
                                 ELSE status'[s] \in {"NONE", "PENDING"}
        BY <2>2, <2>4, <2>6 DEF SInv, Progress
      <3> QED
        BY <2>1, <2>3, <2>4, <2>12, <3>1 DEF SInv, Progress
    <2> QED
      BY <2>3, <2>8, <2>9, <2>10 DEF SInv
  <1> QED
    BY <1>1, <1>2

LEMMA ChainKeepsSummary ==
  ASSUME SInv, at \in [Requests -> Points \cup Ends], at["collect"] = "chain",
         NEW o \in {"ok", "error", "limit", "empty", "timeout"}, NEW rest, AfterChain(o, rest)
  PROVE  SInv' /\ calls' \subseteq rest \cup ProperCalls
  <1>1. CASE o = "limit"
    <2>1. Break("FAILED", rest) /\ "FAILED" \in Refused
      BY <1>1 DEF AfterChain, Refused
    <2>2. Through("FAILED", 0, 0) /\ calls' \subseteq rest \cup ProperCalls
      BY <2>1, BreakThrough
    <2> QED
      BY <2>2, ThroughKeepsSummary
  <1>2. CASE o \in {"empty", "timeout", "error"}
    <2>1. PICK why \in Refused : RefuseWithin(why, rest)
      BY <1>2 DEF AfterChain, RefuseWithin, Refused
    <2>2. \/ Through(why, 0, 0) /\ calls' \subseteq rest \cup ProperCalls
          \/ Through("FAILED", 0, 1) /\ calls' \subseteq rest \cup ProperCalls
      BY <2>1, RefuseThrough, RefuseWithinThrough
    <2> QED
      BY <2>2, ThroughKeepsSummary
  <1>3. CASE o = "ok"
    <2>1. PICK n \in Selected :
            /\ left' = n /\ Ask("collect", "quote", symbol, n, rest)
            /\ UNCHANGED <<symbol, got, stocks, priced, stock_quotes_saved, stored, status,
                           succeeded, failed, counted, retry, result, overcount, faults>>
      BY <1>3 DEF AfterChain, stock
    <2>2. /\ symbol \in SymbolIds /\ symbol \in 0..Symbols /\ MaxContracts \in Nat
          /\ n \in 0..MaxContracts /\ n >= 1 /\ n \in Int
          /\ "collect" \in Requests /\ "quote" \in Points
      BY BridgeAssumption DEF SInv, Typed, SymbolIds, Selected, Requests, Points
    <2>3. at'["collect"] = "quote" /\ calls' \subseteq rest \cup ProperCalls
      BY <2>1, <2>2, AskProper
    <2>4. ~ Ended /\ ~ Ended' /\ ~ Unpriced /\ ~ Unpriced' /\ got = 0
      BY <2>3 DEF Ended, Unpriced, SInv, Progress
    <2>5. Typed' /\ Tally'
      BY <2>1, <2>2 DEF SInv, Typed, Tally, Saved, Lacking
    <2>6. Progress'
      <3>1. got' + left' <= MaxContracts /\ left' >= 1
        BY <2>1, <2>2, <2>4
      <3> QED
        BY <2>1, <2>3, <2>4, <3>1 DEF SInv, Progress
    <2> QED
      BY <2>3, <2>5, <2>6 DEF SInv
  <1> QED
    BY <1>1, <1>2, <1>3

LEMMA QuoteKeepsSummary ==
  ASSUME SInv, at \in [Requests -> Points \cup Ends], at["collect"] = "quote",
         NEW n \in {got, got + 1}, NEW rest, AfterQuote(n, rest)
  PROVE  SInv' /\ calls' \subseteq rest \cup ProperCalls
  <1>0. /\ left \in 0..MaxContracts /\ got \in 0..MaxContracts /\ MaxContracts \in Nat
        /\ left >= 1 /\ got + left <= MaxContracts /\ symbol \in SymbolIds
        /\ symbol \in 0..Symbols /\ "collect" \in Requests /\ "quote" \in Points
        /\ "NO_QUOTES" \in Refused
    BY BridgeAssumption DEF SInv, Typed, Progress, SymbolIds, Requests, Points, Refused
  <1>1. CASE left > 1
    <2>1. /\ left' = left - 1 /\ got' = n
          /\ Ask("collect", "quote", symbol, left - 1, rest)
          /\ UNCHANGED <<symbol, stocks, priced, stock_quotes_saved, stored, status, succeeded,
                         failed, counted, retry, result, overcount, faults>>
      BY <1>1 DEF AfterQuote, stock
    <2>2. /\ left - 1 \in 0..MaxContracts /\ left' >= 1 /\ n \in 0..MaxContracts
          /\ got' + left' <= MaxContracts
      BY <1>0, <1>1, <2>1
    <2>3. at'["collect"] = "quote" /\ calls' \subseteq rest \cup ProperCalls
      BY <1>0, <2>1, <2>2, AskProper
    <2>4. ~ Ended /\ ~ Ended' /\ ~ Unpriced /\ ~ Unpriced'
      BY <2>3 DEF Ended, Unpriced
    <2>5. Typed' /\ Tally'
      BY <2>1, <2>2 DEF SInv, Typed, Tally, Saved, Lacking
    <2>6. Progress'
      BY <2>1, <2>2, <2>3, <2>4 DEF SInv, Progress
    <2> QED
      BY <2>3, <2>5, <2>6 DEF SInv
  <1>2. CASE ~ (left > 1) /\ n = 0
    <2>1. RefuseWithin("NO_QUOTES", rest)
      BY <1>2 DEF AfterQuote
    <2>2. \/ Through("NO_QUOTES", 0, 0) /\ calls' \subseteq rest \cup ProperCalls
          \/ Through("FAILED", 0, 1) /\ calls' \subseteq rest \cup ProperCalls
      BY <1>0, <2>1, RefuseThrough, RefuseWithinThrough
    <2> QED
      BY <2>2, ThroughKeepsSummary
  <1>3. CASE ~ (left > 1) /\ n # 0
    <2>1. n \in 1..MaxContracts
      BY <1>0, <1>3
    <2>2. KeepQuotes(n, rest) \/ LoseQuotes(n, rest)
      BY <1>3 DEF AfterQuote
    <2>3. Through("SAVED", n, 0) \/ Through("FAILED", 0, 1)
      BY <2>1, <2>2, KeepThrough, LoseThrough
    <2>4. calls' \subseteq rest \cup ProperCalls
      BY <2>1, <2>2, KeepThrough, LoseThrough
    <2> QED
      BY <2>3, <2>4, ThroughKeepsSummary
  <1> QED
    BY <1>1, <1>2, <1>3

LEMMA ResumeKeepsSummary ==
  ASSUME SInv, at \in [Requests -> Points \cup Ends], NEW r \in Requests, at[r] \in Points,
         r = "status" => at[r] \in {"connect", "health", "disconnect"},
         NEW o \in {"ok", "error", "limit", "empty", "timeout"}, NEW rest,
         Resume(r, o, rest)
  PROVE  SInv' /\ calls' \subseteq rest \cup ProperCalls
  <1>0. /\ r \in {"collect", "status"} /\ Requests = {"collect", "status"}
        /\ 0 \in 0..Symbols /\ 0 \in 0..MaxContracts
        /\ {"health", "disconnect"} \subseteq Points
    BY BridgeAssumption DEF Requests, Points
  <1>1. CASE r = "status"
    <2>1. /\ UNCHANGED <<summary, overcount, faults>>
          /\ \/ Ask("status", "disconnect", 0, 0, rest)
             \/ Ask("status", "health", 0, 0, rest)
             \/ at' = [at EXCEPT !["status"] = "answered"] /\ calls' = rest
      <3>1. CASE at[r] = "connect"
        <4>1. AfterConnect("status", o, rest)
          BY <1>1, <3>1 DEF Resume
        <4> QED
          BY <4>1 DEF AfterConnect, UnchangedSummary, summary, stock
      <3>2. CASE at[r] = "health"
        BY <1>1, <3>2 DEF Resume, UnchangedSummary, summary, stock
      <3>3. CASE at[r] = "disconnect"
        BY <1>1, <3>3 DEF Resume, UnchangedSummary, summary, stock
      <3> QED
        BY <1>1, <3>1, <3>2, <3>3
    <2>2. calls' \subseteq rest \cup ProperCalls /\ at'["collect"] = at["collect"]
      <3>1. CASE Ask("status", "disconnect", 0, 0, rest)
        BY <1>0, <3>1, AskProper
      <3>2. CASE Ask("status", "health", 0, 0, rest)
        BY <1>0, <3>2, AskProper
      <3>3. CASE at' = [at EXCEPT !["status"] = "answered"] /\ calls' = rest
        BY <1>0, <3>3
      <3> QED
        BY <2>1, <3>1, <3>2, <3>3
    <2>3. at["collect"] # "health"
      BY DEF SInv, Progress
    <2> QED
      BY <2>1, <2>2, <2>3, SameSummary DEF Ended, Unpriced
  <1>2. CASE r = "collect"
    <2>1. CASE at[r] = "connect"
      <3>1. AfterConnect("collect", o, rest)
        BY <1>2, <2>1 DEF Resume
      <3> QED
        BY <1>2, <2>1, <3>1, ConnectKeepsSummary
    <2>2. CASE at[r] = "health"
      BY <1>2, <2>2 DEF SInv, Progress
    <2>3. CASE at[r] = "stock"
      <3>1. AfterStock(o, rest)
        BY <1>2, <2>3 DEF Resume
      <3> QED
        BY <1>2, <2>3, <3>1, StockKeepsSummary
    <2>4. CASE at[r] = "chain"
      <3>1. AfterChain(o, rest)
        BY <1>2, <2>4 DEF Resume
      <3> QED
        BY <1>2, <2>4, <3>1, ChainKeepsSummary
    <2>5. CASE at[r] = "quote"
      <3>1. CASE o = "limit"
        <4>1. Break("FAILED", rest) /\ "FAILED" \in Refused
          BY <1>2, <2>5, <3>1 DEF Resume, Refused
        <4>2. Through("FAILED", 0, 0) /\ calls' \subseteq rest \cup ProperCalls
          BY <1>2, <2>5, <4>1, BreakThrough
        <4> QED
          BY <1>2, <2>5, <4>2, ThroughKeepsSummary
      <3>2. CASE o # "limit"
        <4>1. AfterQuote(IF o = "ok" THEN got + 1 ELSE got, rest)
          BY <1>2, <2>5, <3>2 DEF Resume
        <4>2. PICK n \in {got, got + 1} : AfterQuote(n, rest)
          BY <4>1
        <4> QED
          BY <1>2, <2>5, <4>2, QuoteKeepsSummary
      <3> QED
        BY <3>1, <3>2
    <2>6. CASE at[r] = "disconnect"
      <3>1. /\ at' = [at EXCEPT !["collect"] = "answered"] /\ calls' = rest
            /\ UNCHANGED <<summary, overcount, faults>>
        BY <1>2, <2>6 DEF Resume, UnchangedSummary, summary, stock
      <3>2. at'["collect"] = "answered"
        BY <1>0, <3>1
      <3> QED
        BY <1>2, <2>6, <3>1, <3>2, SameSummary DEF Ended, Unpriced
    <2> QED
      BY <2>1, <2>2, <2>3, <2>4, <2>5, <2>6 DEF Points
  <1> QED
    BY <1>0, <1>1, <1>2

\* The types of what a collection leaves at its gateway.
ClientTyped ==
  /\ kind \in Kinds /\ calls \subseteq ProperCalls
  /\ subs \subseteq Requests \X Points \X SymbolIds \X (0..MaxContracts)
  /\ kept \subseteq subs /\ sessions \subseteq Requests /\ dropped \subseteq Requests

TInv == IInv /\ SInv /\ ClientTyped

LEMMA InitSummary == Init => SInv /\ ClientTyped
  <1> SUFFICES ASSUME Init PROVE SInv /\ ClientTyped
    OBVIOUS
  <1>1. /\ Symbols \in Nat \ {0} /\ MaxContracts \in Nat /\ MaxFaults \in Nat
        /\ SymbolIds = 1..Symbols
    BY BridgeAssumption DEF SymbolIds
  <1>2. /\ at["collect"] = "idle" /\ symbol = 1 /\ left = 0 /\ got = 0
        /\ succeeded = 0 /\ failed = 0 /\ counted = 0 /\ retry = FALSE /\ result = "none"
        /\ overcount = FALSE /\ faults = 0
        /\ stocks = {} /\ priced = {} /\ stock_quotes_saved = 0
        /\ stored = [s \in SymbolIds |-> 0] /\ status = [s \in SymbolIds |-> "NONE"]
    BY DEF Init, Requests
  <1>3. Typed
    <2>1. symbol \in SymbolIds /\ left \in 0..MaxContracts /\ got \in 0..MaxContracts
      BY <1>1, <1>2
    <2>2. stored \in [SymbolIds -> 0..MaxContracts] /\ faults \in 0..MaxFaults
      BY <1>1, <1>2
    <2>3. status \in [SymbolIds -> Refused \cup {"NONE", "PENDING", "SAVED"}]
      BY <1>2
    <2> QED
      BY <1>2, <2>1, <2>2, <2>3 DEF Typed
  <1>4. Progress
    <2>1. (symbol - 1) * MaxContracts = 0
      BY <1>1, <1>2
    <2>2. \A s \in SymbolIds : ~ (s < symbol) /\ status[s] = "NONE"
      BY <1>1, <1>2
    <2> QED
      BY <1>1, <1>2, <2>1, <2>2 DEF Progress, Ended, Unpriced
  <1>5. Tally
    <2>1. Saved = {} /\ Lacking = {}
      BY <1>2 DEF Saved, Lacking, Refused
    <2>2. Cardinality({}) = 0
      BY FS_EmptySet
    <2>3. HasTotal(stored, SymbolIds) /\ Total(stored, SymbolIds) = 0
      BY <1>2, SymbolsFinite, TotalZero
    <2>4. \A s \in SymbolIds : status[s] = "SAVED" <=> stored[s] > 0
      BY <1>2
    <2> QED
      BY <1>2, <2>1, <2>2, <2>3, <2>4 DEF Tally
  <1> QED
    BY <1>3, <1>4, <1>5 DEF SInv, ClientTyped, Init

\* The call a request awaits, and what its end or its timeout is to the request.
LEMMA AwaitedCall ==
  ASSUME IInv, NEW c \in calls, c.awaited
  PROVE  /\ at \in [Requests -> Points \cup Ends]
         /\ c.req \in Requests /\ at[c.req] \in Points /\ c.point \in Points
         /\ c.req = "status" => at[c.req] \in {"connect", "health", "disconnect"}
  <1>1. c \in Calls
    BY DEF IInv, Shape
  <1>2. c.awaited = TRUE
    BY <1>1, Zenon DEF Calls
  <1>3. at[c.req] = c.point /\ c.req \in Requests /\ c.point \in Points
    BY <1>1, <1>2 DEF IInv, Awaiting, Calls
  <1>4. c.req = "status" => at[c.req] \in {"connect", "health", "disconnect"}
    BY <1>3 DEF IInv, Awaiting, Points
  <1> QED
    BY <1>3, <1>4 DEF IInv, Shape

LEMMA BeginKeepsSummary ==
  ASSUME TInv, NEW r \in Requests, Begin(r)
  PROVE  SInv' /\ ClientTyped'
  <1>1. /\ at[r] = "idle" /\ Ask(r, "connect", 0, 0, calls)
        /\ UNCHANGED <<kind, subs, kept, sessions, dropped>>
        /\ UNCHANGED <<summary, overcount, faults>>
    BY DEF Begin
  <1>2. /\ at \in [Requests -> Points \cup Ends] /\ "connect" \in Points
        /\ 0 \in 0..Symbols /\ 0 \in 0..MaxContracts /\ "collect" \in Requests
    BY BridgeAssumption DEF TInv, IInv, Shape, Points, Requests
  <1>3. /\ calls' \subseteq calls \cup ProperCalls
        /\ at' = [at EXCEPT ![r] = "connect"]
    BY <1>1, <1>2, AskProper
  <1>4. ClientTyped'
    BY <1>1, <1>3 DEF TInv, ClientTyped
  <1>5. \/ at'["collect"] = at["collect"]
        \/ at["collect"] = "idle" /\ at'["collect"] = "connect"
    BY <1>1, <1>2, <1>3
  <1>6. at["collect"] # "health" /\ SInv
    BY DEF TInv, SInv, Progress
  <1>7. /\ Ended' <=> Ended
        /\ Unpriced' <=> Unpriced
        /\ at'["collect"] = "quote" <=> at["collect"] = "quote"
        /\ at'["collect"] # "health"
    BY <1>5, <1>6 DEF Ended, Unpriced
  <1> QED
    BY <1>1, <1>4, <1>6, <1>7, SameSummary

\* A step that is no request's.
LEMMA OtherKeepsSummary ==
  ASSUME TInv, UNCHANGED <<at, summary, overcount, faults>>
  PROVE  SInv'
  <1>1. at["collect"] # "health" /\ SInv
    BY DEF TInv, SInv, Progress
  <1> QED
    BY <1>1, SameSummary DEF Ended, Unpriced

LEMMA SlotTyped ==
  ASSUME TInv, NEW c \in calls, Quoted(c)
  PROVE  Slot(c) \in Requests \X Points \X SymbolIds \X (0..MaxContracts)
  <1>1. c \in ProperCalls /\ kind \in {"IBKR", "FUTU", "ALPACA"}
    BY DEF TInv, ClientTyped, IInv, Shape
  <1>2. c.point \in {"stock", "chain", "quote"}
    BY <1>1 DEF Quoted
  <1>3. /\ c.req \in Requests /\ c.point \in Points /\ c.symbol \in SymbolIds
        /\ c.contract \in 0..MaxContracts
    BY <1>1, <1>2 DEF ProperCalls, Call
  <1> QED
    BY <1>3 DEF Slot

LEMMA EffectsTyped ==
  ASSUME ClientTyped, NEW c \in calls, NEW o, Effects(c, o)
  PROVE  /\ subs' \subseteq subs /\ kept' \subseteq subs' /\ sessions' \subseteq Requests
         /\ dropped' \subseteq Requests
  <1>1. c.req \in Requests
    BY DEF ClientTyped, ProperCalls, Call
  <1>2. sessions' \subseteq Requests /\ dropped' \subseteq Requests
    BY <1>1 DEF Effects, Session, ClientTyped
  <1>3. CASE subs' = OfOthers(subs, c) /\ kept' = OfOthers(kept, c)
    BY <1>2, <1>3 DEF ClientTyped, OfOthers
  <1>4. CASE \E fails \in {{}, Uncancelled(c)} :
               subs' = (subs \ {Slot(c)}) \cup fails /\ kept' = (kept \ {Slot(c)}) \cup fails
    <2>1. PICK fails \in {{}, Uncancelled(c)} :
            subs' = (subs \ {Slot(c)}) \cup fails /\ kept' = (kept \ {Slot(c)}) \cup fails
      BY <1>4
    <2>2. fails \subseteq subs
      BY <2>1 DEF Uncancelled
    <2> QED
      BY <1>2, <2>1, <2>2 DEF ClientTyped
  <1> QED
    BY <1>3, <1>4 DEF Effects

LEMMA GivenUpProper ==
  ASSUME ClientTyped, NEW c \in calls
  PROVE  GivenUp(c) \subseteq ProperCalls
  <1>1. c \in ProperCalls /\ calls \subseteq ProperCalls
    BY DEF ClientTyped
  <1>2. [c EXCEPT !.awaited = FALSE] \in ProperCalls
    BY <1>1 DEF ProperCalls, Call
  <1> QED
    BY <1>1, <1>2 DEF GivenUp

LEMMA NextTInv == TInv /\ [Next]_vars => TInv'
  <1> SUFFICES ASSUME TInv, [Next]_vars PROVE TInv'
    OBVIOUS
  <1>0. IInv' /\ IInv /\ SInv /\ ClientTyped
    BY NextIInv DEF TInv
  <1>1. ASSUME NEW r \in Requests, Begin(r) PROVE TInv'
    BY <1>0, <1>1, BeginKeepsSummary DEF TInv
  <1>2. ASSUME NEW c \in calls, Start(c) PROVE TInv'
    <2>1. /\ calls' = (calls \ {c}) \cup {[c EXCEPT !.running = TRUE]}
          /\ UNCHANGED <<kind, subs, kept, sessions, dropped>>
          /\ UNCHANGED <<at, summary, overcount, faults>>
      BY <1>2 DEF Start
    <2>2. c \in ProperCalls
      BY <1>0 DEF ClientTyped
    <2>3. [c EXCEPT !.running = TRUE] \in ProperCalls
      BY <2>2 DEF ProperCalls, Call
    <2>4. ClientTyped'
      BY <1>0, <2>1, <2>3 DEF ClientTyped
    <2> QED
      BY <1>0, <2>1, <2>4, OtherKeepsSummary DEF TInv
  <1>3. ASSUME NEW c \in calls, Subscribe(c) PROVE TInv'
    <2>1. /\ subs' = subs \cup {Slot(c)} /\ Quoted(c)
          /\ UNCHANGED <<kind, calls, kept, sessions, dropped>>
          /\ UNCHANGED <<at, summary, overcount, faults>>
      BY <1>3 DEF Subscribe
    <2>2. Slot(c) \in Requests \X Points \X SymbolIds \X (0..MaxContracts)
      BY <2>1, SlotTyped
    <2>3. ClientTyped'
      BY <1>0, <2>1, <2>2 DEF ClientTyped
    <2> QED
      BY <1>0, <2>1, <2>3, OtherKeepsSummary DEF TInv
  <1>4. ASSUME NEW c \in calls, End(c) PROVE TInv'
    <2>1. c.running /\ c.awaited /\ kind' = kind
      BY <1>4 DEF End
    <2>2. /\ at \in [Requests -> Points \cup Ends]
          /\ c.req \in Requests /\ at[c.req] \in Points /\ c.point \in Points
          /\ c.req = "status" => at[c.req] \in {"connect", "health", "disconnect"}
      BY <1>0, <2>1, AwaitedCall
    <2>3. PICK o \in Outcomes(c) : Effects(c, o) /\ Resume(c.req, o, calls \ {c})
      BY <1>4 DEF End
    <2>4. o \in {"ok", "error", "limit", "empty", "timeout"}
      BY <2>2 DEF Outcomes, ChainReplies, Replies, Points
    <2>5. SInv' /\ calls' \subseteq (calls \ {c}) \cup ProperCalls
      BY <1>0, <2>2, <2>3, <2>4, ResumeKeepsSummary
    <2>6. /\ subs' \subseteq subs /\ kept' \subseteq subs' /\ sessions' \subseteq Requests
          /\ dropped' \subseteq Requests
      BY <1>0, <2>3, EffectsTyped
    <2>7. ClientTyped'
      BY <1>0, <2>1, <2>5, <2>6 DEF ClientTyped
    <2> QED
      BY <1>0, <2>5, <2>7 DEF TInv
  <1>5. ASSUME NEW c \in calls, Timeout(c) PROVE TInv'
    <2>1. c.awaited /\ UNCHANGED <<kind, subs, kept, sessions>> /\ Resume(c.req, "timeout", GivenUp(c))
      BY <1>5 DEF Timeout
    <2>2. /\ at \in [Requests -> Points \cup Ends]
          /\ c.req \in Requests /\ at[c.req] \in Points /\ c.point \in Points
          /\ c.req = "status" => at[c.req] \in {"connect", "health", "disconnect"}
      BY <1>0, <2>1, AwaitedCall
    <2>3. SInv' /\ calls' \subseteq GivenUp(c) \cup ProperCalls
      BY <1>0, <2>1, <2>2, ResumeKeepsSummary
    <2>4. GivenUp(c) \subseteq ProperCalls
      BY <1>0, GivenUpProper
    <2>5. dropped' \subseteq dropped \cup {c.req}
      BY <1>5 DEF Timeout
    <2>6. ClientTyped'
      BY <1>0, <2>1, <2>2, <2>3, <2>4, <2>5 DEF ClientTyped
    <2> QED
      BY <1>0, <2>3, <2>6 DEF TInv
  <1>6. ASSUME NEW c \in calls, EndAbandoned(c) PROVE TInv'
    <2>1. /\ calls' = calls \ {c} /\ kind' = kind
          /\ UNCHANGED <<at, summary, overcount, faults>>
      BY <1>6 DEF EndAbandoned
    <2>2. PICK o : Effects(c, o)
      BY <1>6 DEF EndAbandoned
    <2>3. /\ subs' \subseteq subs /\ kept' \subseteq subs' /\ sessions' \subseteq Requests
          /\ dropped' \subseteq Requests
      BY <1>0, <2>2, EffectsTyped
    <2>4. ClientTyped'
      BY <1>0, <2>1, <2>3 DEF ClientTyped
    <2> QED
      BY <1>0, <2>1, <2>4, OtherKeepsSummary DEF TInv
  <1>7. CASE UNCHANGED vars
    <2>1. ClientTyped' /\ UNCHANGED <<at, summary, overcount, faults>>
      BY <1>0, <1>7 DEF vars, client, ClientTyped
    <2> QED
      BY <1>0, <2>1, OtherKeepsSummary DEF TInv
  <1> QED
    BY <1>1, <1>2, <1>3, <1>4, <1>5, <1>6, <1>7 DEF Next

LEMMA AlwaysTInv == Spec => []TInv
  <1>1. Init => TInv
    BY InitIInv, InitSummary DEF TInv
  <1> QED
    BY <1>1, NextTInv, PTL DEF Spec

\* The counters stay in range: at most one of each for a symbol, MaxContracts quotes.
LEMMA TypesFollow == TInv => TypeOK
  <1> SUFFICES ASSUME TInv PROVE TypeOK
    OBVIOUS
  <1>1. /\ Symbols \in Nat /\ MaxContracts \in Nat /\ SymbolIds = 1..Symbols
        /\ symbol \in 1..Symbols /\ symbol \in Int
        /\ succeeded \in Nat /\ failed \in Nat /\ counted \in Nat
    BY BridgeAssumption DEF TInv, SInv, Typed, SymbolIds
  <1>2. PICK through \in Int :
          /\ through <= symbol /\ succeeded <= through /\ failed <= 2 * through
          /\ counted <= through * MaxContracts
    <2>1. CASE Ended
      BY <1>1, <2>1 DEF TInv, SInv, Progress
    <2>2. CASE ~ Ended
      <3>1. /\ symbol - 1 \in Int /\ symbol - 1 <= symbol
            /\ succeeded <= symbol - 1 /\ failed <= 2 * (symbol - 1)
            /\ counted <= (symbol - 1) * MaxContracts
        BY <1>1, <2>2 DEF TInv, SInv, Progress
      <3> QED
        BY <3>1
    <2> QED
      BY <2>1, <2>2
  <1>3. through <= Symbols
    BY <1>1, <1>2
  <1>4. through * MaxContracts <= Symbols * MaxContracts
    <2>1. PICK d \in Nat : Symbols = through + d
      <3>1. Symbols - through \in Nat /\ Symbols = through + (Symbols - through)
        BY <1>1, <1>3
      <3> QED
        BY <3>1
    <2>2. Symbols * MaxContracts = through * MaxContracts + d * MaxContracts
      BY <1>1, <2>1
    <2>3. d * MaxContracts \in Nat
      BY <1>1, <2>1
    <2>4. through * MaxContracts \in Int
      BY <1>1
    <2> QED
      BY <2>2, <2>3, <2>4
  <1>5. counted \in 0..(Symbols * MaxContracts)
    <2>1. through * MaxContracts \in Int /\ Symbols * MaxContracts \in Int
      BY <1>1
    <2> QED
      BY <1>1, <1>2, <1>4, <2>1
  <1>6. succeeded \in 0..Symbols /\ failed \in 0..(2 * Symbols)
    BY <1>1, <1>2, <1>3
  <1>8. stock_quotes_saved \in 0..Symbols
    <2>1. stock_quotes_saved \in Nat /\ stock_quotes_saved <= symbol
      BY <1>1 DEF TInv, SInv, Typed, Progress
    <2> QED
      BY <1>1, <2>1
  <1>7. calls \subseteq Call
    BY DEF TInv, ClientTyped, ProperCalls
  <1> QED
    BY <1>5, <1>6, <1>7, <1>8 DEF TInv, IInv, Shape, SInv, Typed, ClientTyped, TypeOK

LEMMA SummaryFollows == TInv => SummaryAgrees
  <1> SUFFICES ASSUME TInv, at["collect"] = "answered", result = "summary" PROVE SummaryAgrees
    BY DEF SummaryAgrees
  <1>1. /\ \A s \in SymbolIds : status[s] = "SAVED" <=> stored[s] > 0
        /\ priced = stocks
        /\ stock_quotes_saved >= Cardinality(stocks) /\ counted >= Total(stored, SymbolIds)
        /\ succeeded >= Cardinality(Saved) /\ failed >= Cardinality(Lacking)
        /\ ~ overcount => /\ stock_quotes_saved = Cardinality(stocks)
                          /\ counted = Total(stored, SymbolIds)
                          /\ succeeded = Cardinality(Saved) /\ failed = Cardinality(Lacking)
    BY DEF TInv, SInv, Tally
  <1>2. retry = FALSE => \A s \in SymbolIds : status[s] \in Refused \cup {"SAVED"}
    BY DEF TInv, SInv, Progress, Ended, Decided
  <1>3. Saved = {s \in SymbolIds : status[s] = "SAVED"}
        /\ {s \in SymbolIds : status[s] = "SAVED"} = {s \in SymbolIds : stored[s] > 0}
    BY <1>1 DEF Saved
  <1>4. Total(stored, SymbolIds) = MapThenSumSet(LAMBDA s : stored[s], SymbolIds)
    BY DEF Total
  <1>5. retry = FALSE => Saved \cup Lacking = SymbolIds
    BY <1>2 DEF Saved, Lacking
  <1> QED
    BY <1>1, <1>3, <1>4, <1>5 DEF SummaryAgrees, Lacking

\* The counters of a collection stay within its symbols and contracts, and calls and
\* subscriptions are of requests and symbols there are (bridge.py, market_collector.py),
\* however many calls were given up.
THEOREM TypeCorrect == Spec => []TypeOK
  BY AlwaysTInv, TypesFollow, PTL

\* The summary a collection returns is what it has committed, for any symbols, contracts
\* and replies of the provider (market_collector.py): statuses and rows agree; the counters
\* are never below them, and equal to them unless a savepoint could not be released.
THEOREM SummaryIsCommitted == Spec => []SummaryAgrees
  BY AlwaysTInv, SummaryFollows, PTL
=============================================================================
