--------------------------- MODULE SessionsProofs ---------------------------
(***************************************************************************)
(* What Sessions promises, for any browsers, tabs and bounds.              *)
(***************************************************************************)
EXTENDS Sessions, TLAPS

\* Tokens are issued in order, and nothing names one that is not issued yet.
Named ==
  /\ \A t \in Tokens : from[t] <= issued
  /\ \A b \in Browsers : cookie[b] <= issued
  /\ \A p \in Places : /\ asked[p].step = "set" => asked[p].value <= issued
                       /\ asked[p].step = "clear" => asked[p].value = 0

\* A code that is sent is one of a scanned secret.
CodesScanned ==
  \A p \in Places : asked[p].step \in {"confirm", "verify"} => asked[p].value \in scanned

\* A tidy browser has one request or answer at a time; the request carries the cookie
\* the browser has, or one that was worth nothing when it was dropped; and the cookie is
\* worth nothing once it is to be replaced.
InOrder ==
  \A b \in tidy :
    /\ \A i, j \in Tabs :
         (asked[<<b, i>>] # Idle /\ asked[<<b, j>>] # Idle) => i = j
    /\ \A i \in Tabs :
         /\ asked[<<b, i>>].step \in {"refresh", "logout"} =>
              asked[<<b, i>>].value = cookie[b] \/ cookie[b] = 0
         /\ asked[<<b, i>>].step \in {"confirm", "verify", "set", "clear"} =>
              cookie[b] \notin live

IInv == TypeOK /\ Named /\ CodesScanned /\ InOrder
          /\ RotatedOnce /\ CodesStillWork /\ NothingLeftBehind

LEMMA InitIInv == Init => IInv
  <1> SUFFICES ASSUME Init PROVE IInv
    OBVIOUS
  <1>0. Idle \in Message /\ {MaxTokens, MaxSecrets} \subseteq Nat
    BY SessionsAssumption DEF Idle, Message
  <1>1. TypeOK
    <2>1. 0 \in 0..MaxTokens /\ 0 \in 0..MaxSecrets
      BY <1>0
    <2>2. from \in [Tokens -> 0..MaxTokens] /\ cookie \in [Browsers -> 0..MaxTokens]
      BY <2>1 DEF Init
    <2>3. owner \in [Tokens -> SUBSET Browsers] /\ asked \in [Places -> Message]
      BY <1>0 DEF Init
    <2>4. scanned \subseteq 1..MaxSecrets /\ temp \subseteq Purposes
          /\ sessions \subseteq 1..issued /\ expired \subseteq sessions /\ tidy \subseteq Browsers
      BY DEF Init
    <2> QED
      BY <2>1, <2>2, <2>3, <2>4 DEF Init, TypeOK
  <1>2. \A p \in Places : asked[p] = Idle
    BY DEF Init
  <1>3. \A b \in Browsers, i \in Tabs : <<b, i>> \in Places
    BY DEF Places
  <1>4. Named /\ CodesScanned
    BY <1>2 DEF Init, Named, CodesScanned, Idle, Tokens
  <1>5. InOrder
    BY <1>2, <1>3 DEF Init, InOrder, Idle
  <1>6. RotatedOnce /\ CodesStillWork /\ NothingLeftBehind
    BY DEF Init, RotatedOnce, CodesStillWork, NothingLeftBehind, Tokens, live
  <1> QED
    BY <1>1, <1>4, <1>5, <1>6 DEF IInv

\* What an answer to <<b, i>> does to the messages.
LEMMA AnswerEffect ==
  ASSUME NEW b \in Browsers, NEW i \in Tabs, NEW m \in Message,
         TypeOK, Answer(b, i, m)
  PROVE  /\ asked' \in [Places -> Message]
         /\ asked'[<<b, i>>] = m
         /\ \A p \in Places : p # <<b, i>> => asked'[p] = asked[p]
         /\ \A c \in Browsers, j \in Tabs : <<c, j>> \in Places
         /\ \A c \in Browsers, j \in Tabs : <<c, j>> # <<b, i>> <=> (c # b \/ j # i)
  BY DEF Answer, TypeOK, Places

\* A session is issued in the place of old, or after a code (old = 0).
LEMMA GrantKeeps ==
  ASSUME IInv, NEW b \in Browsers, NEW i \in Tabs, NEW old \in 0..MaxTokens,
         Grant(b, i, old),
         \/ old = 0 /\ asked[<<b, i>>].step \in {"confirm", "verify"}
         \/ old \in sessions /\ asked[<<b, i>>].step = "refresh" /\ asked[<<b, i>>].value = old,
         enabled' \in BOOLEAN, enabled => enabled',
         enabled' /\ secret \in scanned,
         UNCHANGED <<secret, secrets, scanned, temp, cookie, tidy>>
  PROVE  IInv'
  <1> DEFINE new == issued + 1
             m   == [step |-> "set", value |-> new]
  <1>0. /\ MaxTokens \in Nat /\ issued \in Nat /\ issued' = new
        /\ new \in Tokens /\ new \notin sessions
    BY SessionsAssumption DEF IInv, TypeOK, Grant, Tokens
  <1>1. m \in Message
    BY <1>0, SessionsAssumption DEF Message, Answers, Tokens
  <1>2. /\ asked' \in [Places -> Message]
        /\ asked'[<<b, i>>] = m
        /\ \A p \in Places : p # <<b, i>> => asked'[p] = asked[p]
        /\ \A c \in Browsers, j \in Tabs : <<c, j>> \in Places
        /\ \A c \in Browsers, j \in Tabs : <<c, j>> # <<b, i>> <=> (c # b \/ j # i)
    BY <1>1, AnswerEffect DEF Grant, IInv
  <1>3. /\ sessions' = (sessions \ {old}) \cup {new}
        /\ from' \in [Tokens -> 0..MaxTokens] /\ owner' \in [Tokens -> SUBSET Browsers]
        /\ from'[new] = old /\ owner'[new] = {b}
        /\ \A t \in Tokens : t # new => from'[t] = from[t] /\ owner'[t] = owner[t]
    BY <1>0 DEF Grant, IInv, TypeOK
  <1>12. live' = (live \ {old}) \cup {new} /\ 0 \notin live /\ live \subseteq Tokens
    BY <1>0, <1>3 DEF IInv, TypeOK, Grant, Tokens, live
  <1>4. asked[<<b, i>>] # Idle
    BY DEF Idle
  <1>5. TypeOK'
    <2>1. sessions' \subseteq 1..issued' /\ expired' \subseteq sessions'
      BY <1>0, <1>3 DEF IInv, TypeOK, Grant, Tokens
    <2>2. issued' \in 0..MaxTokens
      BY <1>0 DEF Tokens
    <2> QED
      BY <1>2, <1>3, <2>1, <2>2 DEF IInv, TypeOK
  <1>6. Named'
    <2>1. \A t \in Tokens : from'[t] <= issued'
      <3> SUFFICES ASSUME NEW t \in Tokens PROVE from'[t] <= new
        BY <1>0
      <3>1. CASE t = new
        BY <1>0, <1>3, <3>1 DEF IInv, TypeOK
      <3>2. CASE t # new
        BY <1>0, <1>3, <3>2 DEF IInv, TypeOK, Named
      <3> QED
        BY <3>1, <3>2
    <2>2. \A c \in Browsers : cookie'[c] <= issued'
      BY <1>0 DEF IInv, TypeOK, Named
    <2>3. \A p \in Places : /\ asked'[p].step = "set" => asked'[p].value <= issued'
                            /\ asked'[p].step = "clear" => asked'[p].value = 0
      <3> SUFFICES ASSUME NEW p \in Places
                   PROVE  /\ asked'[p].step = "set" => asked'[p].value <= new
                          /\ asked'[p].step = "clear" => asked'[p].value = 0
        BY <1>0
      <3>1. CASE p = <<b, i>>
        BY <1>0, <1>2, <3>1
      <3>2. CASE p # <<b, i>>
        <4>1. asked'[p] = asked[p] /\ asked[p] \in Message
          BY <1>2, <3>2 DEF IInv, TypeOK
        <4> QED
          BY <1>0, <4>1 DEF IInv, Named, Message
      <3> QED
        BY <3>1, <3>2
    <2> QED
      BY <2>1, <2>2, <2>3 DEF Named
  <1>7. CodesScanned'
    BY <1>2 DEF IInv, CodesScanned
  <1>8. InOrder'
    <2> SUFFICES ASSUME NEW c \in tidy
                 PROVE  /\ \A j, k \in Tabs :
                             (asked'[<<c, j>>] # Idle /\ asked'[<<c, k>>] # Idle) => j = k
                        /\ \A j \in Tabs :
                             /\ asked'[<<c, j>>].step \in {"refresh", "logout"} =>
                                  asked'[<<c, j>>].value = cookie[c] \/ cookie[c] = 0
                             /\ asked'[<<c, j>>].step \in {"confirm", "verify", "set", "clear"} =>
                                  cookie[c] \notin live'
      BY DEF InOrder
    <2>1. c \in Browsers /\ cookie[c] # new
      BY <1>0 DEF IInv, TypeOK, Named
    <2>2. \A j, k \in Tabs : (asked'[<<c, j>>] # Idle /\ asked'[<<c, k>>] # Idle) => j = k
      BY <1>2, <1>4, <2>1 DEF IInv, InOrder
    <2>3. CASE c = b
      <3>1. cookie[c] \notin live'
        BY <1>12, <2>1, <2>3 DEF IInv, InOrder
      <3>2. \A j \in Tabs : asked'[<<c, j>>].step \notin {"refresh", "logout"}
        BY <1>2, <1>4, <2>1, <2>3 DEF IInv, InOrder, Idle
      <3> QED
        BY <2>2, <3>1, <3>2
    <2>4. CASE c # b
      BY <1>2, <1>12, <2>1, <2>2, <2>4 DEF IInv, InOrder
    <2> QED
      BY <2>3, <2>4
  <1>9. RotatedOnce'
    <2> SUFFICES ASSUME NEW t \in 1..new, NEW u \in 1..new, from'[t] # 0
                 PROVE  from'[t] \notin sessions' /\ (from'[u] = from'[t] => u = t)
      BY <1>0 DEF RotatedOnce
    <2>1. t \in Tokens /\ u \in Tokens
      BY <1>0 DEF Tokens
    <2>2. from'[t] # new
      BY <1>0, <1>3, <2>1 DEF IInv, Named, TypeOK
    <2>3. CASE t = new
      BY <1>0, <1>3, <2>1, <2>2, <2>3 DEF IInv, RotatedOnce
    <2>4. CASE t # new
      BY <1>0, <1>3, <2>1, <2>2, <2>4 DEF IInv, RotatedOnce
    <2> QED
      BY <2>3, <2>4
  <1>10. CodesStillWork'
    BY DEF CodesStillWork
  <1>11. NothingLeftBehind'
    <2> SUFFICES ASSUME NEW c \in tidy, NEW t \in live', c \in owner'[t]
                 PROVE  \/ cookie[c] = t
                        \/ \E j \in Tabs : asked'[<<c, j>>] = [step |-> "set", value |-> t]
      BY DEF NothingLeftBehind
    <2>1. c \in Browsers /\ t \in Tokens
      BY <1>0, <1>12 DEF IInv, TypeOK
    <2>2. CASE t = new
      BY <1>2, <1>3, <2>2
    <2>3. CASE t # new /\ c # b
      BY <1>2, <1>3, <1>12, <2>1, <2>3 DEF IInv, NothingLeftBehind
    <2>4. CASE t # new /\ c = b
      <3>1. t \in live /\ t # old /\ c \in owner[t]
        BY <1>3, <1>12, <2>1, <2>4
      <3>2. \A j \in Tabs : asked[<<c, j>>].step # "set"
        BY <1>4, <2>4 DEF IInv, InOrder, Idle
      <3>3. ASSUME NEW j \in Tabs, asked[<<c, j>>] = [step |-> "set", value |-> t]
            PROVE  FALSE
        BY <3>2, <3>3
      <3>4. cookie[c] = t
        BY <3>1, <3>3 DEF IInv, NothingLeftBehind
      <3> QED
        BY <3>4
    <2> QED
      BY <2>2, <2>3, <2>4
  <1> QED
    BY <1>5, <1>6, <1>7, <1>8, <1>9, <1>10, <1>11 DEF IInv

\* An answer without a new session: rows may go, none comes.
LEMMA ShrinkKeeps ==
  ASSUME IInv, NEW b \in Browsers, NEW i \in Tabs,
         sessions' \subseteq sessions, expired' \subseteq sessions', live' \subseteq live,
         UNCHANGED <<factor, issued, from, owner, cookie, tidy>>,
         asked[<<b, i>>] # Idle,
         \/ Answer(b, i, Keep)
         \/ /\ Answer(b, i, [step |-> "clear", value |-> 0])
            /\ asked[<<b, i>>].step = "logout"
            /\ asked[<<b, i>>].value \notin live',
         asked[<<b, i>>].step # "set"
  PROVE  IInv'
  <1>1. PICK m \in {Keep, [step |-> "clear", value |-> 0]} :
          /\ Answer(b, i, m)
          /\ m.step = "clear" => /\ asked[<<b, i>>].step = "logout"
                                 /\ asked[<<b, i>>].value \notin live'
    BY DEF Keep
  <1>2. m \in Message /\ m.step \in {"keep", "clear"} /\ m.value = 0
    BY SessionsAssumption, <1>1 DEF Message, Answers, Keep
  <1>3. /\ asked' \in [Places -> Message]
        /\ asked'[<<b, i>>] = m
        /\ \A p \in Places : p # <<b, i>> => asked'[p] = asked[p]
        /\ \A c \in Browsers, j \in Tabs : <<c, j>> \in Places
        /\ \A c \in Browsers, j \in Tabs : <<c, j>> # <<b, i>> <=> (c # b \/ j # i)
    BY <1>1, <1>2, AnswerEffect DEF IInv
  <1>4. TypeOK'
    BY <1>3 DEF IInv, TypeOK, factor
  <1>5. Named'
    BY <1>2, <1>3 DEF IInv, Named
  <1>6. CodesScanned' /\ CodesStillWork'
    BY <1>2, <1>3 DEF IInv, CodesScanned, CodesStillWork, factor
  <1>7. InOrder'
    <2> SUFFICES ASSUME NEW c \in tidy
                 PROVE  /\ \A j, k \in Tabs :
                             (asked'[<<c, j>>] # Idle /\ asked'[<<c, k>>] # Idle) => j = k
                        /\ \A j \in Tabs :
                             /\ asked'[<<c, j>>].step \in {"refresh", "logout"} =>
                                  asked'[<<c, j>>].value = cookie[c] \/ cookie[c] = 0
                             /\ asked'[<<c, j>>].step \in {"confirm", "verify", "set", "clear"} =>
                                  cookie[c] \notin live'
      BY DEF InOrder
    <2>1. c \in Browsers /\ 0 \notin live'
      BY DEF IInv, TypeOK, live
    <2>2. \A j, k \in Tabs : (asked'[<<c, j>>] # Idle /\ asked'[<<c, k>>] # Idle) => j = k
      BY <1>3, <2>1 DEF IInv, InOrder
    <2>3. ASSUME NEW j \in Tabs
          PROVE  /\ asked'[<<c, j>>].step \in {"refresh", "logout"} =>
                      asked'[<<c, j>>].value = cookie[c] \/ cookie[c] = 0
                 /\ asked'[<<c, j>>].step \in {"confirm", "verify", "set", "clear"} =>
                      cookie[c] \notin live'
      <3>1. CASE c = b /\ j = i
        BY <1>1, <1>2, <1>3, <2>1, <3>1 DEF IInv, InOrder
      <3>2. CASE ~ (c = b /\ j = i)
        BY <1>3, <2>1, <3>2 DEF IInv, InOrder
      <3> QED
        BY <3>1, <3>2
    <2> QED
      BY <2>2, <2>3
  <1>8. RotatedOnce'
    BY DEF IInv, RotatedOnce
  <1>9. NothingLeftBehind'
    <2> SUFFICES ASSUME NEW c \in tidy, NEW t \in live', c \in owner[t]
                 PROVE  \/ cookie[c] = t
                        \/ \E j \in Tabs : asked'[<<c, j>>] = [step |-> "set", value |-> t]
      BY DEF NothingLeftBehind
    <2>1. CASE cookie[c] = t
      BY <2>1
    <2>2. CASE cookie[c] # t
      <3>1. PICK j \in Tabs : asked[<<c, j>>] = [step |-> "set", value |-> t]
        BY <2>2 DEF IInv, NothingLeftBehind
      <3>2. c \in Browsers
        BY DEF IInv, TypeOK
      <3>3. <<c, j>> # <<b, i>>
        BY <3>1
      <3> QED
        BY <1>3, <3>1, <3>2, <3>3
    <2> QED
      BY <2>1, <2>2
  <1> QED
    BY <1>4, <1>5, <1>6, <1>7, <1>8, <1>9 DEF IInv

\* A request is sent.
LEMMA SendKeeps ==
  ASSUME IInv, NEW b \in Browsers, NEW i \in Tabs, NEW op \in Ops, Send(b, i, op)
  PROVE  IInv'
  <1>1. PICK v \in Values(b, op) : asked' = [asked EXCEPT ![<<b, i>>] = [step |-> op, value |-> v]]
    BY DEF Send
  <1> DEFINE m == [step |-> op, value |-> v]
  <1>2. /\ v \in 0..(MaxTokens + MaxSecrets)
        /\ op \in {"confirm", "verify"} => v \in scanned
        /\ op \in {"refresh", "logout"} => v = cookie[b]
    BY SessionsAssumption DEF IInv, TypeOK, Values, Ops
  <1>3. m \in Message
    BY <1>2 DEF Message
  <1>4. /\ asked' \in [Places -> Message]
        /\ asked'[<<b, i>>] = m
        /\ \A p \in Places : p # <<b, i>> => asked'[p] = asked[p]
        /\ \A c \in Browsers, j \in Tabs : <<c, j>> \in Places
        /\ \A c \in Browsers, j \in Tabs : <<c, j>> # <<b, i>> <=> (c # b \/ j # i)
    BY <1>1, <1>3, AnswerEffect DEF Answer, IInv
  <1>5. asked[<<b, i>>] = Idle /\ tidy' \subseteq tidy
        /\ UNCHANGED <<factor, table, cookie>>
    BY DEF Send
  <1>6. b \in tidy' => ~ Overlaps(b, i) /\ ~ SignsInAgain(b, op)
    BY DEF Send
  <1>7. TypeOK'
    BY <1>4, <1>5 DEF IInv, TypeOK, factor, table
  <1>8. Named'
    BY <1>4, <1>5 DEF IInv, Named, table, Ops
  <1>9. CodesScanned' /\ CodesStillWork' /\ RotatedOnce'
    BY <1>2, <1>4, <1>5 DEF IInv, CodesScanned, CodesStillWork, RotatedOnce, factor, table
  <1>10. InOrder'
    <2> SUFFICES ASSUME NEW c \in tidy'
                 PROVE  /\ \A j, k \in Tabs :
                             (asked'[<<c, j>>] # Idle /\ asked'[<<c, k>>] # Idle) => j = k
                        /\ \A j \in Tabs :
                             /\ asked'[<<c, j>>].step \in {"refresh", "logout"} =>
                                  asked'[<<c, j>>].value = cookie[c] \/ cookie[c] = 0
                             /\ asked'[<<c, j>>].step \in {"confirm", "verify", "set", "clear"} =>
                                  cookie[c] \notin live
      BY <1>5 DEF InOrder, table, live
    <2>1. c \in Browsers /\ c \in tidy
      BY <1>5 DEF IInv, TypeOK
    <2>2. CASE c # b
      BY <1>4, <2>1, <2>2 DEF IInv, InOrder
    <2>3. CASE c = b
      <3>1. \A j \in Tabs : j # i => asked'[<<c, j>>] = Idle
        BY <1>4, <1>6, <2>1, <2>3 DEF Overlaps
      <3>2. op \in {"confirm", "verify"} => cookie[c] \notin live
        BY <1>6, <2>3 DEF SignsInAgain
      <3> QED
        BY <1>2, <1>4, <2>1, <2>3, <3>1, <3>2 DEF Idle, Ops
    <2> QED
      BY <2>2, <2>3
  <1>11. NothingLeftBehind'
    <2> SUFFICES ASSUME NEW c \in tidy, NEW t \in live, c \in owner[t]
                 PROVE  \/ cookie[c] = t
                        \/ \E j \in Tabs : asked'[<<c, j>>] = [step |-> "set", value |-> t]
      BY <1>5 DEF NothingLeftBehind, table, live
    <2>1. CASE cookie[c] = t
      BY <2>1
    <2>2. CASE cookie[c] # t
      <3>1. PICK j \in Tabs : asked[<<c, j>>] = [step |-> "set", value |-> t]
        BY <2>2 DEF IInv, NothingLeftBehind
      <3>2. c \in Browsers
        BY DEF IInv, TypeOK
      <3>3. <<c, j>> # <<b, i>>
        BY <1>5, <3>1 DEF Idle
      <3> QED
        BY <1>4, <3>1, <3>2, <3>3
    <2> QED
      BY <2>1, <2>2
  <1> QED
    BY <1>7, <1>8, <1>9, <1>10, <1>11 DEF IInv

\* An answer arrives, or it is lost with what it carried.
LEMMA ReceiveKeeps ==
  ASSUME IInv, NEW b \in Browsers, NEW i \in Tabs, Receive(b, i) \/ Lose(b, i)
  PROVE  IInv'
  <1> DEFINE m == asked[<<b, i>>]
  <1>1. <<b, i>> \in Places /\ Idle \in Message /\ m \in Message
    BY SessionsAssumption DEF Places, Idle, Message, IInv, TypeOK
  <1>2. /\ asked' \in [Places -> Message]
        /\ asked'[<<b, i>>] = Idle
        /\ \A p \in Places : p # <<b, i>> => asked'[p] = asked[p]
        /\ \A c \in Browsers, j \in Tabs : <<c, j>> \in Places
        /\ \A c \in Browsers, j \in Tabs : <<c, j>> # <<b, i>> <=> (c # b \/ j # i)
    BY <1>1, AnswerEffect DEF Receive, Lose, IInv
  <1>3. UNCHANGED <<factor, table>> /\ tidy' \subseteq tidy
    BY DEF Receive, Lose
  <1>4. /\ cookie' \in [Browsers -> 0..MaxTokens]
        /\ \A c \in Browsers : c # b => cookie'[c] = cookie[c]
        /\ cookie'[b] \in {cookie[b], m.value}
        /\ m.step \in {"set", "clear"} => cookie'[b] = m.value \/ b \notin tidy'
        /\ m.step \notin {"set", "clear"} => cookie'[b] = cookie[b]
        /\ \A c \in Browsers : cookie'[c] <= issued
    <2>1. CASE Receive(b, i)
      <3>1. CASE m.step = "keep"
        BY <2>1, <3>1 DEF Receive, IInv, TypeOK, Named
      <3>2. CASE m.step # "keep"
        <4>1. m.step \in {"set", "clear"} /\ cookie' = [cookie EXCEPT ![b] = m.value]
          BY <2>1, <3>2 DEF Receive, Answers
        <4>2. m.value \in 0..MaxTokens /\ m.value <= issued
          BY <1>1, <4>1, SessionsAssumption DEF IInv, TypeOK, Named, Message
        <4> QED
          BY <4>1, <4>2 DEF IInv, TypeOK, Named
      <3> QED
        BY <3>1, <3>2
    <2>2. CASE Lose(b, i)
      BY <2>2 DEF Lose, IInv, TypeOK, Named
    <2> QED
      BY <2>1, <2>2
  <1>5. TypeOK'
    BY <1>2, <1>3, <1>4 DEF IInv, TypeOK, factor, table
  <1>6. Named'
    BY <1>2, <1>3, <1>4 DEF IInv, Named, table, Idle
  <1>7. CodesScanned' /\ CodesStillWork' /\ RotatedOnce'
    BY <1>2, <1>3 DEF IInv, CodesScanned, CodesStillWork, RotatedOnce, factor, table, Idle
  <1>8. InOrder'
    <2> SUFFICES ASSUME NEW c \in tidy'
                 PROVE  /\ \A j, k \in Tabs :
                             (asked'[<<c, j>>] # Idle /\ asked'[<<c, k>>] # Idle) => j = k
                        /\ \A j \in Tabs :
                             /\ asked'[<<c, j>>].step \in {"refresh", "logout"} =>
                                  asked'[<<c, j>>].value = cookie'[c] \/ cookie'[c] = 0
                             /\ asked'[<<c, j>>].step \in {"confirm", "verify", "set", "clear"} =>
                                  cookie'[c] \notin live
      BY <1>3 DEF InOrder, table, live
    <2>1. c \in Browsers /\ c \in tidy
      BY <1>3 DEF IInv, TypeOK
    <2>2. CASE c # b
      BY <1>2, <1>4, <2>1, <2>2 DEF IInv, InOrder
    <2>3. CASE c = b
      <3>1. m # Idle
        BY DEF Receive, Lose, Answers, Idle
      <3>2. \A j \in Tabs : asked'[<<c, j>>] = Idle
        BY <1>2, <2>1, <2>3, <3>1 DEF IInv, InOrder
      <3> QED
        BY <3>2 DEF Idle
    <2> QED
      BY <2>2, <2>3
  <1>9. NothingLeftBehind'
    <2> SUFFICES ASSUME NEW c \in tidy', NEW t \in live, c \in owner[t]
                 PROVE  \/ cookie'[c] = t
                        \/ \E j \in Tabs : asked'[<<c, j>>] = [step |-> "set", value |-> t]
      BY <1>3 DEF NothingLeftBehind, table, live
    <2>1. c \in Browsers /\ c \in tidy
      BY <1>3 DEF IInv, TypeOK
    <2>2. CASE cookie[c] = t
      <3>1. c = b => m.step \notin {"set", "clear"}
        BY <2>1, <2>2 DEF IInv, InOrder
      <3> QED
        BY <1>4, <2>1, <2>2, <3>1
    <2>3. CASE cookie[c] # t
      <3>1. PICK j \in Tabs : asked[<<c, j>>] = [step |-> "set", value |-> t]
        BY <2>1, <2>3 DEF IInv, NothingLeftBehind
      <3>2. CASE <<c, j>> = <<b, i>>
        BY <1>4, <2>1, <3>1, <3>2
      <3>3. CASE <<c, j>> # <<b, i>>
        BY <1>2, <2>1, <3>1, <3>3
      <3> QED
        BY <3>2, <3>3
    <2> QED
      BY <2>2, <2>3
  <1> QED
    BY <1>5, <1>6, <1>7, <1>8, <1>9 DEF IInv

LEMMA FactorKeeps ==
  ASSUME IInv, Login \/ StartSetup
  PROVE  IInv'
  <1>1. CASE Login
    <2>1. temp' \subseteq Purposes
      BY <1>1 DEF Login, IInv, TypeOK, Purposes
    <2>2. UNCHANGED <<enabled, secret, secrets, scanned, table, cookie, asked, tidy>>
      BY <1>1 DEF Login
    <2>3. TypeOK'
      BY <2>1, <2>2 DEF IInv, TypeOK, table
    <2>4. Named' /\ CodesScanned' /\ CodesStillWork'
      BY <2>2 DEF IInv, Named, CodesScanned, CodesStillWork, table
    <2>5. InOrder' /\ RotatedOnce' /\ NothingLeftBehind'
      BY <2>2 DEF IInv, InOrder, RotatedOnce, NothingLeftBehind, table, live
    <2> QED
      BY <2>3, <2>4, <2>5 DEF IInv
  <1>2. CASE StartSetup
    <2>1. /\ secrets + 1 \in 0..MaxSecrets /\ secrets + 1 \in 1..MaxSecrets
          /\ scanned \subseteq scanned' /\ scanned' \subseteq 1..MaxSecrets
      BY <1>2, SessionsAssumption DEF StartSetup, IInv, TypeOK
    <2>2. /\ UNCHANGED <<enabled, temp, table, cookie, asked, tidy>> /\ ~ enabled
          /\ secret' = secrets + 1 /\ secrets' = secrets + 1
      BY <1>2 DEF StartSetup
    <2>3. TypeOK'
      BY <2>1, <2>2 DEF IInv, TypeOK, table
    <2>4. CodesScanned' /\ CodesStillWork'
      BY <2>1, <2>2 DEF IInv, CodesScanned, CodesStillWork, table
    <2>5. Named' /\ InOrder' /\ RotatedOnce' /\ NothingLeftBehind'
      BY <2>2 DEF IInv, Named, InOrder, RotatedOnce, NothingLeftBehind, table, live
    <2> QED
      BY <2>3, <2>4, <2>5 DEF IInv
  <1> QED
    BY <1>1, <1>2

LEMMA ExpireKeeps ==
  ASSUME IInv, NEW t \in sessions, Expire(t)
  PROVE  IInv'
  <1>1. TypeOK'
    BY DEF IInv, TypeOK, Expire, factor
  <1>2. Named' /\ CodesScanned' /\ InOrder' /\ RotatedOnce' /\ CodesStillWork' /\ NothingLeftBehind'
    BY DEF Expire, IInv, Named, CodesScanned, InOrder, RotatedOnce, CodesStillWork,
           NothingLeftBehind, factor, live
  <1> QED
    BY <1>1, <1>2 DEF IInv

\* The browser drops a cookie that is worth nothing any more.
LEMMA ForgetKeeps ==
  ASSUME IInv, NEW b \in Browsers, Forget(b)
  PROVE  IInv'
  <1>1. /\ cookie' \in [Browsers -> 0..MaxTokens]
        /\ cookie[b] \notin live /\ cookie'[b] = 0
        /\ \A c \in Browsers : c # b => cookie'[c] = cookie[c]
        /\ UNCHANGED <<factor, table, live, asked, tidy>>
    BY SessionsAssumption DEF Forget, IInv, TypeOK, table, live
  <1>2. 0 \notin live
    BY DEF IInv, TypeOK, live
  <1>3. TypeOK'
    BY <1>1 DEF IInv, TypeOK, factor, table
  <1>4. Named'
    BY <1>1 DEF IInv, TypeOK, Named, table
  <1>5. CodesScanned' /\ RotatedOnce' /\ CodesStillWork'
    BY <1>1 DEF IInv, CodesScanned, RotatedOnce, CodesStillWork, factor, table
  <1>6. InOrder'
    BY <1>1, <1>2 DEF IInv, TypeOK, InOrder
  <1>7. NothingLeftBehind'
    <2> SUFFICES ASSUME NEW c \in tidy, NEW t \in live, c \in owner[t]
                 PROVE  \/ cookie'[c] = t
                        \/ \E j \in Tabs : asked[<<c, j>>] = [step |-> "set", value |-> t]
      <3>1. live' = live /\ owner' = owner /\ asked' = asked /\ tidy' = tidy
        BY <1>1 DEF table
      <3> QED
        BY <3>1 DEF NothingLeftBehind
    <2>1. cookie[c] = t => cookie'[c] = t
      BY <1>1 DEF IInv, TypeOK
    <2> QED
      BY <2>1 DEF IInv, NothingLeftBehind
  <1> QED
    BY <1>3, <1>4, <1>5, <1>6, <1>7 DEF IInv

\* The four handlers grant a session or shrink the table.
LEMMA HandlerKeeps ==
  ASSUME IInv, NEW b \in Browsers, NEW i \in Tabs,
         Confirm(b, i) \/ Verify(b, i) \/ Refresh(b, i) \/ Logout(b, i)
  PROVE  IInv'
  <1> DEFINE m == asked[<<b, i>>]
  <1>1. m.step \in Ops /\ m # Idle /\ m.step # "set"
    BY DEF Confirm, Verify, Refresh, Logout, Ops, Idle
  <1>2. 0 \in 0..MaxTokens /\ sessions \subseteq 0..MaxTokens /\ expired \subseteq sessions
    BY SessionsAssumption DEF IInv, TypeOK
  <1>3. m.step \in {"confirm", "verify"} => m.value \in scanned
    BY DEF IInv, CodesScanned, Places
  <1>4. CASE Confirm(b, i)
    <2>1. CASE ~ enabled /\ Verifies(m.value)
      <3>1. Grant(b, i, 0) /\ enabled' = TRUE
            /\ UNCHANGED <<secret, secrets, scanned, temp, cookie, tidy>>
        BY <1>4, <2>1 DEF Confirm
      <3>2. secret \in scanned /\ m.step = "confirm"
        BY <1>3, <1>4, <2>1 DEF Verifies, Confirm
      <3> QED
        BY <1>2, <3>1, <3>2, GrantKeeps
    <2>2. CASE ~ (~ enabled /\ Verifies(m.value))
      <3>1. Answer(b, i, Keep) /\ UNCHANGED <<table, factor, cookie, tidy>>
        BY <1>4, <2>2 DEF Confirm, factor
      <3> QED
        BY <1>1, <1>2, <3>1, ShrinkKeeps DEF table, live
    <2> QED
      BY <2>1, <2>2
  <1>5. CASE Verify(b, i)
    <2>1. CASE enabled /\ Verifies(m.value)
      <3>1. Grant(b, i, 0) /\ UNCHANGED <<factor, cookie, tidy>> /\ m.step = "verify"
        BY <1>5, <2>1 DEF Verify
      <3>2. secret \in scanned /\ enabled'
        BY <1>3, <2>1, <3>1 DEF Verifies, factor
      <3> QED
        BY <1>2, <2>1, <3>1, <3>2, GrantKeeps DEF factor, IInv, TypeOK
    <2>2. CASE ~ (enabled /\ Verifies(m.value))
      <3>1. Answer(b, i, Keep) /\ UNCHANGED <<table, factor, cookie, tidy>>
        BY <1>5, <2>2 DEF Verify
      <3> QED
        BY <1>1, <1>2, <3>1, ShrinkKeeps DEF table, live
    <2> QED
      BY <2>1, <2>2
  <1>6. CASE Refresh(b, i)
    <2>1. CASE m.value \in live /\ Grant(b, i, m.value)
      <3>1. UNCHANGED <<factor, cookie, tidy>> /\ m.step = "refresh"
        BY <1>6 DEF Refresh
      <3>2. enabled /\ secret \in scanned /\ m.value \in sessions
        BY <2>1 DEF IInv, CodesStillWork, live
      <3> QED
        BY <1>2, <2>1, <3>1, <3>2, GrantKeeps DEF factor, IInv, TypeOK
    <2>2. CASE Drop(m.value) /\ Answer(b, i, Keep)
      <3>1. UNCHANGED <<factor, cookie, tidy>>
        BY <1>6 DEF Refresh
      <3>2. sessions' \subseteq sessions /\ expired' \subseteq sessions' /\ live' \subseteq live
            /\ UNCHANGED <<issued, from, owner>>
        BY <1>2, <2>2 DEF Drop, live
      <3> QED
        BY <1>1, <2>2, <3>1, <3>2, ShrinkKeeps
    <2> QED
      BY <1>6, <2>1, <2>2 DEF Refresh
  <1>7. CASE Logout(b, i)
    <2>1. Drop(m.value) /\ Answer(b, i, [step |-> "clear", value |-> 0])
          /\ UNCHANGED <<factor, cookie, tidy>> /\ m.step = "logout"
      BY <1>7 DEF Logout
    <2>2. sessions' \subseteq sessions /\ expired' \subseteq sessions' /\ live' \subseteq live
          /\ m.value \notin live' /\ UNCHANGED <<issued, from, owner>>
      BY <1>2, <2>1 DEF Drop, live
    <2> QED
      BY <1>1, <2>1, <2>2, ShrinkKeeps
  <1> QED
    BY <1>4, <1>5, <1>6, <1>7

LEMMA NextIInv == IInv /\ [Next]_vars => IInv'
  <1> SUFFICES ASSUME IInv, [Next]_vars PROVE IInv'
    OBVIOUS
  <1>1. CASE Login \/ StartSetup
    BY <1>1, FactorKeeps
  <1>2. ASSUME NEW b \in Browsers, NEW i \in Tabs, NEW op \in Ops, Send(b, i, op)
        PROVE  IInv'
    BY <1>2, SendKeeps
  <1>3. ASSUME NEW b \in Browsers, NEW i \in Tabs,
               Confirm(b, i) \/ Verify(b, i) \/ Refresh(b, i) \/ Logout(b, i)
        PROVE  IInv'
    BY <1>3, HandlerKeeps
  <1>4. ASSUME NEW b \in Browsers, NEW i \in Tabs, Receive(b, i) \/ Lose(b, i)
        PROVE  IInv'
    BY <1>4, ReceiveKeeps
  <1>5. ASSUME NEW t \in sessions, Expire(t)
        PROVE  IInv'
    BY <1>5, ExpireKeeps
  <1>7. ASSUME NEW b \in Browsers, Forget(b)
        PROVE  IInv'
    BY <1>7, ForgetKeeps
  <1>6. CASE UNCHANGED vars
    <2>1. UNCHANGED <<enabled, secret, secrets, scanned, temp, sessions, expired, issued, from,
                      owner, cookie, asked, tidy>>
      BY <1>6 DEF vars, factor, table
    <2>2. TypeOK' = TypeOK /\ Named' = Named /\ CodesScanned' = CodesScanned
      BY <2>1 DEF TypeOK, Named, CodesScanned
    <2>3. InOrder' /\ RotatedOnce' /\ CodesStillWork' /\ NothingLeftBehind'
      BY <2>1 DEF IInv, InOrder, RotatedOnce, CodesStillWork, NothingLeftBehind, live
    <2> QED
      BY <2>2, <2>3 DEF IInv
  <1> QED
    BY <1>1, <1>2, <1>3, <1>4, <1>5, <1>6, <1>7 DEF Next

LEMMA AlwaysIInv == Spec => []IInv
  <1> QED
    BY InitIInv, NextIInv, PTL DEF Spec

\* Types: in particular a row that is past its time is a row that exists.
THEOREM TypeCorrect == Spec => []TypeOK
  <1>1. IInv => TypeOK
    BY DEF IInv
  <1> QED
    BY <1>1, AlwaysIInv, PTL

\* A refresh token is exchanged at most once, for any number of tabs that send it.
THEOREM TokensRotateOnce == Spec => []RotatedOnce
  <1>1. IInv => RotatedOnce
    BY DEF IInv
  <1> QED
    BY <1>1, AlwaysIInv, PTL

\* The administrator is never locked out by overlapping setups, and no session is granted
\* before a code has been verified.
THEOREM SecondFactorHolds == Spec => []CodesStillWork
  <1>1. IInv => CodesStillWork
    BY DEF IInv
  <1> QED
    BY <1>1, AlwaysIInv, PTL

\* A browser that takes one step at a time never leaves a session that can be refreshed and
\* that it does not hold, wherever the lifetimes of rows and cookies end.
THEOREM TidyBrowsersLeaveNothing == Spec => []NothingLeftBehind
  <1>1. IInv => NothingLeftBehind
    BY DEF IInv
  <1> QED
    BY <1>1, AlwaysIInv, PTL
=============================================================================
