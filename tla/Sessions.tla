------------------------------ MODULE Sessions ------------------------------
(***************************************************************************)
(* Sign-in, second factor and refresh sessions of the one administrator:   *)
(* auth/routes.py, auth/jwt.py, auth/mfa.py (Python backend).              *)
(*                                                                         *)
(* A handler awaits nothing, so the event loop runs it whole; what races   *)
(* are requests of several tabs that share a browser's cookie, and answers *)
(* that come late or never.  A temporary token and a new secret count as   *)
(* received once they are issued; only the cookie travels with its answer. *)
(***************************************************************************)
EXTENDS Integers, FiniteSets

CONSTANTS Browsers,   \* each with one cookie jar
          Tabs,       \* tabs of a browser, each with one request at a time
          MaxAsked,   \* bound: requests at a time
          MaxTokens,  \* bound: refresh tokens ever issued
          MaxSecrets  \* bound: TOTP secrets ever generated

ASSUME SessionsAssumption ==
  /\ {MaxAsked, MaxTokens, MaxSecrets} \subseteq Nat

VARIABLES
  enabled,   \* AdminSecurity.mfa_enabled
  secret,    \* AdminSecurity.totp_secret_encrypted, 0 for none
  secrets,   \* secrets generated so far
  scanned,   \* secrets the administrator's authenticator has
  temp,      \* purposes of the valid temporary tokens, which any browser may send
  sessions,  \* refresh tokens with a SessionRecord
  expired,   \* those of them past expires_at
  issued,    \* refresh tokens issued so far
  from,      \* history variable: token -> the token it replaced, 0 after a code
  owner,     \* history variable: token -> the browser it was issued to
  cookie,    \* browser -> svix_refresh, 0 for none
  asked,     \* tab -> its request, or the answer on its way
  tidy       \* history variable: browsers that went one step after the other

\* Sessions that can still be refreshed.
live == sessions \ expired

factor == <<enabled, secret, secrets, scanned, temp>>
table  == <<sessions, expired, issued, from, owner>>
vars   == <<factor, table, cookie, asked, tidy>>

Tokens   == 1..MaxTokens
Purposes == {"setup", "verify"}
Ops      == {"confirm", "verify", "refresh", "logout"}
Answers  == {"set", "clear", "keep"}
Places   == Browsers \X Tabs

\* value: the secret of the code that is sent, or the token of the cookie.
Message == [step : Ops \cup Answers \cup {"idle"}, value : 0..(MaxTokens + MaxSecrets)]
Idle    == [step |-> "idle", value |-> 0]
Keep    == [step |-> "keep", value |-> 0]

\* The types of the second factor, the sessions, the cookies and the requests.
TypeOK ==
  /\ enabled \in BOOLEAN
  /\ secret \in 0..MaxSecrets /\ secrets \in 0..MaxSecrets /\ scanned \subseteq 1..MaxSecrets
  /\ temp \subseteq Purposes
  /\ issued \in 0..MaxTokens
  /\ sessions \subseteq 1..issued /\ expired \subseteq sessions
  /\ from \in [Tokens -> 0..MaxTokens]
  /\ owner \in [Tokens -> SUBSET Browsers]
  /\ cookie \in [Browsers -> 0..MaxTokens]
  /\ asked \in [Places -> Message]
  /\ tidy \subseteq Browsers

\* The initial administrator has no second factor.
Init ==
  /\ enabled = FALSE /\ secret = 0 /\ secrets = 0 /\ scanned = {}
  /\ temp = {}
  /\ sessions = {} /\ expired = {} /\ issued = 0
  /\ from = [t \in Tokens |-> 0]
  /\ owner = [t \in Tokens |-> {}]
  /\ cookie = [b \in Browsers |-> 0]
  /\ asked = [p \in Places |-> Idle]
  /\ tidy = Browsers

-----------------------------------------------------------------------------
(* The password and the setup of the second factor. *)

\* Bug: the temporary token does not name one of the two purposes.
LoginReworded ==
  /\ temp' = temp \cup {IF enabled THEN "mfa" ELSE "setup"}
  /\ UNCHANGED <<enabled, secret, secrets, scanned, table, cookie, asked, tidy>>

\* login: the password is right.  (A temporary token that has expired is one that is not
\* sent any more.)
Login ==
  /\ temp' = temp \cup {IF enabled THEN "verify" ELSE "setup"}
  /\ UNCHANGED <<enabled, secret, secrets, scanned, table, cookie, asked, tidy>>

\* Bug: setup_mfa does not look at mfa_enabled.
StartSetupAnyTime ==
  /\ "setup" \in temp /\ secrets < MaxSecrets
  /\ secrets' = secrets + 1
  /\ secret' = secrets + 1
  /\ scanned' \in {scanned, scanned \cup {secrets + 1}}
  /\ UNCHANGED <<enabled, temp, table, cookie, asked, tidy>>

\* setup_mfa without a code: a new secret replaces the old one; it is scanned or not.
StartSetup ==
  /\ "setup" \in temp /\ ~ enabled /\ secrets < MaxSecrets
  /\ secrets' = secrets + 1
  /\ secret' = secrets + 1
  /\ scanned' \in {scanned, scanned \cup {secrets + 1}}
  /\ UNCHANGED <<enabled, temp, table, cookie, asked, tidy>>

-----------------------------------------------------------------------------
(* Requests. *)

\* The browser sends what it has: a code with a temporary token, or its cookie.
Values(b, op) ==
  CASE op = "confirm" -> IF "setup" \in temp THEN scanned ELSE {}
    [] op = "verify"  -> IF "verify" \in temp THEN scanned ELSE {}
    [] op \in {"refresh", "logout"} -> {cookie[b]}

\* A browser is untidy once two of its requests overlap, or once it signs in while it
\* still has a session.
Overlaps(b, i)  == \E j \in Tabs : j # i /\ asked[<<b, j>>] # Idle
SignsInAgain(b, op) == op \in {"confirm", "verify"} /\ cookie[b] \in live

Send(b, i, op) ==
  /\ asked[<<b, i>>] = Idle
  /\ Cardinality({p \in Places : asked[p] # Idle}) < MaxAsked
  /\ \E v \in Values(b, op) : asked' = [asked EXCEPT ![<<b, i>>] = [step |-> op, value |-> v]]
  /\ tidy' = IF Overlaps(b, i) \/ SignsInAgain(b, op) THEN tidy \ {b} ELSE tidy
  /\ UNCHANGED <<factor, table, cookie>>

Answer(b, i, message) == asked' = [asked EXCEPT ![<<b, i>>] = message]

\* _token_response, with the row of a refreshed session deleted in the same commit.
Grant(b, i, old) ==
  /\ issued < MaxTokens
  /\ issued' = issued + 1
  /\ sessions' = (sessions \ {old}) \cup {issued + 1}
  /\ expired' = expired \ {old}
  /\ from' = [from EXCEPT ![issued + 1] = old]
  /\ owner' = [owner EXCEPT ![issued + 1] = {b}]
  /\ Answer(b, i, [step |-> "set", value |-> issued + 1])

\* Bug: any secret the authenticator has will do.
VerifiesAny(v) == v \in scanned

\* verify_totp.
Verifies(v) == secret # 0 /\ v = secret

\* setup_mfa with a code.
Confirm(b, i) ==
  LET m == asked[<<b, i>>] IN
  /\ m.step = "confirm"
  /\ IF ~ enabled /\ Verifies(m.value)
     THEN Grant(b, i, 0) /\ enabled' = TRUE
     ELSE Answer(b, i, Keep) /\ UNCHANGED <<table, enabled>>
  /\ UNCHANGED <<secret, secrets, scanned, temp, cookie, tidy>>

\* verify_mfa.
Verify(b, i) ==
  LET m == asked[<<b, i>>] IN
  /\ m.step = "verify"
  /\ IF enabled /\ Verifies(m.value)
     THEN Grant(b, i, 0)
     ELSE Answer(b, i, Keep) /\ UNCHANGED table
  /\ UNCHANGED <<factor, cookie, tidy>>

\* A row is deleted, or there was none.
Drop(t) ==
  /\ sessions' = sessions \ {t} /\ expired' = expired \ {t}
  /\ UNCHANGED <<issued, from, owner>>

\* Bug: the old row stays.
RefreshKeepsOld(b, i) ==
  LET m == asked[<<b, i>>] IN
  /\ m.step = "refresh"
  /\ IF m.value \in live
     THEN /\ issued < MaxTokens
          /\ issued' = issued + 1
          /\ sessions' = sessions \cup {issued + 1}
          /\ from' = [from EXCEPT ![issued + 1] = m.value]
          /\ owner' = [owner EXCEPT ![issued + 1] = {b}]
          /\ Answer(b, i, [step |-> "set", value |-> issued + 1])
          /\ UNCHANGED expired
     ELSE Drop(m.value) /\ Answer(b, i, Keep)
  /\ UNCHANGED <<factor, cookie, tidy>>

\* refresh_session.  A refusal is raised as an exception, whose response does not carry
\* the cookie that was cleared in the other one: the browser keeps its cookie.  (Nothing
\* in the repository changes AdminAccount.is_active; whoever edits the row may.)
Refresh(b, i) ==
  LET m == asked[<<b, i>>] IN
  /\ m.step = "refresh"
  /\ \E active \in BOOLEAN :
       IF m.value \in live /\ active
       THEN Grant(b, i, m.value)
       ELSE Drop(m.value) /\ Answer(b, i, Keep)
  /\ UNCHANGED <<factor, cookie, tidy>>

\* Bug: only the cookie is cleared.
LogoutOfCookie(b, i) ==
  /\ asked[<<b, i>>].step = "logout"
  /\ Answer(b, i, [step |-> "clear", value |-> 0])
  /\ UNCHANGED <<factor, table, cookie, tidy>>

\* logout.
Logout(b, i) ==
  LET m == asked[<<b, i>>] IN
  /\ m.step = "logout"
  /\ Drop(m.value)
  /\ Answer(b, i, [step |-> "clear", value |-> 0])
  /\ UNCHANGED <<factor, cookie, tidy>>

-----------------------------------------------------------------------------
(* Answers and time. *)

\* The answer reaches the browser.
Receive(b, i) ==
  LET m == asked[<<b, i>>] IN
  /\ m.step \in Answers
  /\ cookie' = IF m.step = "keep" THEN cookie ELSE [cookie EXCEPT ![b] = m.value]
  /\ Answer(b, i, Idle)
  /\ UNCHANGED <<factor, table, tidy>>

\* A request or its answer is lost: the connection broke or the process died.
Lose(b, i) ==
  /\ asked[<<b, i>>] # Idle
  /\ Answer(b, i, Idle)
  /\ tidy' = tidy \ {b}
  /\ UNCHANGED <<factor, table, cookie>>

\* refresh_expire_days are over since the row was added.
Expire(t) ==
  /\ t \in live
  /\ expired' = expired \cup {t}
  /\ UNCHANGED <<factor, sessions, issued, from, owner, cookie, asked, tidy>>

\* The cookie's Max-Age is over: the same number of days, but counted from the arrival of
\* the answer, so not before the row has expired (or was replaced or deleted).
Forget(b) ==
  /\ cookie[b] # 0 /\ cookie[b] \notin live
  /\ cookie' = [cookie EXCEPT ![b] = 0]
  /\ UNCHANGED <<factor, table, asked, tidy>>

Next ==
  \/ Login \/ StartSetup
  \/ \E b \in Browsers, i \in Tabs, op \in Ops : Send(b, i, op)
  \/ \E b \in Browsers, i \in Tabs :
       Confirm(b, i) \/ Verify(b, i) \/ Refresh(b, i) \/ Logout(b, i) \/ Receive(b, i) \/ Lose(b, i)
  \/ \E t \in sessions : Expire(t)
  \/ \E b \in Browsers : Forget(b)

Spec == Init /\ [][Next]_vars

-----------------------------------------------------------------------------
(* Properties. *)

\* A refresh token is exchanged at most once, however many tabs send it and whatever the
\* answers do: no two tokens replace the same one, and a replaced one is gone.
RotatedOnce ==
  \A t, u \in 1..issued :
    from[t] # 0 => (from[t] \notin sessions /\ (from[u] = from[t] => u = t))

\* Once the second factor is on, its secret is one that the authenticator has, whatever
\* setups overlapped before; and nobody has a session before.
CodesStillWork ==
  /\ enabled => secret \in scanned
  /\ sessions # {} => enabled

\* A browser that goes one step after the other leaves no live session behind: each one
\* granted to it is its cookie, or on its way to it.  (Overlapping requests, lost answers
\* and a second sign-in do leave sessions that nobody can present, and the rows of expired
\* sessions stay unless they are presented once more: no job deletes them.)
NothingLeftBehind ==
  \A b \in tidy, t \in live :
    b \in owner[t] => \/ cookie[b] = t
                      \/ \E i \in Tabs : asked[<<b, i>>] = [step |-> "set", value |-> t]
=============================================================================
