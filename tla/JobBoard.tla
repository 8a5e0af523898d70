------------------------------ MODULE JobBoard ------------------------------
(***************************************************************************)
(* What the queue of historical calculations promises its users: a board   *)
(* of jobs of which at most one is being worked on.  A job is worked on    *)
(* only while it is queued, an interrupted job stays queued, and a settled *)
(* job comes back only by being reopened.                                  *)
(***************************************************************************)
CONSTANT Jobs

VARIABLES state,   \* job -> "absent", "queued" or "settled"
          working  \* the jobs being worked on

vars == <<state, working>>

Init ==
  /\ state = [j \in Jobs |-> "absent"]
  /\ working = {}

Submit(j) ==
  /\ state[j] = "absent"
  /\ state' = [state EXCEPT ![j] = "queued"]
  /\ UNCHANGED working

Start(j) ==
  /\ state[j] = "queued"
  /\ working = {}
  /\ working' = {j}
  /\ UNCHANGED state

Settle(j) ==
  /\ working = {j}
  /\ state' = [state EXCEPT ![j] = "settled"]
  /\ working' = {}

\* The work stops without a result: the job stays on the board.
Interrupt ==
  /\ working # {}
  /\ working' = {}
  /\ UNCHANGED state

Reopen(j) ==
  /\ state[j] = "settled"
  /\ state' = [state EXCEPT ![j] = "queued"]
  /\ UNCHANGED working

\* A late report of an earlier attempt settles a reopened job nobody works on yet.
SettleLate(j) ==
  /\ state[j] = "queued"
  /\ working = {}
  /\ state' = [state EXCEPT ![j] = "settled"]
  /\ UNCHANGED working

Next ==
  \/ \E j \in Jobs : Submit(j) \/ Start(j) \/ Settle(j) \/ Reopen(j) \/ SettleLate(j)
  \/ Interrupt

Spec == Init /\ [][Next]_vars
=============================================================================
