----------------------------- MODULE MCHistory -----------------------------
(* A small instance of History for TLC. *)
EXTENDS History

CONSTANTS t1, t2

\* The days are in one week; the last one is today, and has live quotes.
OneWeek  == [d \in Days |-> 1]
LastDay  == [p \in Providers |-> {2}]

\* Two days, the first of which is backfilled with the stock bars of the day before, and
\* the current day alone.
WeekAndDay == {[days |-> {1, 2}, frequency |-> "weekly"],
               [days |-> {2}, frequency |-> "daily"]}
=============================================================================
