-------------------------- MODULE MCNightlyNotices --------------------------
(* An instance of NightlyNotices small enough for TLC.                     *)
EXTENDS NightlyNotices

CONSTANTS p1, p2

\* One slot a day: a night is one attempt.  Two people on one event, the
\* second slot with both reminders.
MCAt == [j \in {1} |-> 0]
MCEvery == [j \in {} |-> 1]
MCEventOf == [a \in {1, 2} |-> "mass"]
MCWants == [a \in {1, 2} |-> IF a = 1 THEN {"day"} ELSE {"week", "day"}]
=============================================================================
