---------------------------- MODULE MCServices ----------------------------
(* Small instances of the job scheduler with two jobs, of the team tree    *)
(* with its task forces, of the front doors with their rate limits, and of *)
(* signing up for a weekly series.  They share no state, so that           *)
(* interleaving them would show nothing: a behaviour takes up one of the   *)
(* four and leaves the others as they began.                               *)
EXTENDS JobScheduler, TaskForces, SignIn, EventSeries, TLC

CONSTANTS A, B

VARIABLE part

\* Job 1 is due from the second slot of the day on; job 2 every two slots.
MCAt == [j \in {1} |-> 1]
MCEvery == [j \in {2} |-> 2]

\* A leader of the one ministry, and a core member of the other.
MCRoles ==
    [t \in Teams |-> [p \in People |->
        IF t = A /\ p = 1 THEN Leader ELSE IF t = B /\ p = 2 THEN Core ELSE Out]]

\* The address has a little more room than an account, in two slots.
MCLimit == [k \in Keys |-> IF k = "pw-ip" THEN 3 ELSE 2]
MCWindow == [k \in Keys |-> 2]

\* Codes are asked for, or addresses changed and calls announced; passwords
\* are tried beside either.
OneKindOfMail ==
    \/ mailed = 0 /\ \A c \in Clients : client[c].op \notin {"ask", "issue"}
    \/ /\ \A k \in Spends \cup CallTeams : charged[k] = {}
       /\ \A c \in Clients : client[c].op # "call"

\* Somebody may be serving already; not whole rosters.  Once an event was moved
\* under a request nothing is claimed of the series.
FewServe == Cardinality(serving) <= 1 /\ ~moved

Interchangeable ==
    Permutations(Requesters) \cup Permutations(Clients) \cup Permutations(Helpers)

serviceVars == <<schedulerVars, teamVars, signVars, seriesVars, part>>

Init ==
    /\ SchedulerInit /\ TeamsInit /\ SignInInit /\ SeriesInit
    /\ part \in {"scheduler", "teams", "doors", "series"}

Next ==
    /\ UNCHANGED part
    /\ \/ part = "scheduler" /\ SchedulerNext /\ UNCHANGED <<teamVars, signVars, seriesVars>>
       \/ part = "teams" /\ TeamsNext /\ UNCHANGED <<schedulerVars, signVars, seriesVars>>
       \/ part = "doors" /\ SignInNext /\ UNCHANGED <<schedulerVars, teamVars, seriesVars>>
       \/ part = "series" /\ SeriesNext /\ UNCHANGED <<schedulerVars, teamVars, signVars>>

Spec == Init /\ [][Next]_serviceVars
=============================================================================
