--------------------------- MODULE NightlyNotices ---------------------------
(***************************************************************************)
(* The event digest as one of the scheduler's jobs, beside others that are *)
(* any computation: the job's lock is what keeps a run by hand and the     *)
(* scheduler's apart, the job's end is what the scheduler counts, and the  *)
(* scheduler's restart is what cuts the job short between mail and stamp.  *)
(***************************************************************************)
EXTENDS JobScheduler, EventReminders

CONSTANTS
    Reminders,      \* the number of the event_reminders job
    MaxTroubles     \* bound: incidents and roster changes together

ASSUME NightlyAssumption == Reminders \in Nightly /\ MaxTroubles \in Nat

vars == <<schedulerVars, noticeVars>>

TypeOK == SchedulerTypeOK /\ NoticesTypeOK

Init == SchedulerInit /\ NoticesInit

\* Runner r is inside event_reminders.main.
Working(r) ==
    CASE r = "loop" -> loop.at = "running" /\ Current = Reminders
      [] r = "hand" -> lock[Reminders] = "hand"

ReadStep(r) == Working(r) /\ Read(r) /\ UNCHANGED schedulerVars

SendTo(r, p) ==
    /\ Working(r)
    /\ \E d \in run[r].todo : d.to = p /\ Send(r, d)
    /\ UNCHANGED schedulerVars

SendToFails(r, p) ==
    /\ Working(r)
    /\ \E d \in run[r].todo : d.to = p /\ SendFails(r, d)
    /\ UNCHANGED schedulerVars

StampFor(r, p) ==
    /\ Working(r)
    /\ run[r].digest.to = p
    /\ Stamp(r)
    /\ UNCHANGED schedulerVars

\* Broken: the exception leaves run_job, and with it the tick.
JobRaises(ok) ==
    /\ loop.at = "running"
    /\ lock' = [lock EXCEPT ![Current] = "free"]
    /\ loop' = Asleep
    /\ UNCHANGED <<clock, mem, rec, incidents>>
    /\ Stop("loop")

\* event_reminders.main returns 0 once every digest was tried, whether or not
\* its mail went.  It ends badly with an exception: the read failed, or an
\* insert, for instance of the stamp of an assignment deleted since the read.
JobEnds(ok) ==
    /\ RunEnds(ok)
    /\ IF Current = Reminders
       THEN /\ ok => run["loop"].phase = "sending" /\ run["loop"].todo = {}
            /\ Stop("loop")
       ELSE UNCHANGED noticeVars

Troubled == incidents + changes < MaxTroubles

Restart == Troubled /\ Crash /\ Stop("loop")

HandRunEnds(j) ==
    /\ HandEnds(j)
    /\ IF j = Reminders THEN Stop("hand") ELSE UNCHANGED noticeVars

Body(r) ==
    \/ ReadStep(r)
    \/ \E p \in People : SendTo(r, p) \/ SendToFails(r, p) \/ StampFor(r, p)

LoopStep == LoadState \/ Tick \/ RunJob \/ SkipLocked \/ Record \/ RecordFails

Next ==
    \/ (LoopStep \/ Advance) /\ UNCHANGED noticeVars
    \/ \E j \in Jobs : Troubled /\ HandStarts(j) /\ UNCHANGED noticeVars
    \/ \E j \in Jobs : HandRunEnds(j)
    \/ \E ok \in BOOLEAN : JobEnds(ok)
    \/ Restart
    \/ \E r \in Runners : Body(r)
    \/ Troubled /\ RosterChanges /\ UNCHANGED schedulerVars

\* The loop goes on, time passes, and a run ends (every send has a timeout).
\* The database and the mailer do not fail each time for ever.  Nothing is
\* assumed of the roster, of restarts or of runs by hand but that these end.
Fairness ==
    /\ WF_vars(LoopStep /\ UNCHANGED noticeVars)
    /\ WF_vars(Advance /\ UNCHANGED noticeVars)
    /\ WF_vars(\E j \in Jobs : HandRunEnds(j))
    /\ WF_vars(\E ok \in BOOLEAN : JobEnds(ok))
    /\ SF_vars(ReadStep("loop"))
    /\ \A p \in People : SF_vars(SendTo("loop", p)) /\ SF_vars(StampFor("loop", p))

Spec == Init /\ [][Next]_vars /\ Fairness

-----------------------------------------------------------------------------
(* Properties.                                                             *)

\* Whoever is scheduled, stays on the assignment and wants the notice is told
\* in the end, whatever sends fail, runs die and slots change hands meanwhile,
\* unless the window goes by first (event_reminders.read, plan).
NothingStaysOwed ==
    \A p \in People :
      LET owed ==
            \E a \in Assignments :
              /\ holder[a] = p
              /\ window[EventOf[a]] # "over"
              /\ \E stage \in Wants[a] \cup {"scheduled"} :
                   InWindow(a, stage) /\ <<a, p, stage>> \notin told
      IN owed ~> ~owed

\* With a real job in it the scheduler does what it does with any.
ImplementsScheduler == SchedulerSpec
=============================================================================
