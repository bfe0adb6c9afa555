---------------------------- MODULE JobScheduler ----------------------------
(***************************************************************************)
(* The in-app job scheduler (scheduler.py) and the advisory lock it shares *)
(* with a run by hand (jobs/__init__.py).                                  *)
(*                                                                         *)
(* One loop ticks every minute.  A tick decides once, with the time it     *)
(* began, which jobs are due and runs them one after the other.  What the  *)
(* loop knows of a job is a value in memory, mem[j]; what survives a       *)
(* restart is the job's row of job_run, rec[j].  The job itself is any     *)
(* computation that ends well or badly: NightlyNotices puts a real one in. *)
(*                                                                         *)
(* Time is counted in slots of a day.  The code compares dates only with   *)
(* the date of the tick and instants only with the instant of the tick, so *)
(* a date is kept as its distance from today in days (0, 1, Older) and an  *)
(* instant as its distance from now in slots, up to AgeCap ("long ago or   *)
(* never").  The clock does not go back.                                   *)
(***************************************************************************)
EXTENDS Naturals, FiniteSets

CONSTANTS
    Jobs,           \* numbered in registry order
    Nightly,        \* the jobs with a time of day; the others have an interval
    At,             \* the slot a nightly job is scheduled for
    Every,          \* the interval of the others, in slots
    DaySlots,       \* slots in a day
    RetryDelay,     \* slots between two attempts of a nightly job
    MaxAttempts,    \* attempts of a nightly job in a day
    AgeCap,         \* bound: an instant further back than this is "long ago"
    MaxIncidents    \* bound: restarts and runs by hand

ASSUME SchedulerAssumption ==
    /\ Jobs \subseteq Nat
    /\ IsFiniteSet(Jobs)
    /\ Nightly \subseteq Jobs
    /\ DaySlots \in Nat \ {0}
    /\ At \in [Nightly -> 0..(DaySlots - 1)]
    /\ AgeCap \in Nat \ {0}
    /\ RetryDelay \in 1..AgeCap
    /\ Every \in [Jobs \ Nightly -> 1..AgeCap]
    /\ MaxAttempts \in Nat \ {0}
    /\ MaxIncidents \in Nat

VARIABLES
    clock,      \* the slot of the day
    mem,        \* Scheduler.state
    rec,        \* job_run rows
    loop,       \* where the loop's coroutine stands
    lock,       \* the advisory lock of each job
    incidents   \* restarts and runs by hand so far

schedulerVars == <<clock, mem, rec, loop, lock, incidents>>

Older == 2                  \* before yesterday, or never

DaysAgo == 0..Older

\* attempts of an interval job are logged only, and not kept here.
JobStates ==
    [success_on : DaysAgo, attempts_on : DaysAgo, attempts : 0..MaxAttempts,
     attempt_age : 0..AgeCap, alerted_on : DaysAgo]

JobRuns == [success_on : DaysAgo, attempt_age : 0..AgeCap]

\* due: the jobs the tick has still to run, the one running included.
\* days, age: how far back the tick's `now` lies.
\* ticked: the loop has ticked in this slot.
LoopStates ==
    [at : {"down", "asleep", "ticking", "running", "recording"},
     due : SUBSET Jobs, ok : BOOLEAN, days : 0..1, age : 0..AgeCap,
     ticked : BOOLEAN]

SchedulerTypeOK ==
    /\ clock \in 0..(DaySlots - 1)
    /\ mem \in [Jobs -> JobStates]
    /\ rec \in [Jobs -> JobRuns]
    /\ loop \in LoopStates
    /\ lock \in [Jobs -> {"free", "loop", "hand"}]
    /\ incidents \in 0..MaxIncidents
    /\ loop.at \in {"ticking", "running", "recording"} => loop.due # {}

NewJob ==
    [success_on |-> Older, attempts_on |-> Older, attempts |-> 0,
     attempt_age |-> AgeCap, alerted_on |-> Older]

Down ==
    [at |-> "down", due |-> {}, ok |-> FALSE, days |-> 0, age |-> 0,
     ticked |-> FALSE]

SchedulerInit ==
    /\ clock = 0
    /\ mem = [j \in Jobs |-> NewJob]
    /\ rec = [j \in Jobs |-> [success_on |-> Older, attempt_age |-> AgeCap]]
    /\ loop = Down
    /\ lock = [j \in Jobs |-> "free"]
    /\ incidents = 0

-----------------------------------------------------------------------------
(* The decisions, pure.                                                    *)

IsDue(j) ==
    /\ mem[j].success_on # 0
    /\ clock >= At[j]
    /\ mem[j].attempts_on = 0 =>
         /\ mem[j].attempts < MaxAttempts
         /\ mem[j].attempt_age >= RetryDelay

IsDueEvery(j) == mem[j].attempt_age >= Every[j]

DueJobs == {j \in Jobs : IF j \in Nightly THEN IsDue(j) ELSE IsDueEvery(j)}

\* `now` is the instant of the tick: loop.days days and loop.age slots ago.
Attempted(j, st) ==
    LET before == IF st.attempts_on = loop.days THEN st.attempts ELSE 0 IN
    [st EXCEPT !.attempts_on = loop.days,
               !.attempts = IF j \in Nightly THEN before + 1 ELSE 0,
               !.attempt_age = loop.age]

Succeeded(st) == [st EXCEPT !.success_on = loop.days]

Alerted(st) == [st EXCEPT !.alerted_on = loop.days]

\* The first of the tick's jobs in registry order.
Current == CHOOSE j \in loop.due : \A k \in loop.due : j <= k

-----------------------------------------------------------------------------
(* The loop.                                                               *)

Asleep == [Down EXCEPT !.at = "asleep", !.ticked = TRUE]

\* The tick goes on to its next job, or ends.
NextJob ==
    LET rest == loop.due \ {Current} IN
    loop' = IF rest = {} THEN Asleep
            ELSE [loop EXCEPT !.at = "ticking", !.due = rest]

\* Broken: only the last attempt is read back.
LoadStateWithoutSuccess ==
    /\ loop.at = "down"
    /\ mem' = [j \in Jobs |-> [NewJob EXCEPT !.attempt_age = rec[j].attempt_age]]
    /\ loop' = [Down EXCEPT !.at = "asleep"]
    /\ UNCHANGED <<clock, rec, lock, incidents>>

\* Broken: only the last success is read back.
LoadStateWithoutAttempt ==
    /\ loop.at = "down"
    /\ mem' = [j \in Jobs |-> [NewJob EXCEPT !.success_on = rec[j].success_on]]
    /\ loop' = [Down EXCEPT !.at = "asleep"]
    /\ UNCHANGED <<clock, rec, lock, incidents>>

\* The process starts and the database answers.  The day's attempts and the
\* alert flag are not recorded anywhere: they start afresh.
LoadState ==
    /\ loop.at = "down"
    /\ mem' = [j \in Jobs |->
                 [NewJob EXCEPT !.success_on = rec[j].success_on,
                                !.attempt_age = rec[j].attempt_age]]
    /\ loop' = [Down EXCEPT !.at = "asleep"]
    /\ UNCHANGED <<clock, rec, lock, incidents>>

\* A tick that finds nothing due changes nothing.
Tick ==
    /\ loop.at = "asleep"
    /\ DueJobs # {}
    /\ loop' = [Down EXCEPT !.at = "ticking", !.due = DueJobs, !.ticked = TRUE]
    /\ UNCHANGED <<clock, mem, rec, lock, incidents>>

RunJob ==
    /\ loop.at = "ticking"
    /\ lock[Current] = "free"
    /\ lock' = [lock EXCEPT ![Current] = "loop"]
    /\ mem' = [mem EXCEPT ![Current] = Attempted(Current, @)]
    /\ loop' = [loop EXCEPT !.at = "running"]
    /\ UNCHANGED <<clock, rec, incidents>>

\* A run by hand is in flight: not an attempt.
SkipLocked ==
    /\ loop.at = "ticking"
    /\ lock[Current] # "free"
    /\ NextJob
    /\ UNCHANGED <<clock, mem, rec, lock, incidents>>

\* The job returned 0 (ok), or another code or an exception.  The success is
\* in memory before it is recorded.
RunEnds(ok) ==
    /\ loop.at = "running"
    /\ lock' = [lock EXCEPT ![Current] = "free"]
    /\ mem' = [mem EXCEPT ![Current] = IF ok THEN Succeeded(@) ELSE @]
    /\ loop' = [loop EXCEPT !.at = "recording", !.ok = ok]
    /\ UNCHANGED <<clock, rec, incidents>>

\* The upsert of job_run commits; a failure is then mailed once a day.
Record ==
    /\ loop.at = "recording"
    /\ rec' = [rec EXCEPT
                 ![Current].success_on = IF loop.ok THEN loop.days ELSE @,
                 ![Current].attempt_age = loop.age]
    /\ mem' = [mem EXCEPT ![Current] =
                 IF loop.ok \/ @.alerted_on = loop.days THEN @ ELSE Alerted(@)]
    /\ NextJob
    /\ UNCHANGED <<clock, lock, incidents>>

\* The upsert fails: the exception ends the tick, and the jobs that were to
\* follow wait for the next one.
RecordFails ==
    /\ loop.at = "recording"
    /\ loop' = Asleep
    /\ UNCHANGED <<clock, mem, rec, lock, incidents>>

-----------------------------------------------------------------------------
(* The process, the operator, and the clock.                               *)

\* The database ends the sessions of a process that died, and with them its
\* locks.
Crash ==
    /\ loop.at # "down"
    /\ incidents < MaxIncidents
    /\ incidents' = incidents + 1
    /\ loop' = Down
    /\ mem' = [j \in Jobs |-> NewJob]
    /\ lock' = [j \in Jobs |-> IF lock[j] = "loop" THEN "free" ELSE lock[j]]
    /\ UNCHANGED <<clock, rec>>

\* Broken: the run by hand does not ask for the lock.
HandStartsUnlocked(j) ==
    /\ incidents < MaxIncidents
    /\ incidents' = incidents + 1
    /\ lock' = [lock EXCEPT ![j] = "hand"]
    /\ UNCHANGED <<clock, mem, rec, loop>>

\* `python -m volunteerdb.jobs.<name>`: it takes the lock or gives up.
HandStarts(j) ==
    /\ lock[j] = "free"
    /\ incidents < MaxIncidents
    /\ incidents' = incidents + 1
    /\ lock' = [lock EXCEPT ![j] = "hand"]
    /\ UNCHANGED <<clock, mem, rec, loop>>

\* However it ends, it records nothing in job_run.
HandEnds(j) ==
    /\ lock[j] = "hand"
    /\ lock' = [lock EXCEPT ![j] = "free"]
    /\ UNCHANGED <<clock, mem, rec, loop, incidents>>

Elapse(age) == IF age < AgeCap THEN age + 1 ELSE AgeCap

DayPasses(days) == IF days < Older THEN days + 1 ELSE Older

\* A slot is many ticks long, so a sleeping loop has ticked before it ends.
\* Bound: a tick does not see two midnights.
Advance ==
    LET midnight == clock = DaySlots - 1
        Back(days) == IF midnight THEN DayPasses(days) ELSE days
        busy == loop.at \notin {"down", "asleep"}
    IN
    /\ loop.at = "asleep" => loop.ticked \/ DueJobs = {}
    /\ midnight => loop.days = 0
    /\ clock' = IF midnight THEN 0 ELSE clock + 1
    /\ mem' = IF loop.at = "down" THEN mem
              ELSE [j \in Jobs |->
                     [mem[j] EXCEPT !.success_on = Back(@),
                                    !.attempts_on = Back(@),
                                    !.attempt_age = Elapse(@),
                                    !.alerted_on = Back(@)]]
    /\ rec' = [j \in Jobs |-> [rec[j] EXCEPT !.success_on = Back(@),
                                            !.attempt_age = Elapse(@)]]
    /\ loop' = [loop EXCEPT !.ticked = FALSE,
                            !.days = IF busy THEN Back(@) ELSE 0,
                            !.age = IF busy THEN Elapse(@) ELSE 0]
    /\ UNCHANGED <<lock, incidents>>

SchedulerNext ==
    \/ LoadState \/ Tick \/ RunJob \/ SkipLocked
    \/ \E ok \in BOOLEAN : RunEnds(ok)
    \/ Record \/ RecordFails \/ Crash \/ Advance
    \/ \E j \in Jobs : HandStarts(j) \/ HandEnds(j)

SchedulerSpec == SchedulerInit /\ [][SchedulerNext]_schedulerVars

-----------------------------------------------------------------------------
(* Properties.                                                             *)

\* The loop of a running process knows every success and every attempt on
\* record: what it decides by is never older than what a restart would read
\* (scheduler.py run_job, record, load_state).
LoopKnowsTheRecord ==
    loop.at # "down" =>
      \A j \in Jobs :
        /\ j \in Nightly => mem[j].success_on <= rec[j].success_on
        /\ mem[j].attempt_age <= rec[j].attempt_age

\* A nightly job whose success is recorded for the day is not started again
\* by the scheduler that day, whatever restarts and failed records come
\* between ("a restart cannot skip a night", nor repeat it).
RecordedNightIsOver ==
    [][\A j \in Nightly :
         lock[j] # "loop" /\ lock'[j] = "loop" /\ loop.days = 0
           => rec[j].success_on # 0]_schedulerVars

\* The scheduler takes up an interval job only when its interval has passed
\* since the last attempt on record: the pace survives restarts.
PacedAcrossRestarts ==
    [][\A j \in Jobs \ Nightly :
         j \in loop'.due \ loop.due => rec[j].attempt_age >= Every[j]]_schedulerVars
=============================================================================
