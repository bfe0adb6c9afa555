------------------------ MODULE NightlyNoticesProofs ------------------------
(***************************************************************************)
(* What TLAPS proves of JobScheduler, for every number of jobs, slots,     *)
(* attempts and incidents, and of NightlyNotices, for every roster and any *)
(* number of failures: the scheduler stays a scheduler with the digest in  *)
(* it, what is stamped was told, and no reminder goes twice.               *)
(***************************************************************************)
EXTENDS NightlyNotices, WellFoundedInduction, TLAPS

(* The scheduler, of any jobs.                                             *)

Busy == loop.at \in {"ticking", "running", "recording"}

\* The jobs of the tick that are still to be started.
StillToStart == {j \in loop.due : loop.at = "ticking" \/ j # Current}

\* Midnight may pass during a tick; until it does, what made a nightly job
\* due stays true, and its attempts of the tick's day stay below the limit.
PendingIsDue ==
    Busy => \A j \in StillToStart \cap Nightly :
              /\ mem[j].attempts_on = loop.days => mem[j].attempts < MaxAttempts
              /\ loop.days = 0 => mem[j].success_on # 0

\* No success is later than the tick that is going on.
NoLaterSuccess == loop.at # "down" => \A j \in Jobs : loop.days <= mem[j].success_on

\* No attempt on record is later than it.
NoLaterAttempt == loop.at # "down" => \A j \in Jobs : loop.age <= rec[j].attempt_age

\* What is about to be recorded is in memory.
MemoryFirst ==
    /\ loop.at \in {"running", "recording"} => mem[Current].attempt_age <= loop.age
    /\ loop.at = "recording" /\ loop.ok => mem[Current].success_on <= loop.days

\* The inductive invariant.
SchedulerInv ==
    /\ SchedulerTypeOK
    /\ LoopKnowsTheRecord
    /\ PendingIsDue
    /\ NoLaterSuccess
    /\ NoLaterAttempt
    /\ MemoryFirst

-----------------------------------------------------------------------------
(* The numbers.                                                            *)

\* A set of numbers that is not empty has a least one.
LEMMA LeastNumber ==
    ASSUME NEW T, T \subseteq Nat, T # {}
    PROVE  \E x \in T : \A y \in T : x <= y
<1>1. PICK x \in T : \A y \in T : ~(<<y, x>> \in OpToRel(<, Nat))
  BY NatLessThanWellFounded, WFMin, Zenon
<1>2. \A y \in T : ~(y < x)
  BY <1>1 DEF OpToRel
<1> QED  BY <1>2

\* A tick with jobs left to do is at one of them.
LEMMA CurrentIsDue ==
    ASSUME loop.due \subseteq Jobs, loop.due # {}
    PROVE  Current \in loop.due /\ Current \in Jobs
<1>1. \E j \in loop.due : \A k \in loop.due : j <= k
  BY LeastNumber, SchedulerAssumption
<1> QED  BY <1>1 DEF Current

\* What the rows of the record and the states in memory are made of.
LEMMA Fields ==
    ASSUME SchedulerTypeOK
    PROVE  /\ \A j \in Jobs : /\ mem[j] \in JobStates
                              /\ mem[j].success_on \in 0..2
                              /\ mem[j].attempts_on \in 0..2
                              /\ mem[j].alerted_on \in 0..2
                              /\ mem[j].attempts \in 0..MaxAttempts
                              /\ mem[j].attempt_age \in 0..AgeCap
                              /\ rec[j] \in JobRuns
                              /\ rec[j].success_on \in 0..2
                              /\ rec[j].attempt_age \in 0..AgeCap
           /\ loop.due \subseteq Jobs
           /\ loop.days \in 0..1
           /\ loop.age \in 0..AgeCap
           /\ loop.ok \in BOOLEAN
           /\ Nightly \subseteq Jobs
           /\ AgeCap \in Nat \ {0} /\ MaxAttempts \in Nat \ {0}
<1>1. \A j \in Jobs : mem[j] \in JobStates /\ rec[j] \in JobRuns
  BY DEF SchedulerTypeOK
<1>2. ASSUME NEW j \in Jobs
      PROVE  /\ mem[j].success_on \in 0..2
             /\ mem[j].attempts_on \in 0..2
             /\ mem[j].alerted_on \in 0..2
             /\ mem[j].attempts \in 0..MaxAttempts
             /\ mem[j].attempt_age \in 0..AgeCap
  BY <1>1 DEF JobStates, DaysAgo, Older
<1>3. ASSUME NEW j \in Jobs
      PROVE  rec[j].success_on \in 0..2 /\ rec[j].attempt_age \in 0..AgeCap
  BY <1>1 DEF JobRuns, DaysAgo, Older
<1>4. /\ loop.due \subseteq Jobs
      /\ loop.days \in 0..1
      /\ loop.age \in 0..AgeCap
      /\ loop.ok \in BOOLEAN
  BY DEF SchedulerTypeOK, LoopStates
<1> QED  BY <1>1, <1>2, <1>3, <1>4, SchedulerAssumption

LEMMA Records ==
    /\ NewJob \in JobStates
    /\ Down \in LoopStates
    /\ Asleep \in LoopStates
    /\ Down.at = "down" /\ Down.days = 0 /\ Down.age = 0 /\ Down.due = {}
    /\ Asleep.at = "asleep" /\ Asleep.days = 0 /\ Asleep.age = 0 /\ Asleep.due = {}
<1>1. NewJob \in JobStates
  BY SchedulerAssumption DEF NewJob, JobStates, DaysAgo, Older
<1>2. Down \in LoopStates
  BY SchedulerAssumption DEF Down, LoopStates
<1>3. Asleep \in LoopStates
  BY <1>2 DEF Asleep, LoopStates
<1>4. Down.at = "down" /\ Down.days = 0 /\ Down.age = 0 /\ Down.due = {}
  BY DEF Down
<1>5. Asleep.at = "asleep" /\ Asleep.days = 0 /\ Asleep.age = 0 /\ Asleep.due = {}
  BY DEF Asleep, Down
<1> QED  BY <1>1, <1>2, <1>3, <1>4, <1>5

-----------------------------------------------------------------------------
(* The invariant.                                                          *)

LEMMA SchedulerInvInit == SchedulerInit => SchedulerInv
<1> SUFFICES ASSUME SchedulerInit PROVE SchedulerInv
  OBVIOUS
<1>1. loop.at = "down"
  BY Records DEF SchedulerInit
<1>2. SchedulerTypeOK
  <2>1. mem \in [Jobs -> JobStates]
    BY Records DEF SchedulerInit
  <2>2. rec \in [Jobs -> JobRuns]
    BY SchedulerAssumption DEF SchedulerInit, JobRuns, DaysAgo, Older
  <2>3. lock \in [Jobs -> {"free", "loop", "hand"}]
    BY DEF SchedulerInit
  <2> QED
    BY <1>1, <2>1, <2>2, <2>3, Records, SchedulerAssumption
       DEF SchedulerInit, SchedulerTypeOK
<1> QED
  BY <1>1, <1>2 DEF SchedulerInv, LoopKnowsTheRecord, PendingIsDue, Busy,
                    NoLaterSuccess, NoLaterAttempt, MemoryFirst

LEMMA SchedulerInvLoadState == SchedulerInv /\ LoadState => SchedulerInv'
<1> SUFFICES ASSUME SchedulerInv, LoadState PROVE SchedulerInv'
  OBVIOUS
<1>0. SchedulerTypeOK
  BY DEF SchedulerInv
<1>1. /\ loop' \in LoopStates
      /\ loop'.at = "asleep" /\ loop'.days = 0 /\ loop'.age = 0
  BY Records DEF LoadState, LoopStates
<1>2. ASSUME NEW j \in Jobs
      PROVE  /\ mem'[j] \in JobStates
             /\ mem'[j].success_on = rec[j].success_on
             /\ mem'[j].attempt_age = rec[j].attempt_age
  <2>1. mem'[j] = [NewJob EXCEPT !.success_on = rec[j].success_on,
                                 !.attempt_age = rec[j].attempt_age]
    BY DEF LoadState
  <2> QED  BY <1>0, <2>1, Fields, Records DEF JobStates, DaysAgo, Older
<1>3. SchedulerTypeOK'
  BY <1>0, <1>1, <1>2 DEF SchedulerTypeOK, LoadState
<1>4. ASSUME NEW j \in Jobs
      PROVE  /\ mem'[j].success_on = rec'[j].success_on
             /\ mem'[j].attempt_age = rec'[j].attempt_age
             /\ rec'[j].success_on \in 0..2 /\ rec'[j].attempt_age \in 0..AgeCap
  <2>1. rec' = rec
    BY DEF LoadState
  <2> QED  BY <1>0, <1>2, <2>1, Fields
<1>5. LoopKnowsTheRecord'
  <2>1. ASSUME NEW j \in Jobs
        PROVE  (mem[j].success_on <= rec[j].success_on /\ mem[j].attempt_age <= rec[j].attempt_age)'
    BY <1>4, SchedulerAssumption
  <2> HIDE DEF SchedulerInv, LoadState
  <2> QED  BY <2>1 DEF LoopKnowsTheRecord
<1>6. NoLaterSuccess' /\ NoLaterAttempt'
  BY <1>1, <1>4, SchedulerAssumption DEF NoLaterSuccess, NoLaterAttempt
<1>7. PendingIsDue' /\ MemoryFirst'
  BY <1>1 DEF PendingIsDue, MemoryFirst, Busy
<1> QED  BY <1>3, <1>5, <1>6, <1>7 DEF SchedulerInv

LEMMA SchedulerInvTick == SchedulerInv /\ Tick => SchedulerInv'
<1> SUFFICES ASSUME SchedulerInv, Tick PROVE SchedulerInv'
  OBVIOUS
<1> USE DEF SchedulerInv, Tick
<1>1. DueJobs \subseteq Jobs
  BY DEF DueJobs
<1>2. /\ loop' \in LoopStates /\ loop'.due = DueJobs
      /\ loop'.at = "ticking" /\ loop'.days = 0 /\ loop'.age = 0
  BY <1>1, Records DEF LoopStates
<1>3. SchedulerTypeOK'
  BY <1>2 DEF SchedulerTypeOK
<1>4. LoopKnowsTheRecord' /\ MemoryFirst'
  BY <1>2 DEF LoopKnowsTheRecord, MemoryFirst
<1>5. NoLaterSuccess' /\ NoLaterAttempt'
  BY <1>2, Fields DEF NoLaterSuccess, NoLaterAttempt
<1>6. ASSUME NEW j \in DueJobs \cap Nightly
      PROVE  /\ mem[j].attempts_on = 0 => mem[j].attempts < MaxAttempts
             /\ mem[j].success_on # 0
  BY DEF DueJobs, IsDue
<1>7. PendingIsDue'
  BY <1>2, <1>6 DEF PendingIsDue, StillToStart
<1> QED  BY <1>3, <1>4, <1>5, <1>7

LEMMA SchedulerInvRunJob == SchedulerInv /\ RunJob => SchedulerInv'
<1> SUFFICES ASSUME SchedulerInv, RunJob PROVE SchedulerInv'
  OBVIOUS
<1> USE DEF SchedulerInv, RunJob
<1>1. Current \in loop.due /\ Current \in Jobs
  BY CurrentIsDue, Fields DEF SchedulerTypeOK
<1>2. /\ loop' \in LoopStates /\ loop'.due = loop.due /\ loop'.at = "running"
      /\ loop'.days = loop.days /\ loop'.age = loop.age
  BY DEF SchedulerTypeOK, LoopStates
<1>3. Current' = Current
  BY <1>2 DEF Current
<1>4. Current \in Nightly =>
        (mem[Current].attempts_on = loop.days => mem[Current].attempts < MaxAttempts)
  BY <1>1 DEF PendingIsDue, Busy, StillToStart
<1>5. /\ mem'[Current] \in JobStates
      /\ mem'[Current].attempt_age = loop.age
      /\ mem'[Current].success_on = mem[Current].success_on
  <2> DEFINE n == IF Current \in Nightly
                  THEN (IF mem[Current].attempts_on = loop.days
                        THEN mem[Current].attempts ELSE 0) + 1
                  ELSE 0
  <2>1. n \in 0..MaxAttempts
    BY <1>1, <1>4, Fields
  <2>2. mem'[Current] = [mem[Current] EXCEPT !.attempts_on = loop.days,
                                             !.attempts = n,
                                             !.attempt_age = loop.age]
    BY <1>1 DEF Attempted, SchedulerTypeOK
  <2>3. /\ mem[Current] \in JobStates
        /\ loop.days \in DaysAgo
        /\ loop.age \in 0..AgeCap
    BY <1>1, Fields DEF DaysAgo, Older
  <2> DEFINE new == [mem[Current] EXCEPT !.attempts_on = loop.days,
                                         !.attempts = n,
                                         !.attempt_age = loop.age]
  <2>4. /\ new \in JobStates
        /\ new.attempt_age = loop.age
        /\ new.success_on = mem[Current].success_on
    <3> HIDE DEF n, SchedulerInv, RunJob
    <3> QED  BY <2>1, <2>3 DEF JobStates
  <2> QED  BY <2>2, <2>4, Zenon
<1>6. \A j \in Jobs : j # Current => mem'[j] = mem[j]
  BY DEF SchedulerTypeOK
<1>7. SchedulerTypeOK'
  <2>1. mem' \in [Jobs -> JobStates]
    BY <1>1, <1>5, <1>6, Fields DEF SchedulerTypeOK
  <2>2. lock' \in [Jobs -> {"free", "loop", "hand"}]
    BY <1>1 DEF SchedulerTypeOK
  <2> QED  BY <1>2, <2>1, <2>2 DEF SchedulerTypeOK
<1>8. LoopKnowsTheRecord'
  BY <1>1, <1>2, <1>5, <1>6, Fields DEF LoopKnowsTheRecord, NoLaterAttempt
<1>9. PendingIsDue'
  BY <1>2, <1>3, <1>6, Fields DEF PendingIsDue, StillToStart, Busy
<1>10. NoLaterSuccess' /\ NoLaterAttempt'
  BY <1>2, <1>5, <1>6 DEF NoLaterSuccess, NoLaterAttempt
<1>11. MemoryFirst'
  BY <1>1, <1>2, <1>3, <1>5, Fields DEF MemoryFirst
<1> QED  BY <1>7, <1>8, <1>9, <1>10, <1>11

\* The tick ends, or goes on without the job it was at.
LEMMA NextJobEffect ==
    ASSUME SchedulerTypeOK, NextJob, loop.at # "asleep"
    PROVE  /\ loop' \in LoopStates
           /\ \/ /\ loop'.at = "asleep" /\ loop'.days = 0 /\ loop'.age = 0
                 /\ loop'.due = {}
              \/ /\ loop'.at = "ticking"
                 /\ loop'.due = loop.due \ {Current} /\ loop'.due # {}
                 /\ loop'.days = loop.days /\ loop'.age = loop.age
<1> DEFINE rest == loop.due \ {Current}
<1>1. CASE rest = {}
  <2>1. loop' = Asleep
    BY <1>1 DEF NextJob
  <2> QED  BY <2>1, Records
<1>2. CASE rest # {}
  <2>1. loop' = [loop EXCEPT !.at = "ticking", !.due = rest]
    BY <1>2 DEF NextJob
  <2> QED  BY <1>2, <2>1 DEF SchedulerTypeOK, LoopStates
<1> QED  BY <1>1, <1>2

LEMMA SchedulerInvSkipLocked == SchedulerInv /\ SkipLocked => SchedulerInv'
<1> SUFFICES ASSUME SchedulerInv, SkipLocked PROVE SchedulerInv'
  OBVIOUS
<1>1. SchedulerTypeOK /\ loop.at = "ticking" /\ NextJob
  BY DEF SchedulerInv, SkipLocked
<1>2. UNCHANGED <<clock, mem, rec, lock, incidents>>
  BY DEF SkipLocked
<1>3. SchedulerTypeOK'
  BY <1>1, <1>2, NextJobEffect DEF SchedulerTypeOK
<1>4. LoopKnowsTheRecord'
  BY <1>1, <1>2 DEF SchedulerInv, LoopKnowsTheRecord
<1>5. PendingIsDue'
  BY <1>1, <1>2, NextJobEffect DEF SchedulerInv, PendingIsDue, StillToStart, Busy
<1>6. NoLaterSuccess' /\ NoLaterAttempt'
  BY <1>1, <1>2, NextJobEffect, Fields DEF SchedulerInv, NoLaterSuccess, NoLaterAttempt
<1>7. MemoryFirst'
  BY <1>1, NextJobEffect DEF MemoryFirst
<1> QED  BY <1>3, <1>4, <1>5, <1>6, <1>7 DEF SchedulerInv

LEMMA SchedulerInvRunEnds ==
    ASSUME NEW ok \in BOOLEAN, SchedulerInv, RunEnds(ok)
    PROVE  SchedulerInv'
<1>1. SchedulerTypeOK /\ loop.at = "running"
  BY DEF SchedulerInv, RunEnds
<1>2. UNCHANGED <<clock, rec, incidents>>
  BY DEF RunEnds
<1>3. Current \in loop.due /\ Current \in Jobs
  BY <1>1, CurrentIsDue, Fields DEF SchedulerTypeOK
<1>4. /\ loop' \in LoopStates /\ loop'.due = loop.due /\ loop'.at = "recording"
      /\ loop'.days = loop.days /\ loop'.age = loop.age /\ loop'.ok = ok
  BY <1>1 DEF RunEnds, SchedulerTypeOK, LoopStates
<1>5. Current' = Current
  BY <1>4 DEF Current
<1>6. /\ mem'[Current] \in JobStates
      /\ mem'[Current].attempt_age = mem[Current].attempt_age
      /\ mem'[Current].success_on = IF ok THEN loop.days ELSE mem[Current].success_on
  <2>1. mem'[Current] = IF ok THEN [mem[Current] EXCEPT !.success_on = loop.days]
                        ELSE mem[Current]
    BY <1>1, <1>3 DEF RunEnds, Succeeded, SchedulerTypeOK
  <2>2. mem[Current] \in JobStates /\ loop.days \in DaysAgo
    BY <1>1, <1>3, Fields DEF DaysAgo, Older
  <2> QED  BY <2>1, <2>2 DEF JobStates
<1>7. \A j \in Jobs : j # Current => mem'[j] = mem[j]
  BY <1>1 DEF RunEnds, SchedulerTypeOK
<1>8. SchedulerTypeOK'
  <2>1. mem' \in [Jobs -> JobStates]
    BY <1>1, <1>3, <1>6, <1>7 DEF RunEnds, SchedulerTypeOK
  <2>2. lock' \in [Jobs -> {"free", "loop", "hand"}]
    BY <1>1, <1>3 DEF RunEnds, SchedulerTypeOK
  <2> QED  BY <1>1, <1>2, <1>4, <2>1, <2>2 DEF SchedulerTypeOK
<1>9. LoopKnowsTheRecord'
  BY <1>1, <1>2, <1>3, <1>6, <1>7, Fields
     DEF SchedulerInv, LoopKnowsTheRecord, NoLaterSuccess
<1>10. PendingIsDue'
  BY <1>1, <1>4, <1>5, <1>7, Fields DEF SchedulerInv, PendingIsDue, StillToStart, Busy
<1>11. NoLaterSuccess' /\ NoLaterAttempt'
  BY <1>1, <1>2, <1>4, <1>6, <1>7, Fields
     DEF SchedulerInv, NoLaterSuccess, NoLaterAttempt
<1>12. MemoryFirst'
  BY <1>1, <1>4, <1>5, <1>6, Fields DEF SchedulerInv, MemoryFirst
<1> QED  BY <1>8, <1>9, <1>10, <1>11, <1>12 DEF SchedulerInv

LEMMA SchedulerInvRecord == SchedulerInv /\ Record => SchedulerInv'
<1> SUFFICES ASSUME SchedulerInv, Record PROVE SchedulerInv'
  OBVIOUS
<1>1. SchedulerTypeOK /\ loop.at = "recording" /\ NextJob
  BY DEF SchedulerInv, Record
<1>2. UNCHANGED <<clock, lock, incidents>>
  BY DEF Record
<1>3. Current \in loop.due /\ Current \in Jobs
  BY <1>1, CurrentIsDue, Fields DEF SchedulerTypeOK
<1>4. /\ rec'[Current] \in JobRuns
      /\ rec'[Current].attempt_age = loop.age
      /\ rec'[Current].success_on = IF loop.ok THEN loop.days ELSE rec[Current].success_on
  <2> DEFINE s == IF loop.ok THEN loop.days ELSE rec[Current].success_on
  <2>1. rec'[Current] = [rec[Current] EXCEPT !.success_on = s, !.attempt_age = loop.age]
    BY <1>1, <1>3 DEF Record, SchedulerTypeOK
  <2>2. s \in DaysAgo /\ loop.age \in 0..AgeCap /\ rec[Current] \in JobRuns
    BY <1>1, <1>3, Fields DEF DaysAgo, Older
  <2> HIDE DEF s
  <2>3. rec'[Current] \in JobRuns /\ rec'[Current].attempt_age = loop.age
        /\ rec'[Current].success_on = s
    BY <2>1, <2>2 DEF JobRuns
  <2> QED  BY <2>3 DEF s
<1>5. /\ mem'[Current] \in JobStates
      /\ mem'[Current].attempt_age = mem[Current].attempt_age
      /\ mem'[Current].success_on = mem[Current].success_on
  <2>1. \/ mem'[Current] = mem[Current]
        \/ mem'[Current] = [mem[Current] EXCEPT !.alerted_on = loop.days]
    BY <1>1, <1>3 DEF Record, Alerted, SchedulerTypeOK
  <2>2. mem[Current] \in JobStates /\ loop.days \in DaysAgo
    BY <1>1, <1>3, Fields DEF DaysAgo, Older
  <2> QED  BY <2>1, <2>2 DEF JobStates
<1>6. \A j \in Jobs : j # Current => mem'[j] = mem[j] /\ rec'[j] = rec[j]
  BY <1>1 DEF Record, SchedulerTypeOK
<1>7. SchedulerTypeOK'
  <2>1. mem' \in [Jobs -> JobStates]
    BY <1>1, <1>3, <1>5, <1>6 DEF Record, SchedulerTypeOK
  <2>2. rec' \in [Jobs -> JobRuns]
    BY <1>1, <1>3, <1>4, <1>6 DEF Record, SchedulerTypeOK
  <2> QED  BY <1>1, <1>2, <2>1, <2>2, NextJobEffect DEF SchedulerTypeOK
<1>8. LoopKnowsTheRecord'
  BY <1>1, <1>3, <1>4, <1>5, <1>6, Fields DEF SchedulerInv, LoopKnowsTheRecord, MemoryFirst
<1>9. PendingIsDue'
  BY <1>1, <1>6, NextJobEffect, Fields DEF SchedulerInv, PendingIsDue, StillToStart, Busy
<1>10. NoLaterSuccess' /\ NoLaterAttempt'
  <2>1. \A j \in Jobs : /\ loop.days <= mem'[j].success_on
                        /\ loop.age <= rec'[j].attempt_age
                        /\ mem'[j].success_on \in 0..2
                        /\ rec'[j].attempt_age \in 0..AgeCap
    BY <1>1, <1>3, <1>4, <1>5, <1>6, Fields DEF SchedulerInv, NoLaterSuccess, NoLaterAttempt
  <2> QED  BY <1>1, <2>1, NextJobEffect, SchedulerAssumption DEF NoLaterSuccess, NoLaterAttempt
<1>11. MemoryFirst'
  BY <1>1, NextJobEffect DEF MemoryFirst
<1> QED  BY <1>7, <1>8, <1>9, <1>10, <1>11 DEF SchedulerInv

LEMMA SchedulerInvRecordFails == SchedulerInv /\ RecordFails => SchedulerInv'
<1> SUFFICES ASSUME SchedulerInv, RecordFails PROVE SchedulerInv'
  OBVIOUS
<1>1. /\ SchedulerTypeOK /\ loop.at = "recording" /\ loop' = Asleep
      /\ UNCHANGED <<clock, mem, rec, lock, incidents>>
  BY DEF SchedulerInv, RecordFails
<1>2. SchedulerTypeOK'
  BY <1>1, Records DEF SchedulerTypeOK
<1>3. LoopKnowsTheRecord'
  BY <1>1 DEF SchedulerInv, LoopKnowsTheRecord
<1>4. PendingIsDue' /\ MemoryFirst'
  BY <1>1, Records DEF PendingIsDue, MemoryFirst, Busy
<1>5. NoLaterSuccess' /\ NoLaterAttempt'
  BY <1>1, Records, Fields DEF NoLaterSuccess, NoLaterAttempt
<1> QED  BY <1>2, <1>3, <1>4, <1>5 DEF SchedulerInv

LEMMA SchedulerInvCrash == SchedulerInv /\ Crash => SchedulerInv'
<1> SUFFICES ASSUME SchedulerInv, Crash PROVE SchedulerInv'
  OBVIOUS
<1>1. SchedulerTypeOK /\ loop' = Down /\ loop'.at = "down"
  BY Records DEF SchedulerInv, Crash
<1>2. SchedulerTypeOK'
  <2>1. mem' \in [Jobs -> JobStates]
    BY Records DEF Crash
  <2>2. lock' \in [Jobs -> {"free", "loop", "hand"}]
    BY <1>1 DEF Crash, SchedulerTypeOK
  <2>3. incidents' \in 0..MaxIncidents
    BY <1>1, SchedulerAssumption DEF Crash, SchedulerTypeOK
  <2> QED  BY <1>1, <2>1, <2>2, <2>3, Records DEF Crash, SchedulerTypeOK
<1> QED
  BY <1>1, <1>2 DEF SchedulerInv, LoopKnowsTheRecord, PendingIsDue, Busy,
                    NoLaterSuccess, NoLaterAttempt, MemoryFirst

\* The rest of the invariant does not look at the locks.
LEMMA SchedulerInvHand ==
    ASSUME NEW j \in Jobs, SchedulerInv, HandStarts(j) \/ HandEnds(j)
    PROVE  SchedulerInv'
<1>1. SchedulerTypeOK /\ UNCHANGED <<clock, mem, rec, loop>>
  BY DEF SchedulerInv, HandStarts, HandEnds
<1>2. SchedulerTypeOK'
  <2>1. lock' \in [Jobs -> {"free", "loop", "hand"}]
    BY <1>1 DEF HandStarts, HandEnds, SchedulerTypeOK
  <2>2. incidents' \in 0..MaxIncidents
    BY <1>1, SchedulerAssumption DEF HandStarts, HandEnds, SchedulerTypeOK
  <2> QED  BY <1>1, <2>1, <2>2 DEF SchedulerTypeOK
<1> QED
  BY <1>1, <1>2 DEF SchedulerInv, LoopKnowsTheRecord, PendingIsDue, Busy, StillToStart,
                    Current, NoLaterSuccess, NoLaterAttempt, MemoryFirst

\* Time moves every distance on, and keeps their order.
LEMMA SchedulerInvAdvance == SchedulerInv /\ Advance => SchedulerInv'
<1> SUFFICES ASSUME SchedulerInv, Advance PROVE SchedulerInv'
  OBVIOUS
<1> DEFINE midnight == clock = DaySlots - 1
           Back(days) == IF midnight THEN DayPasses(days) ELSE days
<1>1. SchedulerTypeOK /\ UNCHANGED <<lock, incidents>>
  BY DEF SchedulerInv, Advance
<1>2. clock' \in 0..(DaySlots - 1)
  <2>1. clock \in 0..(DaySlots - 1) /\ DaySlots \in Nat \ {0}
    BY <1>1, SchedulerAssumption DEF SchedulerTypeOK
  <2>2. clock' = IF clock = DaySlots - 1 THEN 0 ELSE clock + 1
    BY DEF Advance
  <2> QED  BY <2>1, <2>2
<1>3. midnight => loop.days = 0
  BY DEF Advance
<1>4. /\ \A d \in 0..2 : Back(d) \in 0..2
      /\ \A d, e \in 0..2 : d <= e => Back(d) <= Back(e)
      /\ \A d \in 0..2 : d <= Back(d)
      /\ midnight => Back(0) = 1
      /\ \A d \in 0..2 : Back(d) = Back(loop.days) => d = loop.days
  <2>1. loop.days \in 0..1
    BY <1>1, Fields
  <2> QED  BY <1>3, <2>1 DEF DayPasses, Older
<1>5. /\ \A a \in 0..AgeCap : Elapse(a) \in 0..AgeCap
      /\ \A a, b \in 0..AgeCap : a <= b => Elapse(a) <= Elapse(b)
  BY SchedulerAssumption DEF Elapse
<1>6. ASSUME NEW j \in Jobs
      PROVE  /\ rec'[j] \in JobRuns
             /\ rec'[j].success_on = Back(rec[j].success_on)
             /\ rec'[j].attempt_age = Elapse(rec[j].attempt_age)
  <2>1. rec'[j] = [rec[j] EXCEPT !.success_on = Back(rec[j].success_on),
                                 !.attempt_age = Elapse(rec[j].attempt_age)]
    BY DEF Advance
  <2>2. /\ rec[j] \in JobRuns
        /\ Back(rec[j].success_on) \in DaysAgo
        /\ Elapse(rec[j].attempt_age) \in 0..AgeCap
    BY <1>1, <1>4, <1>5, Fields DEF DaysAgo, Older
  <2> HIDE DEF Back
  <2> QED  BY <2>1, <2>2 DEF JobRuns
<1>7. ASSUME NEW j \in Jobs, loop.at # "down"
      PROVE  /\ mem'[j] \in JobStates
             /\ mem'[j].success_on = Back(mem[j].success_on)
             /\ mem'[j].attempts_on = Back(mem[j].attempts_on)
             /\ mem'[j].attempts = mem[j].attempts
             /\ mem'[j].attempt_age = Elapse(mem[j].attempt_age)
  <2>1. mem'[j] = [mem[j] EXCEPT !.success_on = Back(mem[j].success_on),
                                 !.attempts_on = Back(mem[j].attempts_on),
                                 !.attempt_age = Elapse(mem[j].attempt_age),
                                 !.alerted_on = Back(mem[j].alerted_on)]
    BY <1>7 DEF Advance
  <2>2. /\ mem[j] \in JobStates
        /\ Back(mem[j].success_on) \in DaysAgo
        /\ Back(mem[j].attempts_on) \in DaysAgo
        /\ Back(mem[j].alerted_on) \in DaysAgo
        /\ Elapse(mem[j].attempt_age) \in 0..AgeCap
    BY <1>1, <1>4, <1>5, Fields DEF DaysAgo, Older
  <2> HIDE DEF Back
  <2> QED  BY <2>1, <2>2 DEF JobStates
<1>8. /\ loop' \in LoopStates
      /\ loop'.at = loop.at /\ loop'.due = loop.due /\ loop'.ok = loop.ok
      /\ Busy => loop'.days = Back(loop.days) /\ loop'.age = Elapse(loop.age)
      /\ ~Busy => loop'.days = 0 /\ loop'.age = 0
  <2> DEFINE d == IF Busy THEN Back(loop.days) ELSE 0
             a == IF Busy THEN Elapse(loop.age) ELSE 0
  <2>1. Busy <=> loop.at \notin {"down", "asleep"}
    BY <1>1 DEF Busy, SchedulerTypeOK, LoopStates
  <2>2. loop' = [loop EXCEPT !.ticked = FALSE, !.days = d, !.age = a]
    BY <2>1, Zenon DEF Advance
  <2>3. d \in 0..1 /\ a \in 0..AgeCap
    BY <1>1, <1>3, <1>4, <1>5, Fields, SchedulerAssumption
  <2>4. loop \in LoopStates
    BY <1>1 DEF SchedulerTypeOK
  <2> HIDE DEF d, a
  <2>5. loop' \in LoopStates /\ loop'.days = d /\ loop'.age = a
        /\ loop'.at = loop.at /\ loop'.due = loop.due /\ loop'.ok = loop.ok
    BY <2>2, <2>3, <2>4 DEF LoopStates
  <2> QED  BY <2>5, Zenon DEF d, a
<1>9. Current' = Current
  BY <1>8 DEF Current
<1>10. Current \in Jobs \/ loop.at \notin {"running", "recording"}
  BY <1>1, CurrentIsDue, Fields DEF SchedulerTypeOK
<1> HIDE DEF Back
<1>11. SchedulerTypeOK'
  <2>1. mem' \in [Jobs -> JobStates]
    <3>1. CASE loop.at = "down"
      BY <1>1, <3>1 DEF Advance, SchedulerTypeOK
    <3>2. CASE loop.at # "down"
      <4>1. mem' = [j \in Jobs |-> mem'[j]]
        BY <3>2 DEF Advance
      <4> QED  BY <1>7, <3>2, <4>1
    <3> QED  BY <3>1, <3>2
  <2>2. rec' \in [Jobs -> JobRuns]
    <3>1. rec' = [j \in Jobs |-> rec'[j]]
      BY DEF Advance
    <3> QED  BY <1>6, <3>1
  <2> QED  BY <1>1, <1>2, <1>8, <2>1, <2>2 DEF SchedulerTypeOK
<1>12. LoopKnowsTheRecord'
  BY <1>1, <1>4, <1>5, <1>6, <1>7, <1>8, Fields DEF SchedulerInv, LoopKnowsTheRecord
<1>13. PendingIsDue'
  <2> SUFFICES ASSUME Busy', NEW j \in (StillToStart \cap Nightly)'
               PROVE  /\ mem'[j].attempts_on = loop'.days => mem'[j].attempts < MaxAttempts
                      /\ loop'.days = 0 => mem'[j].success_on # 0
    BY DEF PendingIsDue
  <2>1. Busy /\ loop.at # "down" /\ j \in StillToStart /\ j \in Nightly /\ j \in Jobs
    BY <1>8, <1>9, SchedulerAssumption DEF Busy, StillToStart
  <2>2. /\ mem[j].attempts_on = loop.days => mem[j].attempts < MaxAttempts
        /\ loop.days = 0 => mem[j].success_on # 0
    BY <2>1 DEF SchedulerInv, PendingIsDue
  <2>3. /\ loop'.days = Back(loop.days)
        /\ mem'[j].attempts_on = Back(mem[j].attempts_on)
        /\ mem'[j].attempts = mem[j].attempts
        /\ mem'[j].success_on = Back(mem[j].success_on)
    BY <1>7, <1>8, <2>1
  <2>4. /\ loop.days \in 0..1 /\ mem[j].attempts_on \in 0..2
        /\ mem[j].success_on \in 0..2
    BY <1>1, <2>1, Fields
  <2>5. mem[j].attempts_on # loop.days => Back(mem[j].attempts_on) # Back(loop.days)
    BY <1>4, <2>4
  <2>6. Back(loop.days) = 0 => loop.days = 0 /\ Back(mem[j].success_on) >= mem[j].success_on
    BY <1>4, <2>4
  <2>7. Back(mem[j].success_on) \in 0..2
    BY <1>4, <2>4
  <2> QED  BY <2>2, <2>3, <2>4, <2>5, <2>6, <2>7
<1>14. NoLaterSuccess'
  <2> SUFFICES ASSUME loop.at # "down", NEW j \in Jobs
               PROVE  loop'.days <= mem'[j].success_on
    BY <1>8 DEF NoLaterSuccess
  <2>1. mem'[j].success_on = Back(mem[j].success_on) /\ mem'[j].success_on \in 0..2
    BY <1>1, <1>4, <1>7, Fields
  <2>2. loop.days <= mem[j].success_on
    BY DEF SchedulerInv, NoLaterSuccess
  <2>3. Back(loop.days) <= Back(mem[j].success_on)
    BY <1>1, <1>4, <2>2, Fields
  <2> QED  BY <1>8, <2>1, <2>3
<1>15. NoLaterAttempt'
  <2> SUFFICES ASSUME loop.at # "down", NEW j \in Jobs
               PROVE  loop'.age <= rec'[j].attempt_age
    BY <1>8 DEF NoLaterAttempt
  <2>1. rec'[j].attempt_age = Elapse(rec[j].attempt_age) /\ rec'[j].attempt_age \in 0..AgeCap
    BY <1>1, <1>5, <1>6, Fields
  <2>2. loop.age <= rec[j].attempt_age
    BY DEF SchedulerInv, NoLaterAttempt
  <2>3. Elapse(loop.age) <= Elapse(rec[j].attempt_age)
    BY <1>1, <1>5, <2>2, Fields
  <2> QED  BY <1>8, <2>1, <2>3, SchedulerAssumption
<1>16. MemoryFirst'
  <2> SUFFICES ASSUME loop.at \in {"running", "recording"}
               PROVE  /\ mem'[Current].attempt_age <= loop'.age
                      /\ loop.at = "recording" /\ loop.ok
                           => mem'[Current].success_on <= loop'.days
    BY <1>8, <1>9 DEF MemoryFirst
  <2>1. Current \in Jobs /\ Busy /\ loop.at # "down"
    BY <1>10 DEF Busy
  <2>2. /\ mem'[Current].attempt_age = Elapse(mem[Current].attempt_age)
        /\ mem'[Current].success_on = Back(mem[Current].success_on)
        /\ loop'.days = Back(loop.days) /\ loop'.age = Elapse(loop.age)
    BY <1>7, <1>8, <2>1
  <2>3. /\ mem[Current].attempt_age <= loop.age
        /\ loop.at = "recording" /\ loop.ok => mem[Current].success_on <= loop.days
    BY DEF SchedulerInv, MemoryFirst
  <2>4. Elapse(mem[Current].attempt_age) <= Elapse(loop.age)
    BY <1>1, <1>5, <2>1, <2>3, Fields
  <2>5. loop.at = "recording" /\ loop.ok => Back(mem[Current].success_on) <= Back(loop.days)
    BY <1>1, <1>4, <2>1, <2>3, Fields
  <2> QED  BY <2>2, <2>4, <2>5
<1> QED  BY <1>11, <1>12, <1>13, <1>14, <1>15, <1>16 DEF SchedulerInv

LEMMA SchedulerInvStep == SchedulerInv /\ [SchedulerNext]_schedulerVars => SchedulerInv'
<1> SUFFICES ASSUME SchedulerInv, [SchedulerNext]_schedulerVars PROVE SchedulerInv'
  OBVIOUS
<1>1. CASE LoadState           BY <1>1, SchedulerInvLoadState
<1>2. CASE Tick                BY <1>2, SchedulerInvTick
<1>3. CASE RunJob              BY <1>3, SchedulerInvRunJob
<1>4. CASE SkipLocked          BY <1>4, SchedulerInvSkipLocked
<1>5. CASE \E ok \in BOOLEAN : RunEnds(ok)
  BY <1>5, SchedulerInvRunEnds
<1>6. CASE Record              BY <1>6, SchedulerInvRecord
<1>7. CASE RecordFails         BY <1>7, SchedulerInvRecordFails
<1>8. CASE Crash               BY <1>8, SchedulerInvCrash
<1>9. CASE Advance             BY <1>9, SchedulerInvAdvance
<1>10. CASE \E j \in Jobs : HandStarts(j) \/ HandEnds(j)
  BY <1>10, SchedulerInvHand
<1>11. CASE UNCHANGED schedulerVars
  BY <1>11 DEF schedulerVars, SchedulerInv, SchedulerTypeOK, LoopKnowsTheRecord,
               PendingIsDue, Busy, StillToStart, Current, NoLaterSuccess, NoLaterAttempt,
               MemoryFirst
<1> QED
  BY <1>1, <1>2, <1>3, <1>4, <1>5, <1>6, <1>7, <1>8, <1>9, <1>10, <1>11
     DEF SchedulerNext

-----------------------------------------------------------------------------
(* The theorems.                                                           *)

\* The inductive invariant holds of every behaviour of the scheduler.
THEOREM SchedulerInvariance == SchedulerSpec => []SchedulerInv
<1> QED  BY SchedulerInvInit, SchedulerInvStep, PTL DEF SchedulerSpec

\* The variables of the scheduler keep their types.
THEOREM SchedulerTypeCorrect == SchedulerSpec => []SchedulerTypeOK
<1>1. SchedulerInv => SchedulerTypeOK
  BY DEF SchedulerInv
<1> QED  BY <1>1, SchedulerInvariance, PTL

\* What a running loop decides by is never older than the record
\* (run_job, record and load_state of scheduler.py).
THEOREM RecordIsKnown == SchedulerSpec => []LoopKnowsTheRecord
<1>1. SchedulerInv => LoopKnowsTheRecord
  BY DEF SchedulerInv
<1> QED  BY <1>1, SchedulerInvariance, PTL

\* A night whose success is recorded is not run again that day: only run_job
\* takes the lock for the loop, and only of a job the loop believes undone.
THEOREM NightIsOver == SchedulerSpec => RecordedNightIsOver
<1> DEFINE Over == \A j \in Nightly :
                     lock[j] # "loop" /\ lock'[j] = "loop" /\ loop.days = 0
                       => rec[j].success_on # 0
<1>1. SchedulerInv /\ [SchedulerNext]_schedulerVars => Over
  <2> SUFFICES ASSUME SchedulerInv, [SchedulerNext]_schedulerVars,
                      NEW j \in Nightly,
                      lock[j] # "loop", lock'[j] = "loop", loop.days = 0
               PROVE  rec[j].success_on # 0
    OBVIOUS
  <2>1. j \in Jobs /\ SchedulerTypeOK
    BY SchedulerAssumption DEF SchedulerInv
  <2>2. RunJob
    <3>1. \A i \in Jobs : ~HandStarts(i) /\ ~HandEnds(i)
      BY <2>1 DEF HandStarts, HandEnds, SchedulerTypeOK
    <3>2. ~(\E ok \in BOOLEAN : RunEnds(ok))
      BY <2>1 DEF RunEnds, SchedulerTypeOK
    <3>3. ~LoadState /\ ~Tick /\ ~SkipLocked /\ ~Record /\ ~RecordFails /\ ~Advance
      BY DEF LoadState, Tick, SkipLocked, Record, RecordFails, Advance
    <3>4. ~Crash
      BY <2>1 DEF Crash
    <3>5. ~UNCHANGED schedulerVars
      BY DEF schedulerVars
    <3> QED  BY <3>1, <3>2, <3>3, <3>4, <3>5 DEF SchedulerNext
  <2>3. j = Current /\ loop.at = "ticking"
    BY <2>1, <2>2 DEF RunJob, SchedulerTypeOK
  <2>4. j \in StillToStart
    BY <2>1, <2>3, CurrentIsDue, Fields DEF StillToStart, SchedulerTypeOK
  <2>5. mem[j].success_on # 0
    BY <2>3, <2>4 DEF SchedulerInv, PendingIsDue, Busy
  <2>6. mem[j].success_on <= rec[j].success_on
    BY <2>1, <2>3 DEF SchedulerInv, LoopKnowsTheRecord
  <2> QED  BY <2>1, <2>5, <2>6, Fields
<1> QED
  BY <1>1, SchedulerInvariance, PTL DEF SchedulerSpec, RecordedNightIsOver

\* An interval job is taken up only when its interval has passed since the
\* last attempt on record: only a tick of the loop adds to what is due.
THEOREM PaceSurvivesRestarts == SchedulerSpec => PacedAcrossRestarts
<1> DEFINE Paced == \A j \in Jobs \ Nightly :
                      j \in loop'.due \ loop.due => rec[j].attempt_age >= Every[j]
<1>1. SchedulerInv /\ [SchedulerNext]_schedulerVars => Paced
  <2> SUFFICES ASSUME SchedulerInv, [SchedulerNext]_schedulerVars,
                      NEW j \in Jobs \ Nightly,
                      j \in loop'.due, j \notin loop.due
               PROVE  rec[j].attempt_age >= Every[j]
    OBVIOUS
  <2>1. SchedulerTypeOK
    BY DEF SchedulerInv
  <2>2. Tick
    <3>1. ~LoadState /\ ~Crash /\ ~RecordFails
      BY Records DEF Down, LoadState, Crash, RecordFails
    <3>2. ~SkipLocked /\ ~Record
      BY <2>1, NextJobEffect DEF SkipLocked, Record
    <3>3. ~RunJob /\ ~Advance /\ ~(\E ok \in BOOLEAN : RunEnds(ok))
      BY <2>1 DEF RunJob, Advance, RunEnds, SchedulerTypeOK, LoopStates
    <3>4. ~(\E i \in Jobs : HandStarts(i) \/ HandEnds(i)) /\ ~UNCHANGED schedulerVars
      BY DEF HandStarts, HandEnds, schedulerVars
    <3> QED  BY <3>1, <3>2, <3>3, <3>4 DEF SchedulerNext
  <2>3. IsDueEvery(j) /\ loop.at # "down"
    BY <2>2, Records DEF Tick, DueJobs
  <2>4. mem[j].attempt_age <= rec[j].attempt_age
    BY <2>3 DEF SchedulerInv, LoopKnowsTheRecord
  <2> QED  BY <2>1, <2>3, <2>4, Fields, SchedulerAssumption DEF IsDueEvery
<1> QED
  BY <1>1, SchedulerInvariance, PTL DEF SchedulerSpec, PacedAcrossRestarts

-----------------------------------------------------------------------------
(* The event digest.                                                       *)

\* What a digest stamps, it tells of.
StampsWhatItLists(d) == \A i \in d.stamps : \E k \in d.items : k[1] = i[1]

DigestsAreWhole ==
    \A r \in Runners :
      /\ \A d \in run[r].todo : StampsWhatItLists(d)
      /\ run[r].phase = "sent" =>
           /\ run[r].digest \in run[r].todo
           /\ \A k \in run[r].digest.items : <<k[1], run[r].digest.to>> \in informed

\* The inductive invariant of the digest alone.
NoticesInv == NoticesTypeOK /\ DigestsAreWhole /\ StampedWasInformed

-----------------------------------------------------------------------------
(* The scheduler in the composition.                                       *)

\* The digest's own steps leave the scheduler alone.
LEMMA DigestStepsStutter ==
    ASSUME NEW r \in Runners, Body(r)
    PROVE  UNCHANGED schedulerVars
  BY DEF Body, ReadStep, SendTo, SendToFails, StampFor

\* Every step of the composition is a step of the scheduler or leaves it alone.
LEMMA StepIsScheduler == [Next]_vars => [SchedulerNext]_schedulerVars
<1> SUFFICES ASSUME [Next]_vars PROVE [SchedulerNext]_schedulerVars
  OBVIOUS
<1>1. CASE LoopStep \/ Advance
  BY <1>1 DEF LoopStep, SchedulerNext
<1>2. CASE \E j \in Jobs : HandStarts(j) \/ HandRunEnds(j)
  BY <1>2 DEF HandRunEnds, SchedulerNext
<1>3. CASE \E ok \in BOOLEAN : JobEnds(ok)
  BY <1>3 DEF JobEnds, SchedulerNext
<1>4. CASE Restart
  BY <1>4 DEF Restart, SchedulerNext
<1>5. CASE \E r \in Runners : Body(r)
  BY <1>5, DigestStepsStutter
<1>6. CASE RosterChanges /\ UNCHANGED schedulerVars
  BY <1>6
<1>7. CASE UNCHANGED vars
  BY <1>7 DEF vars
<1> QED  BY <1>1, <1>2, <1>3, <1>4, <1>5, <1>6, <1>7 DEF Next

\* With the digest as one of its jobs the scheduler still implements the
\* scheduler of any jobs (scheduler.py run_job around event_reminders.main).
THEOREM SchedulerIsImplemented == Spec => ImplementsScheduler
<1>1. Init => SchedulerInit
  BY DEF Init
<1> QED  BY <1>1, StepIsScheduler, PTL DEF Spec, ImplementsScheduler, SchedulerSpec

-----------------------------------------------------------------------------
(* Planning.                                                               *)

\* The digests of one reading are digests, whole, and one a person.
LEMMA PlanIsWhole ==
    ASSUME NoticesTypeOK, NEW d \in Plan
    PROVE  /\ d \in Digests
           /\ StampsWhatItLists(d)
           /\ d = DigestOf(d.to) /\ d.to \in People
           /\ \A i \in d.items :
                i[2] # "scheduled" => <<i[1], d.to, i[2]>> \notin told
<1>1. PICK p \in People : d = DigestOf(p)
  BY DEF Plan
<1> DEFINE listed == {a \in Owed : holder[a] = p /\ Pending(a) # {}}
<1>2. listed \subseteq Assignments
  BY DEF Owed, Held
<1>3. ASSUME NEW a \in listed
      PROVE  /\ Kind(a) \in Stages /\ Settled(a) \subseteq Stages
             /\ Kind(a) # "scheduled" => <<a, p, Kind(a)>> \notin told
  <2>1. Wants[a] \subseteq {"week", "day"}
    BY <1>2, RemindersAssumption
  <2>2. Pending(a) \subseteq {"scheduled", "week", "day"} /\ Pending(a) # {}
    BY <2>1 DEF Pending
  <2>3. Kind(a) \in Pending(a)
    BY <2>2 DEF Kind
  <2>4. ~Told(a, Kind(a))
    BY <2>3 DEF Pending
  <2> QED  BY <2>2, <2>3, <2>4 DEF Settled, Stages, Told
<1>4. d = [to |-> p, items |-> {<<a, Kind(a)>> : a \in listed},
           stamps |-> UNION {{a} \X Settled(a) : a \in listed}]
  BY <1>1 DEF DigestOf
<1> HIDE DEF listed
<1>5. d.to = p /\ d.items = {<<a, Kind(a)>> : a \in listed}
      /\ d.stamps = UNION {{a} \X Settled(a) : a \in listed}
  BY <1>4
<1>6. d.items \subseteq Assignments \X Stages
  <2> SUFFICES ASSUME NEW i \in d.items PROVE i \in Assignments \X Stages
    OBVIOUS
  <2>1. PICK a \in listed : i = <<a, Kind(a)>>
    BY <1>5
  <2> QED  BY <1>2, <1>3, <2>1
<1>7. d.stamps \subseteq Assignments \X Stages
  <2> SUFFICES ASSUME NEW i \in d.stamps PROVE i \in Assignments \X Stages
    OBVIOUS
  <2>1. PICK a \in listed : i \in {a} \X Settled(a)
    BY <1>5
  <2> QED  BY <1>2, <1>3, <2>1
<1>8. d \in Digests
  BY <1>4, <1>5, <1>6, <1>7 DEF Digests
<1>9. StampsWhatItLists(d)
  <2> SUFFICES ASSUME NEW i \in d.stamps PROVE \E k \in d.items : k[1] = i[1]
    BY DEF StampsWhatItLists
  <2>1. PICK a \in listed : i \in {a} \X Settled(a)
    BY <1>5
  <2>2. <<a, Kind(a)>> \in d.items /\ i[1] = a
    BY <1>5, <2>1
  <2> QED  BY <2>2
<1>10. \A i \in d.items : i[2] # "scheduled" => <<i[1], p, i[2]>> \notin told
  BY <1>3, <1>5
<1> QED  BY <1>1, <1>5, <1>8, <1>9, <1>10

-----------------------------------------------------------------------------
(* What each step makes of the runs.                                       *)

RunStates ==
    [phase : {"stopped", "sending", "sent"}, todo : SUBSET Digests,
     digest : Digests \cup {NoDigest}]

LEMMA RunFields ==
    ASSUME NoticesTypeOK, NEW r \in Runners
    PROVE  /\ run[r] \in RunStates /\ run \in [Runners -> RunStates]
           /\ run[r].phase \in {"stopped", "sending", "sent"}
           /\ run[r].todo \subseteq Digests
  BY DEF NoticesTypeOK, RunStates

LEMMA ReadEffect ==
    ASSUME NoticesTypeOK, NEW r \in Runners, Read(r)
    PROVE  /\ run' \in [Runners -> RunStates]
           /\ run'[r].phase = "sending" /\ run'[r].todo = Plan
           /\ \A o \in Runners : o # r => run'[o] = run[o]
<1>1. run'[r] = [phase |-> "sending", todo |-> Plan, digest |-> NoDigest]
  BY RunFields DEF Read
<1>2. Plan \subseteq Digests
  BY PlanIsWhole
<1>3. run'[r] \in RunStates
  BY <1>1, <1>2 DEF RunStates
<1>4. \A o \in Runners : o # r => run'[o] = run[o]
  BY RunFields DEF Read
<1>5. run' \in [Runners -> RunStates]
  BY <1>3, RunFields DEF Read
<1> QED  BY <1>1, <1>4, <1>5

LEMMA SendEffect ==
    ASSUME NoticesTypeOK, NEW r \in Runners, NEW d, Send(r, d)
    PROVE  /\ run' \in [Runners -> RunStates]
           /\ run[r].phase = "sending" /\ d \in run[r].todo
           /\ run'[r].phase = "sent" /\ run'[r].digest = d
           /\ run'[r].todo = run[r].todo
           /\ \A o \in Runners : o # r => run'[o] = run[o]
<1>1. run[r].phase = "sending" /\ d \in run[r].todo /\ d \in Digests
  BY RunFields DEF Send
<1>2. run'[r] = [run[r] EXCEPT !.phase = "sent", !.digest = d]
  BY RunFields DEF Send
<1>3. /\ run'[r] \in RunStates
      /\ run'[r].phase = "sent" /\ run'[r].digest = d /\ run'[r].todo = run[r].todo
  BY <1>1, <1>2, RunFields DEF RunStates
<1>4. \A o \in Runners : o # r => run'[o] = run[o]
  BY RunFields DEF Send
<1>5. run' \in [Runners -> RunStates]
  BY <1>3, RunFields DEF Send
<1> QED  BY <1>1, <1>3, <1>4, <1>5

LEMMA SendFailsEffect ==
    ASSUME NoticesTypeOK, NEW r \in Runners, NEW d, SendFails(r, d)
    PROVE  /\ run' \in [Runners -> RunStates]
           /\ run[r].phase = "sending" /\ run'[r].phase = "sending"
           /\ run'[r].todo = run[r].todo \ {d}
           /\ \A o \in Runners : o # r => run'[o] = run[o]
<1>1. run[r].phase = "sending"
  BY DEF SendFails
<1>2. run'[r] = [run[r] EXCEPT !.todo = run[r].todo \ {d}]
  BY RunFields DEF SendFails
<1>3. /\ run'[r] \in RunStates
      /\ run'[r].phase = run[r].phase /\ run'[r].todo = run[r].todo \ {d}
  BY <1>2, RunFields DEF RunStates
<1>4. \A o \in Runners : o # r => run'[o] = run[o]
  BY RunFields DEF SendFails
<1>5. run' \in [Runners -> RunStates]
  BY <1>3, RunFields DEF SendFails
<1> QED  BY <1>1, <1>3, <1>4, <1>5

LEMMA StampEffect ==
    ASSUME NoticesTypeOK, NEW r \in Runners, Stamp(r)
    PROVE  /\ run' \in [Runners -> RunStates]
           /\ run[r].phase = "sent" /\ run'[r].phase = "sending"
           /\ run'[r].todo = run[r].todo \ {run[r].digest}
           /\ \A o \in Runners : o # r => run'[o] = run[o]
<1>1. run[r].phase = "sent"
  BY DEF Stamp
<1>2. run'[r] = [run[r] EXCEPT !.phase = "sending", !.digest = NoDigest,
                               !.todo = run[r].todo \ {run[r].digest}]
  BY RunFields DEF Stamp
<1>3. /\ run'[r] \in RunStates
      /\ run'[r].phase = "sending" /\ run'[r].todo = run[r].todo \ {run[r].digest}
  <2> DEFINE rest == run[r].todo \ {run[r].digest}
  <2>1. rest \subseteq Digests /\ run[r] \in RunStates
    BY RunFields
  <2>2. run'[r] = [run[r] EXCEPT !.phase = "sending", !.digest = NoDigest, !.todo = rest]
    BY <1>2
  <2> HIDE DEF rest
  <2>3. /\ run'[r] \in RunStates
        /\ run'[r].phase = "sending" /\ run'[r].todo = rest
    BY <2>1, <2>2 DEF RunStates
  <2> QED  BY <2>3 DEF rest
<1>4. \A o \in Runners : o # r => run'[o] = run[o]
  BY RunFields DEF Stamp
<1>5. run' \in [Runners -> RunStates]
  BY <1>3, RunFields DEF Stamp
<1> QED  BY <1>1, <1>3, <1>4, <1>5

LEMMA StopEffect ==
    ASSUME NoticesTypeOK, NEW r \in Runners, Stop(r)
    PROVE  /\ run' \in [Runners -> RunStates]
           /\ run'[r].phase = "stopped" /\ run'[r].todo = {}
           /\ \A o \in Runners : o # r => run'[o] = run[o]
<1>1. Stopped \in RunStates /\ Stopped.phase = "stopped" /\ Stopped.todo = {}
  BY DEF Stopped, RunStates
<1> QED  BY <1>1, RunFields DEF Stop

-----------------------------------------------------------------------------
(* The digest's invariant.                                                 *)

LEMMA NoticesInvInit == NoticesInit => NoticesInv
<1> SUFFICES ASSUME NoticesInit PROVE NoticesInv
  OBVIOUS
<1>1. Stopped \in RunStates /\ Stopped.phase = "stopped" /\ Stopped.todo = {}
  BY DEF Stopped, RunStates
<1>2. NoticesTypeOK
  BY <1>1, RemindersAssumption DEF NoticesInit, NoticesTypeOK, RunStates, Windows
<1>3. DigestsAreWhole
  BY <1>1 DEF NoticesInit, DigestsAreWhole
<1>4. StampedWasInformed
  BY DEF NoticesInit, StampedWasInformed
<1> QED  BY <1>2, <1>3, <1>4 DEF NoticesInv

LEMMA NoticesInvRead ==
    ASSUME NoticesInv, NEW r \in Runners, Read(r)
    PROVE  NoticesInv'
<1>1. NoticesTypeOK /\ UNCHANGED <<holder, window, changes, told, informed>>
  BY DEF NoticesInv, Read
<1>2. NoticesTypeOK'
  BY <1>1, ReadEffect DEF NoticesTypeOK, RunStates, Held
<1>3. DigestsAreWhole'
  BY <1>1, ReadEffect, PlanIsWhole DEF NoticesInv, DigestsAreWhole, StampsWhatItLists
<1>4. StampedWasInformed'
  BY <1>1 DEF NoticesInv, StampedWasInformed
<1> QED  BY <1>2, <1>3, <1>4 DEF NoticesInv

LEMMA NoticesInvSend ==
    ASSUME NoticesInv, NEW r \in Runners, NEW d, Send(r, d)
    PROVE  NoticesInv'
<1>1. NoticesTypeOK /\ UNCHANGED <<holder, window, changes, told>>
  BY DEF NoticesInv, Send
<1>2. informed' = informed \cup {<<i[1], d.to>> : i \in d.items}
  BY DEF Send
<1>3. d \in Digests
  BY <1>1, SendEffect, RunFields
<1>4. \A i \in d.items : <<i[1], d.to>> \in Assignments \X People
  BY <1>3 DEF Digests
<1>5. NoticesTypeOK'
  BY <1>1, <1>2, <1>4, SendEffect DEF NoticesTypeOK, RunStates, Held
<1>6. DigestsAreWhole'
  <2> SUFFICES ASSUME NEW o \in Runners
               PROVE  /\ \A e \in run'[o].todo : StampsWhatItLists(e)
                      /\ run'[o].phase = "sent" =>
                           /\ run'[o].digest \in run'[o].todo
                           /\ \A k \in run'[o].digest.items :
                                <<k[1], run'[o].digest.to>> \in informed'
    BY DEF DigestsAreWhole, StampsWhatItLists
  <2>1. CASE o = r
    BY <1>1, <1>2, <2>1, SendEffect DEF NoticesInv, DigestsAreWhole
  <2>2. CASE o # r
    BY <1>1, <1>2, <2>2, SendEffect DEF NoticesInv, DigestsAreWhole
  <2> QED  BY <2>1, <2>2
<1>7. StampedWasInformed'
  BY <1>1, <1>2 DEF NoticesInv, StampedWasInformed
<1> QED  BY <1>5, <1>6, <1>7 DEF NoticesInv

LEMMA NoticesInvSendFails ==
    ASSUME NoticesInv, NEW r \in Runners, NEW d, SendFails(r, d)
    PROVE  NoticesInv'
<1>1. NoticesTypeOK /\ UNCHANGED <<holder, window, changes, told, informed>>
  BY DEF NoticesInv, SendFails
<1>2. NoticesTypeOK'
  BY <1>1, SendFailsEffect DEF NoticesTypeOK, RunStates, Held
<1>3. DigestsAreWhole'
  BY <1>1, SendFailsEffect DEF NoticesInv, DigestsAreWhole, StampsWhatItLists
<1>4. StampedWasInformed'
  BY <1>1 DEF NoticesInv, StampedWasInformed
<1> QED  BY <1>2, <1>3, <1>4 DEF NoticesInv

\* The stamps are of assignments that are there, and the mail named each.
LEMMA NoticesInvStamp ==
    ASSUME NoticesInv, NEW r \in Runners, Stamp(r)
    PROVE  NoticesInv'
<1> DEFINE d == run[r].digest
<1>1. NoticesTypeOK /\ UNCHANGED <<holder, window, changes, informed>>
  BY DEF NoticesInv, Stamp
<1>2. /\ run[r].phase = "sent" /\ told' = told \cup Stamps(d)
      /\ \A i \in d.stamps : i[1] \in Held
  BY DEF Stamp
<1>3. /\ d \in run[r].todo /\ StampsWhatItLists(d)
      /\ \A k \in d.items : <<k[1], d.to>> \in informed
  BY <1>2 DEF NoticesInv, DigestsAreWhole
<1>4. d \in Digests
  BY <1>1, <1>3, RunFields
<1>5. d.to \in People /\ d.stamps \subseteq Assignments \X Stages
  BY <1>4 DEF Digests
<1> HIDE DEF d
<1>6. ASSUME NEW n \in Stamps(d)
      PROVE  n \in Held \X People \X Stages /\ <<n[1], n[2]>> \in informed
  <2>1. PICK i \in d.stamps : n = <<i[1], d.to, i[2]>>
    BY DEF Stamps
  <2>2. i[1] \in Held /\ i[2] \in Stages
    BY <1>2, <1>5
  <2>3. PICK k \in d.items : k[1] = i[1]
    BY <1>3 DEF StampsWhatItLists
  <2>4. <<k[1], d.to>> \in informed
    BY <1>3
  <2> QED  BY <1>5, <2>1, <2>2, <2>3, <2>4
<1>7. NoticesTypeOK'
  <2>1. told' \subseteq Held' \X People \X Stages
    BY <1>1, <1>2, <1>6 DEF NoticesTypeOK, Held
  <2> QED  BY <1>1, <2>1, StampEffect DEF NoticesTypeOK, RunStates
<1>8. DigestsAreWhole'
  BY <1>1, StampEffect DEF NoticesInv, DigestsAreWhole, StampsWhatItLists
<1>9. StampedWasInformed'
  BY <1>1, <1>2, <1>6 DEF NoticesInv, StampedWasInformed
<1> QED  BY <1>7, <1>8, <1>9 DEF NoticesInv

LEMMA NoticesInvStop ==
    ASSUME NoticesInv, NEW r \in Runners, Stop(r)
    PROVE  NoticesInv'
<1>1. NoticesTypeOK /\ UNCHANGED <<holder, window, changes, told, informed>>
  BY DEF NoticesInv, Stop
<1>2. NoticesTypeOK'
  BY <1>1, StopEffect DEF NoticesTypeOK, RunStates, Held
<1>3. DigestsAreWhole'
  BY <1>1, StopEffect DEF NoticesInv, DigestsAreWhole, StampsWhatItLists
<1>4. StampedWasInformed'
  BY <1>1 DEF NoticesInv, StampedWasInformed
<1> QED  BY <1>2, <1>3, <1>4 DEF NoticesInv

\* Who acts oneself is put on record as told, and is.
LEMMA NoticesInvRoster ==
    ASSUME NoticesInv, RosterChanges
    PROVE  NoticesInv' /\ run' = run
<1>1. NoticesTypeOK /\ changes' \in 0..MaxChanges
  BY RemindersAssumption DEF NoticesInv, NoticesTypeOK, RosterChanges
<1>2. CASE \E a \in Assignments, p \in People :
             Assign(a, p) \/ SignUp(a, p) \/ TakeOver(a, p) \/ HandOver(a, p)
  <2>1. PICK a \in Assignments, p \in People :
             Assign(a, p) \/ SignUp(a, p) \/ TakeOver(a, p) \/ HandOver(a, p)
    BY <1>2
  <2>2. Take(a, p)
    BY <2>1 DEF Assign, SignUp, TakeOver, HandOver
  <2>3. /\ holder' \in [Assignments -> People \cup {None, "gone"}]
        /\ Held \subseteq Held' /\ a \in Held'
    BY <1>1, <2>2 DEF Take, NoticesTypeOK, Held
  <2>4. UNCHANGED <<window, run>>
    BY <2>2 DEF Take
  <2>5. \/ UNCHANGED <<told, informed>>
        \/ /\ told' = told \cup {<<a, p, "scheduled">>}
           /\ informed' = informed \cup {<<a, p>>}
    BY <2>1 DEF Assign, SignUp, TakeOver, HandOver, ActsOneself
  <2>6. NoticesTypeOK'
    BY <1>1, <2>3, <2>4, <2>5 DEF NoticesTypeOK, Stages
  <2>7. DigestsAreWhole'
    BY <2>4, <2>5 DEF NoticesInv, DigestsAreWhole, StampsWhatItLists
  <2>8. StampedWasInformed'
    <3>1. CASE UNCHANGED <<told, informed>>
      BY <3>1 DEF NoticesInv, StampedWasInformed
    <3>2. CASE /\ told' = told \cup {<<a, p, "scheduled">>}
               /\ informed' = informed \cup {<<a, p>>}
      <4> SUFFICES ASSUME NEW n \in told' PROVE <<n[1], n[2]>> \in informed'
        BY DEF StampedWasInformed
      <4>1. CASE n \in told
        BY <3>2, <4>1 DEF NoticesInv, StampedWasInformed
      <4>2. CASE n = <<a, p, "scheduled">>
        BY <3>2, <4>2
      <4> QED  BY <3>2, <4>1, <4>2
    <3> QED  BY <2>5, <3>1, <3>2
  <2> QED  BY <2>4, <2>6, <2>7, <2>8 DEF NoticesInv
<1>3. CASE \E a \in Assignments : Remove(a)
  <2>1. PICK a \in Assignments : Remove(a)
    BY <1>3
  <2>2. /\ holder' = [holder EXCEPT ![a] = "gone"]
        /\ told' = {n \in told : n[1] # a}
        /\ UNCHANGED <<window, run, informed>>
    BY <2>1 DEF Remove
  <2>3. /\ holder' \in [Assignments -> People \cup {None, "gone"}]
        /\ Held \ {a} \subseteq Held'
    BY <1>1, <2>2 DEF NoticesTypeOK, Held
  <2>4. NoticesTypeOK'
    BY <1>1, <2>2, <2>3 DEF NoticesTypeOK
  <2>5. DigestsAreWhole'
    BY <2>2 DEF NoticesInv, DigestsAreWhole, StampsWhatItLists
  <2>6. StampedWasInformed'
    BY <2>2 DEF NoticesInv, StampedWasInformed
  <2> QED  BY <2>2, <2>4, <2>5, <2>6 DEF NoticesInv
<1>4. CASE \E e \in Events : EventMoves(e)
  <2>1. PICK e \in Events : EventMoves(e)
    BY <1>4
  <2>2. UNCHANGED <<holder, told, run, informed>>
    BY <2>1 DEF EventMoves
  <2>3. window' \in [Events -> Windows]
    BY <1>1, <2>1 DEF EventMoves, NoticesTypeOK
  <2>4. NoticesTypeOK'
    BY <1>1, <2>2, <2>3 DEF NoticesTypeOK, Held
  <2>5. DigestsAreWhole' /\ StampedWasInformed'
    BY <2>2 DEF NoticesInv, DigestsAreWhole, StampsWhatItLists, StampedWasInformed
  <2> QED  BY <2>2, <2>4, <2>5 DEF NoticesInv
<1> QED  BY <1>2, <1>3, <1>4 DEF RosterChanges

-----------------------------------------------------------------------------
(* Two runs.                                                               *)

\* A run is on only while its runner holds the job's lock.
OneAtATime ==
    /\ run["loop"].phase # "stopped" => loop.at = "running" /\ Current = Reminders
    /\ loop.at = "running" => lock[Current] = "loop"
    /\ run["hand"].phase # "stopped" => lock[Reminders] = "hand"

\* The digests a run has still to send: one a person, no reminder on record.
Unsent(r) == run[r].todo \ (IF run[r].phase = "sent" THEN {run[r].digest} ELSE {})

NothingOnRecord(d) ==
    \A i \in d.items : i[2] # "scheduled" => <<i[1], d.to, i[2]>> \notin told

UnsentIsFresh ==
    \A r \in Runners :
      /\ \A d, e \in run[r].todo : d.to = e.to => d = e
      /\ run[r].phase # "stopped" => \A d \in Unsent(r) : NothingOnRecord(d)

\* The inductive invariant of the composition.
NightInv == SchedulerTypeOK /\ NoticesInv /\ OneAtATime /\ UnsentIsFresh

\* Where the record only shrinks, or grows by "scheduled", what was not on it
\* is not on it.
LEMMA StaysFresh ==
    ASSUME NEW d, NothingOnRecord(d),
           \A n \in told' : n \in told \/ n[3] = "scheduled"
    PROVE  NothingOnRecord(d)'
  BY DEF NothingOnRecord

\* Of two runners only one is at work.
LEMMA OneRunner ==
    ASSUME NightInv, NEW r \in Runners, Working(r), NEW o \in Runners, o # r
    PROVE  run[o].phase = "stopped"
<1>1. CASE r = "loop"
  <2>1. lock[Reminders] = "loop"
    BY <1>1 DEF NightInv, OneAtATime, Working
  <2>2. o = "hand"
    BY <1>1 DEF Runners
  <2> QED  BY <2>1, <2>2 DEF NightInv, OneAtATime
<1>2. CASE r = "hand"
  <2>1. lock[Reminders] = "hand"
    BY <1>2 DEF Working
  <2>2. o = "loop"
    BY <1>2 DEF Runners
  <2> QED  BY <2>1, <2>2 DEF NightInv, OneAtATime
<1> QED  BY <1>1, <1>2 DEF Runners

LEMMA NightInvInit == Init => NightInv
<1> SUFFICES ASSUME Init PROVE NightInv
  OBVIOUS
<1>1. SchedulerTypeOK /\ NoticesInv
  BY SchedulerInvInit, NoticesInvInit DEF Init, SchedulerInv
<1>2. \A r \in Runners : run[r].phase = "stopped" /\ run[r].todo = {}
  BY DEF Init, NoticesInit, Stopped
<1>3. loop.at = "down"
  BY Records DEF Init, SchedulerInit
<1> QED  BY <1>1, <1>2, <1>3 DEF NightInv, OneAtATime, UnsentIsFresh, Runners

\* A run's own step, by the one runner at work.
LEMMA NightInvBody ==
    ASSUME NightInv, SchedulerTypeOK', NEW r \in Runners, Body(r)
    PROVE  NightInv'
<1>1. NoticesInv /\ NoticesTypeOK /\ UNCHANGED <<clock, mem, rec, loop, lock, incidents>>
  BY DigestStepsStutter DEF NightInv, NoticesInv, schedulerVars
<1>2. Working(r)
  BY DEF Body, ReadStep, SendTo, SendToFails, StampFor
<1>3. \A o \in Runners : o # r => run[o].phase = "stopped"
  BY <1>2, OneRunner
<1>4. \/ Read(r) \/ Stamp(r)
      \/ \E d \in run[r].todo : Send(r, d) \/ SendFails(r, d)
  BY DEF Body, ReadStep, SendTo, SendToFails, StampFor
<1>5. NoticesInv'
  BY <1>1, <1>4, NoticesInvRead, NoticesInvSend, NoticesInvSendFails, NoticesInvStamp
<1>6. \A o \in Runners : o # r => run'[o] = run[o]
  BY <1>1, <1>4, ReadEffect, SendEffect, SendFailsEffect, StampEffect
<1>7. OneAtATime'
  <2>1. Current' = Current
    BY <1>1 DEF Current
  <2>2. Working(r)'
    BY <1>1, <1>2, <2>1 DEF Working
  <2>3. CASE r = "loop"
    BY <1>1, <1>3, <1>6, <2>1, <2>2, <2>3 DEF NightInv, OneAtATime, Working, Runners
  <2>4. CASE r = "hand"
    BY <1>1, <1>3, <1>6, <2>1, <2>2, <2>4 DEF NightInv, OneAtATime, Working, Runners
  <2> QED  BY <2>3, <2>4 DEF Runners
<1>8. /\ \A d, e \in run'[r].todo : d.to = e.to => d = e
      /\ \A d \in Unsent(r)' : NothingOnRecord(d)'
  <2>1. CASE Read(r)
    <3>1. told' = told
      BY <2>1 DEF Read
    <3>2. run'[r].todo = Plan /\ Unsent(r)' = Plan
      BY <1>1, <2>1, ReadEffect DEF Unsent
    <3> QED  BY <1>1, <3>1, <3>2, PlanIsWhole DEF NothingOnRecord
  <2>2. CASE \E d \in run[r].todo : Send(r, d)
    <3>1. PICK d \in run[r].todo : Send(r, d)
      BY <2>2
    <3>2. told' = told
      BY <3>1 DEF Send
    <3>3. /\ run[r].phase = "sending" /\ run'[r].todo = run[r].todo
          /\ Unsent(r)' \subseteq Unsent(r)
      BY <1>1, <3>1, SendEffect DEF Unsent
    <3> QED  BY <3>2, <3>3 DEF NothingOnRecord, NightInv, UnsentIsFresh
  <2>3. CASE \E d \in run[r].todo : SendFails(r, d)
    <3>1. PICK d \in run[r].todo : SendFails(r, d)
      BY <2>3
    <3>2. told' = told
      BY <3>1 DEF SendFails
    <3>3. /\ run[r].phase = "sending" /\ run'[r].todo \subseteq run[r].todo
          /\ Unsent(r)' \subseteq Unsent(r)
      BY <1>1, <3>1, SendFailsEffect DEF Unsent
    <3> QED  BY <3>2, <3>3 DEF NothingOnRecord, NightInv, UnsentIsFresh
  <2>4. CASE Stamp(r)
    <3> DEFINE s == run[r].digest
    <3>1. told' = told \cup Stamps(s)
      BY <2>4 DEF Stamp
    <3>2. /\ run[r].phase = "sent" /\ run'[r].todo = run[r].todo \ {s}
          /\ Unsent(r)' = run[r].todo \ {s} /\ Unsent(r) = run[r].todo \ {s}
      BY <1>1, <2>4, StampEffect DEF Unsent
    <3>3. s \in run[r].todo
      BY <1>1, <3>2 DEF NoticesInv, DigestsAreWhole
    <3>4. \A d \in run[r].todo \ {s} : NothingOnRecord(d) /\ d.to # s.to
      BY <3>2, <3>3 DEF NightInv, UnsentIsFresh
    <3>5. ASSUME NEW d \in run[r].todo \ {s} PROVE NothingOnRecord(d)'
      <4> HIDE DEF s
      <4>1. \A n \in Stamps(s) : n[2] = s.to
        BY DEF Stamps
      <4> QED  BY <3>1, <3>4, <4>1 DEF NothingOnRecord
    <3>6. \A d, e \in run'[r].todo : d.to = e.to => d = e
      BY <3>2 DEF NightInv, UnsentIsFresh
    <3> QED  BY <3>2, <3>5, <3>6
  <2> QED  BY <1>4, <2>1, <2>2, <2>3, <2>4
<1>9. UnsentIsFresh'
  <2> SUFFICES ASSUME NEW o \in Runners
               PROVE  /\ \A d, e \in run'[o].todo : d.to = e.to => d = e
                      /\ run'[o].phase # "stopped" =>
                           \A d \in Unsent(o)' : NothingOnRecord(d)'
    BY DEF UnsentIsFresh, NothingOnRecord, Unsent
  <2>1. CASE o = r
    BY <1>8, <2>1
  <2>2. CASE o # r
    BY <1>3, <1>6, <2>2 DEF NightInv, UnsentIsFresh
  <2> QED  BY <2>1, <2>2
<1> QED  BY <1>5, <1>7, <1>9 DEF NightInv

LEMMA NightInvRoster ==
    ASSUME NightInv, SchedulerTypeOK', RosterChanges, UNCHANGED schedulerVars
    PROVE  NightInv'
<1>1. NoticesInv' /\ run' = run
  BY NoticesInvRoster DEF NightInv
<1>2. OneAtATime'
  BY <1>1 DEF NightInv, OneAtATime, schedulerVars, Current
<1>3. \A n \in told' : n \in told \/ n[3] = "scheduled"
  BY DEF RosterChanges, Assign, SignUp, TakeOver, HandOver, ActsOneself, Remove, EventMoves
<1>4. UnsentIsFresh'
  BY <1>1, <1>3, StaysFresh DEF NightInv, UnsentIsFresh, Unsent
<1> QED  BY <1>1, <1>2, <1>4 DEF NightInv

\* The scheduler's steps leave the digests alone, or stop a run.
LEMMA FreshWhenStopped ==
    ASSUME NightInv, UNCHANGED noticeVars \/ (\E r \in Runners : Stop(r))
    PROVE  NoticesInv' /\ UnsentIsFresh'
<1>1. CASE UNCHANGED noticeVars
  <2>1. UNCHANGED <<holder, changes, window, told, run, informed>>
    BY <1>1 DEF noticeVars
  <2>2. NoticesInv'
    BY <2>1 DEF NightInv, NoticesInv, NoticesTypeOK, Held, DigestsAreWhole,
                StampsWhatItLists, StampedWasInformed
  <2>3. UnsentIsFresh'
    BY <2>1 DEF NightInv, UnsentIsFresh, Unsent, NothingOnRecord
  <2> QED  BY <2>2, <2>3
<1>2. CASE \E r \in Runners : Stop(r)
  <2>1. PICK r \in Runners : Stop(r)
    BY <1>2
  <2>2. NoticesInv /\ NoticesTypeOK /\ told' = told
    BY <2>1 DEF NightInv, NoticesInv, Stop
  <2>3. NoticesInv'
    BY <2>1, <2>2, NoticesInvStop
  <2>4. UnsentIsFresh'
    BY <2>1, <2>2, StopEffect DEF NightInv, UnsentIsFresh, Unsent, NothingOnRecord
  <2> QED  BY <2>3, <2>4
<1> QED  BY <1>1, <1>2

LEMMA NightInvLoop ==
    ASSUME NightInv, SchedulerTypeOK', LoopStep \/ Advance, UNCHANGED noticeVars
    PROVE  NightInv'
<1>1. SchedulerTypeOK /\ run' = run
  BY DEF NightInv, noticeVars
<1>2. Reminders \in Jobs
  BY NightlyAssumption, SchedulerAssumption
<1>3. OneAtATime'
  <2>1. CASE LoadState \/ Tick
    BY <1>1, <2>1 DEF NightInv, OneAtATime, LoadState, Tick, Down
  <2>2. CASE RunJob
    <3>1. Current \in Jobs
      BY <1>1, <2>2, CurrentIsDue, Fields DEF RunJob, SchedulerTypeOK
    <3>2. loop'.at = "running" /\ loop'.due = loop.due
      BY <1>1, <2>2 DEF RunJob, SchedulerTypeOK, LoopStates
    <3>3. Current' = Current
      BY <3>2 DEF Current
    <3>4. lock'[Current] = "loop"
      BY <1>1, <2>2, <3>1 DEF RunJob, SchedulerTypeOK
    <3>5. lock[Reminders] = "hand" => lock'[Reminders] = "hand"
      BY <1>1, <1>2, <2>2 DEF RunJob, SchedulerTypeOK
    <3>6. run["loop"].phase = "stopped"
      BY <2>2 DEF NightInv, OneAtATime, RunJob
    <3> QED  BY <1>1, <3>2, <3>3, <3>4, <3>5, <3>6 DEF NightInv, OneAtATime
  <2>3. CASE SkipLocked \/ Record \/ RecordFails
    <3>1. loop.at # "running" /\ loop'.at # "running" /\ lock' = lock
      BY <1>1, <2>3, NextJobEffect, Records DEF SkipLocked, Record, RecordFails
    <3> QED  BY <1>1, <3>1 DEF NightInv, OneAtATime
  <2>4. CASE Advance
    <3>1. loop'.at = loop.at /\ loop'.due = loop.due /\ lock' = lock
      BY <1>1, <2>4 DEF Advance, SchedulerTypeOK, LoopStates
    <3>2. Current' = Current
      BY <3>1 DEF Current
    <3> QED  BY <1>1, <3>1, <3>2 DEF NightInv, OneAtATime
  <2> QED  BY <2>1, <2>2, <2>3, <2>4 DEF LoopStep
<1> QED  BY <1>3, FreshWhenStopped DEF NightInv

LEMMA NightInvHand ==
    ASSUME NightInv, SchedulerTypeOK', NEW j \in Jobs,
           (HandStarts(j) /\ UNCHANGED noticeVars) \/ HandRunEnds(j)
    PROVE  NightInv'
<1>1. SchedulerTypeOK /\ NoticesTypeOK /\ loop' = loop
  BY DEF NightInv, NoticesInv, HandRunEnds, HandStarts, HandEnds
<1>2. Current' = Current
  BY <1>1 DEF Current
<1>3. Reminders \in Jobs
  BY NightlyAssumption, SchedulerAssumption
<1>4. "hand" \in Runners /\ "loop" \in Runners
  BY DEF Runners
<1>5. CASE HandStarts(j) /\ UNCHANGED noticeVars
  <2>1. lock[j] = "free" /\ lock' = [lock EXCEPT ![j] = "hand"] /\ run' = run
    BY <1>5 DEF HandStarts, noticeVars
  <2>2. OneAtATime'
    BY <1>1, <1>2, <1>3, <2>1 DEF NightInv, OneAtATime, SchedulerTypeOK
  <2> QED  BY <1>5, <2>2, FreshWhenStopped DEF NightInv
<1>6. CASE HandRunEnds(j)
  <2>1. lock[j] = "hand" /\ lock' = [lock EXCEPT ![j] = "free"]
    BY <1>6 DEF HandRunEnds, HandEnds
  <2>2. OneAtATime'
    <3>1. CASE j = Reminders
      <4>1. Stop("hand")
        BY <1>6, <3>1 DEF HandRunEnds
      <4>2. run'["hand"].phase = "stopped" /\ run'["loop"] = run["loop"]
        BY <1>1, <1>4, <4>1, StopEffect
      <4> QED  BY <1>1, <1>2, <2>1, <4>2 DEF NightInv, OneAtATime, SchedulerTypeOK
    <3>2. CASE j # Reminders
      <4>1. run' = run
        BY <1>6, <3>2 DEF HandRunEnds, noticeVars
      <4> QED  BY <1>1, <1>2, <2>1, <3>2, <4>1 DEF NightInv, OneAtATime, SchedulerTypeOK
    <3> QED  BY <3>1, <3>2
  <2>3. UNCHANGED noticeVars \/ (\E r \in Runners : Stop(r))
    BY <1>4, <1>6 DEF HandRunEnds
  <2> QED  BY <2>2, <2>3, FreshWhenStopped DEF NightInv
<1> QED  BY <1>5, <1>6

LEMMA NightInvJobEnds ==
    ASSUME NightInv, SchedulerTypeOK', NEW ok \in BOOLEAN, JobEnds(ok)
    PROVE  NightInv'
<1>1. SchedulerTypeOK /\ NoticesTypeOK
  BY DEF NightInv, NoticesInv
<1>2. Reminders \in Jobs /\ "loop" \in Runners /\ "hand" \in Runners
  BY NightlyAssumption, SchedulerAssumption DEF Runners
<1>3. loop.at = "running" /\ loop'.at = "recording"
  BY <1>1 DEF JobEnds, RunEnds, SchedulerTypeOK, LoopStates
<1>4. lock[Current] = "loop"
  BY <1>3 DEF NightInv, OneAtATime
<1>5. lock[Reminders] = "hand" => lock'[Reminders] = "hand"
  BY <1>1, <1>2, <1>4 DEF JobEnds, RunEnds, SchedulerTypeOK
<1>6. UNCHANGED noticeVars \/ (\E r \in Runners : Stop(r))
  BY <1>2 DEF JobEnds
<1>7. run'["loop"].phase = "stopped" /\ run'["hand"] = run["hand"]
  <2>1. CASE Current = Reminders
    <3>1. Stop("loop")
      BY <2>1 DEF JobEnds
    <3> QED  BY <1>1, <1>2, <3>1, StopEffect
  <2>2. CASE Current # Reminders
    <3>1. run' = run
      BY <2>2 DEF JobEnds, noticeVars
    <3> QED  BY <2>2, <3>1 DEF NightInv, OneAtATime
  <2> QED  BY <2>1, <2>2
<1>8. OneAtATime'
  BY <1>3, <1>5, <1>7 DEF NightInv, OneAtATime
<1> QED  BY <1>6, <1>8, FreshWhenStopped DEF NightInv

LEMMA NightInvRestart ==
    ASSUME NightInv, SchedulerTypeOK', Restart
    PROVE  NightInv'
<1>1. NoticesTypeOK /\ "loop" \in Runners /\ "hand" \in Runners /\ Reminders \in Jobs
  BY NightlyAssumption, SchedulerAssumption DEF NightInv, NoticesInv, Runners
<1>2. Stop("loop") /\ loop'.at = "down"
  BY Records DEF Restart, Crash
<1>3. run'["loop"].phase = "stopped" /\ run'["hand"] = run["hand"]
  BY <1>1, <1>2, StopEffect
<1>4. lock[Reminders] = "hand" => lock'[Reminders] = "hand"
  BY <1>1 DEF Restart, Crash
<1>5. OneAtATime'
  BY <1>2, <1>3, <1>4 DEF NightInv, OneAtATime
<1> QED  BY <1>1, <1>2, <1>5, FreshWhenStopped DEF NightInv

LEMMA NightInvStep == NightInv /\ SchedulerTypeOK' /\ [Next]_vars => NightInv'
<1> SUFFICES ASSUME NightInv, SchedulerTypeOK', [Next]_vars PROVE NightInv'
  OBVIOUS
<1>1. CASE (LoopStep \/ Advance) /\ UNCHANGED noticeVars
  BY <1>1, NightInvLoop
<1>2. CASE \E j \in Jobs : (HandStarts(j) /\ UNCHANGED noticeVars) \/ HandRunEnds(j)
  BY <1>2, NightInvHand
<1>3. CASE \E ok \in BOOLEAN : JobEnds(ok)
  BY <1>3, NightInvJobEnds
<1>4. CASE Restart
  BY <1>4, NightInvRestart
<1>5. CASE \E r \in Runners : Body(r)
  BY <1>5, NightInvBody
<1>6. CASE RosterChanges /\ UNCHANGED schedulerVars
  BY <1>6, NightInvRoster
<1>7. CASE UNCHANGED vars
  <2>1. UNCHANGED noticeVars /\ UNCHANGED <<loop, lock>>
    BY <1>7 DEF vars, schedulerVars
  <2>2. OneAtATime'
    BY <2>1 DEF NightInv, OneAtATime, Current, noticeVars
  <2> QED  BY <2>1, <2>2, FreshWhenStopped DEF NightInv
<1> QED  BY <1>1, <1>2, <1>3, <1>4, <1>5, <1>6, <1>7 DEF Next

-----------------------------------------------------------------------------
(* The theorems.                                                           *)

\* The inductive invariant of the composition: the lock keeps two runs of the
\* digest apart, so what a run has still to send is as fresh as when it read.
THEOREM NightInvariance == Spec => []NightInv
<1>1. Spec => []SchedulerTypeOK
  BY SchedulerIsImplemented, SchedulerTypeCorrect DEF ImplementsScheduler
<1> QED  BY <1>1, NightInvInit, NightInvStep, PTL DEF Spec

\* The variables of the scheduler and of the digest keep their types.
THEOREM NightTypeCorrect == Spec => []TypeOK
<1>1. NightInv => TypeOK
  BY DEF NightInv, NoticesInv, TypeOK
<1> QED  BY <1>1, NightInvariance, PTL

\* Nobody is on record as told who was neither mailed nor acted themselves
\* (jobs/__init__.py send_digests: the stamp is written after the send).
THEOREM StampsAreEarned == Spec => []StampedWasInformed
<1>1. NightInv => StampedWasInformed
  BY DEF NightInv, NoticesInv
<1> QED  BY <1>1, NightInvariance, PTL

\* No mail repeats a reminder that is on record when it goes: what a run
\* planned, no other run can have stamped (models.Notification).
THEOREM RemindersGoOnce == Spec => NoReminderTwice
<1> DEFINE Once ==
      \A r \in Runners :
        run[r].phase = "sending" /\ run'[r].phase = "sent" =>
          \A i \in run'[r].digest.items :
            <<i[1], run'[r].digest.to, i[2]>> \in told => i[2] = "scheduled"
<1>1. NightInv /\ [Next]_vars => [Once]_noticeVars
  <2> SUFFICES ASSUME NightInv, [Next]_vars, NEW r \in Runners,
                      run[r].phase = "sending", run'[r].phase = "sent",
                      NEW i \in run'[r].digest.items,
                      <<i[1], run'[r].digest.to, i[2]>> \in told
               PROVE  i[2] = "scheduled"
    OBVIOUS
  <2>1. NoticesTypeOK /\ NoticesInv
    BY DEF NightInv, NoticesInv
  <2>2. ~UNCHANGED noticeVars /\ ~UNCHANGED run
    BY DEF noticeVars
  <2>3. ~(\E o \in Runners : Stop(o))
    BY <2>1, StopEffect
  <2>4. ~RosterChanges
    BY <2>1, <2>2, NoticesInvRoster
  <2>5. \E o \in Runners : Body(o)
    BY <2>2, <2>3, <2>4 DEF Next, HandRunEnds, JobEnds, Restart, Runners, vars
  <2>6. PICK o \in Runners : Body(o)
    BY <2>5
  <2>7. \/ Read(o) \/ Stamp(o)
        \/ \E d \in run[o].todo : Send(o, d) \/ SendFails(o, d)
    BY <2>6 DEF Body, ReadStep, SendTo, SendToFails, StampFor
  <2>8. PICK d \in run[o].todo : o = r /\ Send(r, d)
    BY <2>1, <2>7, ReadEffect, SendEffect, SendFailsEffect, StampEffect
  <2>9. run'[r].digest = d /\ d \in Unsent(r)
    BY <2>1, <2>8, SendEffect DEF Unsent
  <2>10. NothingOnRecord(d)
    BY <2>9 DEF NightInv, UnsentIsFresh
  <2> QED  BY <2>9, <2>10 DEF NothingOnRecord
<1> QED
  BY <1>1, NightInvariance, PTL DEF Spec, NoReminderTwice
=============================================================================
