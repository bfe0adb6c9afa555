--------------------------- MODULE EventReminders ---------------------------
(***************************************************************************)
(* The nightly event digest (jobs/event_reminders.py) and the sending and  *)
(* stamping it shares with the proposal digest (jobs/__init__.py), over a  *)
(* roster that managers and volunteers go on changing.                     *)
(*                                                                         *)
(* A run reads the roster and the notices on record in one transaction and *)
(* plans every digest from them; then, person by person, it mails and,     *)
(* once the mail went, stamps what the mail settled in a transaction of    *)
(* its own.  run[r] is what runner r (the scheduler's process, or a run by *)
(* hand) has still to do.  What keeps two runs apart is the job's lock,    *)
(* which is not here: NightlyNotices adds it.                              *)
(*                                                                         *)
(* How many days off an event is shows only as the window it falls in.     *)
(* Assignment ids are serial, never reused.  Everybody has an address.     *)
(***************************************************************************)
EXTENDS Naturals

CONSTANTS
    Assignments,    \* bound: assignment ids that may ever be used
    Events, EventOf,    \* the event of each assignment
    People,
    Wants,          \* the reminders chosen for each assignment: week, day
    MaxChanges,     \* bound: changes of the roster
    None            \* no holder yet

ASSUME RemindersAssumption ==
    /\ Assignments \subseteq Nat
    /\ EventOf \in [Assignments -> Events]
    /\ Wants \in [Assignments -> SUBSET {"week", "day"}]
    /\ MaxChanges \in Nat
    /\ None \notin People
    /\ "gone" \notin People /\ None # "gone"

VARIABLES
    holder,     \* event_assignment: None (unused), its volunteer, or "gone"
    changes,    \* changes of the roster so far
    window,     \* how far off each event is
    told,       \* notification rows: <<assignment, volunteer, stage>>
    run,        \* the digests each runner has planned and not settled
    informed    \* history: <<assignment, person>> that a mail named, or who
                \* took the assignment up themselves

noticeVars == <<holder, window, changes, told, run, informed>>

Runners == {"loop", "hand"}

Stages == {"scheduled", "week", "day"}

Windows == {"far", "week", "day", "over"}

Digests ==
    [to : People, items : SUBSET (Assignments \X Stages),
     stamps : SUBSET (Assignments \X Stages)]

\* phase "sent": the mail of `digest` went, its stamps are not written.
NoDigest == [to |-> None, items |-> {}, stamps |-> {}]

Stopped == [phase |-> "stopped", todo |-> {}, digest |-> NoDigest]

Held == {a \in Assignments : holder[a] \in People}

NoticesTypeOK ==
    /\ holder \in [Assignments -> People \cup {None, "gone"}]
    /\ window \in [Events -> Windows]
    /\ changes \in 0..MaxChanges
    /\ told \subseteq Held \X People \X Stages
    /\ run \in [Runners -> [phase : {"stopped", "sending", "sent"},
                            todo : SUBSET Digests,
                            digest : Digests \cup {NoDigest}]]
    /\ informed \subseteq Assignments \X People

NoticesInit ==
    /\ holder = [a \in Assignments |-> None]
    /\ window \in [Events -> Windows \ {"over"}]
    /\ changes = 0
    /\ told = {}
    /\ run = [r \in Runners |-> Stopped]
    /\ informed = {}

\* Broken: the notice is of the assignment, whoever was told.
ToldAnybody(a, stage) == \E p \in People : <<a, p, stage>> \in told

Told(a, stage) == <<a, holder[a], stage>> \in told

-----------------------------------------------------------------------------
(* read and plan.                                                          *)

\* Assignments on a live event still owed a notice, to their present holder.
Owed ==
    {a \in Held :
       /\ window[EventOf[a]] # "over"
       /\ \E stage \in Wants[a] \cup {"scheduled"} : ~Told(a, stage)}

InWindow(a, stage) ==
    CASE stage = "scheduled" -> TRUE
      [] stage = "week" -> window[EventOf[a]] \in {"week", "day"}
      [] stage = "day" -> window[EventOf[a]] = "day"

Pending(a) ==
    {stage \in Wants[a] \cup {"scheduled"} : ~Told(a, stage) /\ InWindow(a, stage)}

\* Listed once, under the strongest notice.
Kind(a) ==
    IF "scheduled" \in Pending(a) THEN "scheduled"
    ELSE IF "day" \in Pending(a) THEN "day" ELSE "week"

\* Every stage whose window the night satisfies, asked for or not.
Settled(a) == {stage \in Stages : ~Told(a, stage) /\ InWindow(a, stage)}

DigestOf(p) ==
    LET listed == {a \in Owed : holder[a] = p /\ Pending(a) # {}} IN
    [to |-> p,
     items |-> {<<a, Kind(a)>> : a \in listed},
     stamps |-> UNION {{a} \X Settled(a) : a \in listed}]

Plan == {d \in {DigestOf(p) : p \in People} : d.items # {}}

Read(r) ==
    /\ run[r].phase = "stopped"
    /\ run' = [run EXCEPT ![r] = [phase |-> "sending", todo |-> Plan,
                                  digest |-> NoDigest]]
    /\ UNCHANGED <<holder, window, changes, told, informed>>

-----------------------------------------------------------------------------
(* send_digests.                                                           *)

Stamps(d) == {<<i[1], d.to, i[2]>> : i \in d.stamps}

\* The mailer took it.
Send(r, d) ==
    /\ run[r].phase = "sending"
    /\ d \in run[r].todo
    /\ run' = [run EXCEPT ![r].phase = "sent", ![r].digest = d]
    /\ informed' = informed \cup {<<i[1], d.to>> : i \in d.items}
    /\ UNCHANGED <<holder, window, changes, told>>

\* Broken: stamped, but not sent.
SendFailsStamping(r, d) ==
    /\ run[r].phase = "sending"
    /\ d \in run[r].todo
    /\ run' = [run EXCEPT ![r].phase = "sent", ![r].digest = d]
    /\ UNCHANGED <<holder, window, changes, told, informed>>

\* The mailer did not: counted, and left to the next night.
SendFails(r, d) ==
    /\ run[r].phase = "sending"
    /\ d \in run[r].todo
    /\ run' = [run EXCEPT ![r].todo = @ \ {d}]
    /\ UNCHANGED <<holder, window, changes, told, informed>>

\* One insert for all the stamps of a person; the foreign key needs every
\* assignment to be there still.
Stamp(r) ==
    /\ run[r].phase = "sent"
    /\ \A i \in run[r].digest.stamps : i[1] \in Held
    /\ told' = told \cup Stamps(run[r].digest)
    /\ run' = [run EXCEPT ![r].phase = "sending", ![r].digest = NoDigest,
                          ![r].todo = @ \ {run[r].digest}]
    /\ UNCHANGED <<holder, window, changes, informed>>

\* The run is over: all digests settled, the insert or the read failed, or the
\* process died.
Stop(r) ==
    /\ run' = [run EXCEPT ![r] = Stopped]
    /\ UNCHANGED <<holder, window, changes, told, informed>>

-----------------------------------------------------------------------------
(* The roster meanwhile (services/events.py).                              *)

\* p comes on assignment a of a live event; nobody is twice on an event.
Take(a, p) ==
    /\ window[EventOf[a]] # "over"
    /\ \A b \in Held : EventOf[b] = EventOf[a] => holder[b] # p
    /\ holder' = [holder EXCEPT ![a] = p]
    /\ UNCHANGED <<window, run>>

IsNextId(a) ==
    /\ holder[a] = None
    /\ \A b \in Assignments : b < a => holder[b] # None

\* The person acted, so the "scheduled" notice is on record at once.
ActsOneself(a, p) ==
    /\ told' = told \cup {<<a, p, "scheduled">>}
    /\ informed' = informed \cup {<<a, p>>}

\* assign: the digest will tell them.
Assign(a, p) == IsNextId(a) /\ Take(a, p) /\ UNCHANGED <<told, informed>>

SignUp(a, p) == IsNextId(a) /\ Take(a, p) /\ ActsOneself(a, p)

\* claim_sub, or substitute by agreement (NotifyMode.direct).
TakeOver(a, p) == a \in Held /\ Take(a, p) /\ ActsOneself(a, p)

\* substitute, left to the digest to tell.
HandOver(a, p) == a \in Held /\ Take(a, p) /\ UNCHANGED <<told, informed>>

\* The assignment is deleted, and its notices with it.
Remove(a) ==
    /\ a \in Held
    /\ holder' = [holder EXCEPT ![a] = "gone"]
    /\ told' = {n \in told : n[1] # a}
    /\ UNCHANGED <<window, run, informed>>

\* Days pass, or update_event gives the event other times; it ends, or is
\* cancelled ("over").
EventMoves(e) ==
    /\ window[e] # "over"
    /\ \E w \in Windows \ {window[e]} : window' = [window EXCEPT ![e] = w]
    /\ UNCHANGED <<holder, told, run, informed>>

RosterChanges ==
    /\ changes < MaxChanges
    /\ changes' = changes + 1
    /\ \/ \E a \in Assignments, p \in People :
            Assign(a, p) \/ SignUp(a, p) \/ TakeOver(a, p) \/ HandOver(a, p)
       \/ \E a \in Assignments : Remove(a)
       \/ \E e \in Events : EventMoves(e)
-----------------------------------------------------------------------------
(* Properties.                                                             *)

\* Nobody is on record as told who was neither mailed nor took the slot up
\* themselves: a send that failed, a run that died or a hand-over leave no
\* stamp behind (jobs/__init__.py send_digests).
StampedWasInformed == \A n \in told : <<n[1], n[2]>> \in informed

\* No mail repeats a reminder that is on record by the time it goes, though
\* the record was read long before (models.Notification: "so the nightly jobs
\* never send it twice").  A "scheduled" notice may: its reader can take the
\* slot up while the run is on.
NoReminderTwice ==
    [][\A r \in Runners :
         run[r].phase = "sending" /\ run'[r].phase = "sent" =>
           \A i \in run'[r].digest.items :
             <<i[1], run'[r].digest.to, i[2]>> \in told => i[2] = "scheduled"
      ]_noticeVars
=============================================================================
