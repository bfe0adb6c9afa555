--------------------------- MODULE CalendarMirror ---------------------------
(***************************************************************************)
(* The one-way mirror of the events on the public Google calendar          *)
(* (jobs/calendar_sync.py, services/gcal.py).  A run makes sure of the     *)
(* calendar, reads the events, plans an operation for each that needs one  *)
(* and works through them: the call to Google first, then the stamp on the *)
(* event's row.  Last it sweeps away managed entries with no live event.   *)
(* People go on changing events, and a call may fail, or be answered by a  *)
(* timeout after it took effect.                                           *)
(*                                                                         *)
(* The job's lock keeps runs apart (JobScheduler), so there is one.  What  *)
(* an entry shows is the version of its event; its fingerprint is that     *)
(* version.  Every event is upcoming.  Entries people make or remove by    *)
(* hand, and the sharing rules, are left out.                              *)
(***************************************************************************)
EXTENDS Naturals, FiniteSets

CONSTANTS
    Events,
    MaxVersion,     \* bound: edits of an event
    MaxEntries,     \* bound: entries ever made
    MaxSetbacks,    \* bound: crashes, lost answers and calendars removed
    None

ASSUME MirrorAssumption ==
    /\ MaxVersion \in Nat /\ MaxEntries \in Nat /\ MaxSetbacks \in Nat
    /\ None \notin Nat

VARIABLES
    rows,       \* the event rows, with google_event_id and google_fingerprint
    entries,    \* the entries of the calendar; ids are Google's, never reused
    calendar,   \* "none": never made; "kept"; "lost": removed in Google
    sync,       \* the run in progress
    astray,     \* history: entries made whose id no stamp recorded
    setbacks

mirrorVars == <<rows, entries, calendar, sync, astray, setbacks>>

EntryIds == 1..MaxEntries

Versions == 0..MaxVersion

EventRows ==
    [st : {"none", "scheduled", "cancelled", "deleted"}, version : Versions,
     id : EntryIds \cup {None}, fp : Versions \cup {None}]

Ops ==
    [kind : {"insert", "patch", "delete"}, event : Events,
     id : EntryIds \cup {None}, version : Versions]

NoOp == [kind |-> "delete", event |-> None, id |-> None, version |-> 0]

\* live: the events the run read as scheduled.  op: done in Google, its row
\* not stamped yet.  sweep: entries found with no live event.
MirrorRuns ==
    [at : {"stopped", "creating", "ready", "pushing", "stamping", "sweeping"},
     todo : SUBSET Ops, live : SUBSET Events, op : Ops \cup {NoOp},
     sweep : SUBSET EntryIds]

Stopped ==
    [at |-> "stopped", todo |-> {}, live |-> {}, op |-> NoOp, sweep |-> {}]

Unused == [event |-> None, version |-> None, st |-> "unused"]

MirrorTypeOK ==
    /\ rows \in [Events -> EventRows]
    /\ entries \in [EntryIds -> [event : Events \cup {None},
                                 version : Versions \cup {None},
                                 st : {"unused", "shown", "gone"}]]
    /\ calendar \in {"none", "kept", "lost"}
    /\ sync \in MirrorRuns
    /\ astray \subseteq EntryIds
    /\ setbacks \in 0..MaxSetbacks

MirrorInit ==
    /\ rows = [e \in Events |->
                 [st |-> "none", version |-> 0, id |-> None, fp |-> None]]
    /\ entries = [g \in EntryIds |-> Unused]
    /\ calendar = "none"
    /\ sync = Stopped
    /\ astray = {}
    /\ setbacks = 0

Shown == {g \in EntryIds : entries[g].st = "shown"}

ShownFor(e) == {g \in Shown : entries[g].event = e}

Scheduled == {e \in Events : rows[e].st = "scheduled"}

-----------------------------------------------------------------------------
(* _ensure_calendar, read and plan_ops.                                    *)

\* Broken: a GET that failed is taken for a calendar that is gone.
StartForgetting ==
    /\ sync.at = "stopped"
    /\ sync' = [Stopped EXCEPT !.at = IF calendar = "kept" THEN "ready" ELSE "creating"]
    /\ rows' = [e \in Events |-> [rows[e] EXCEPT !.id = None, !.fp = None]]
    /\ UNCHANGED <<entries, calendar, astray, setbacks>>

\* A remembered calendar that Google no longer has: every stamp is cleared.
StartSync ==
    /\ sync.at = "stopped"
    /\ sync' = [Stopped EXCEPT !.at = IF calendar = "kept" THEN "ready" ELSE "creating"]
    /\ rows' = IF calendar # "lost" THEN rows
               ELSE [e \in Events |-> [rows[e] EXCEPT !.id = None, !.fp = None]]
    /\ UNCHANGED <<entries, calendar, astray, setbacks>>

\* The new calendar is made, and remembered.
CreateCalendar ==
    /\ sync.at = "creating"
    /\ calendar' = "kept"
    /\ sync' = [sync EXCEPT !.at = "ready"]
    /\ UNCHANGED <<rows, entries, astray, setbacks>>

OpFor(e) ==
    LET r == rows[e]
        Op(kind) == {[kind |-> kind, event |-> e, id |-> r.id, version |-> r.version]}
    IN
    CASE r.st = "cancelled" /\ r.id # None -> Op("delete")
      [] r.st = "scheduled" /\ r.id = None -> Op("insert")
      [] r.st = "scheduled" /\ r.id # None /\ r.fp # r.version -> Op("patch")
      [] OTHER -> {}

\* Broken: an event counts as live once it has been pushed.
ReadPushedAsLive ==
    /\ sync.at = "ready"
    /\ sync' = [sync EXCEPT !.at = "pushing",
                            !.todo = UNION {OpFor(e) : e \in Events},
                            !.live = {e \in Scheduled : rows[e].id # None}]
    /\ UNCHANGED <<rows, entries, calendar, astray, setbacks>>

ReadEvents ==
    /\ sync.at = "ready"
    /\ sync' = [sync EXCEPT !.at = "pushing",
                            !.todo = UNION {OpFor(e) : e \in Events},
                            !.live = Scheduled]
    /\ UNCHANGED <<rows, entries, calendar, astray, setbacks>>

-----------------------------------------------------------------------------
(* _apply: the calls to Google, and the stamps.                            *)

IsNextEntry(g) ==
    /\ entries[g].st = "unused"
    /\ \A h \in EntryIds : h < g => entries[h].st # "unused"

MakeEntry(g, op) ==
    entries' = [entries EXCEPT
                  ![g] = [event |-> op.event, version |-> op.version, st |-> "shown"]]

\* The call took effect and was answered.  Deleting what is gone is a success.
Push(op) ==
    /\ sync.at = "pushing"
    /\ op \in sync.todo
    /\ \/ /\ op.kind = "insert" /\ calendar = "kept"
          /\ \E g \in EntryIds :
               /\ IsNextEntry(g)
               /\ MakeEntry(g, op)
               /\ astray' = astray \cup {g}
               /\ sync' = [sync EXCEPT !.at = "stamping", !.op = [op EXCEPT !.id = g]]
       \/ /\ op.kind = "patch" /\ op.id \in Shown
          /\ entries' = [entries EXCEPT ![op.id].version = op.version]
          /\ sync' = [sync EXCEPT !.at = "stamping", !.op = op]
          /\ UNCHANGED astray
       \/ /\ op.kind = "delete"
          /\ entries' = [entries EXCEPT ![op.id].st = "gone"]
          /\ sync' = [sync EXCEPT !.at = "stamping", !.op = op]
          /\ UNCHANGED astray
    /\ UNCHANGED <<rows, calendar, setbacks>>

\* The call failed without effect: counted, and left to the next run.
PushFails(op) ==
    /\ sync.at = "pushing"
    /\ op \in sync.todo
    /\ sync' = [sync EXCEPT !.todo = @ \ {op}]
    /\ UNCHANGED <<rows, entries, calendar, astray, setbacks>>

\* An insert that took effect and whose answer never came; it is not repeated.
InsertUnanswered(op) ==
    /\ sync.at = "pushing"
    /\ op \in sync.todo /\ op.kind = "insert" /\ calendar = "kept"
    /\ setbacks < MaxSetbacks
    /\ setbacks' = setbacks + 1
    /\ \E g \in EntryIds :
         IsNextEntry(g) /\ MakeEntry(g, op) /\ astray' = astray \cup {g}
    /\ sync' = [sync EXCEPT !.todo = @ \ {op}]
    /\ UNCHANGED <<rows, calendar>>

Stamped(op) ==
    IF op.kind = "delete" THEN [id |-> None, fp |-> None]
    ELSE [id |-> op.id, fp |-> op.version]

\* Broken: the row is stamped with what it says by now, not what was pushed.
StampCurrent ==
    LET op == sync.op
        e == op.event
    IN
    /\ sync.at = "stamping"
    /\ rows' = IF rows[e].st = "deleted" THEN rows
               ELSE [rows EXCEPT
                       ![e].id = Stamped(op).id,
                       ![e].fp = IF op.kind = "delete" THEN None ELSE rows[e].version]
    /\ astray' = IF rows[e].st = "deleted" THEN astray ELSE astray \ {op.id}
    /\ sync' = [sync EXCEPT !.at = "pushing", !.op = NoOp,
                            !.todo = {o \in @ : o.event # e}]
    /\ UNCHANGED <<entries, calendar, setbacks>>

\* An UPDATE that finds no row is no error.
Stamp ==
    LET op == sync.op
        e == op.event
    IN
    /\ sync.at = "stamping"
    /\ rows' = IF rows[e].st = "deleted" THEN rows
               ELSE [rows EXCEPT ![e].id = Stamped(op).id, ![e].fp = Stamped(op).fp]
    /\ astray' = IF rows[e].st = "deleted" THEN astray ELSE astray \ {op.id}
    /\ sync' = [sync EXCEPT !.at = "pushing", !.op = NoOp,
                            !.todo = {o \in @ : o.event # e}]
    /\ UNCHANGED <<entries, calendar, setbacks>>

-----------------------------------------------------------------------------
(* The sweep.                                                              *)

\* list_managed and orphans: by the events the run read, not by their rows now.
ListManaged ==
    /\ sync.at = "pushing" /\ sync.todo = {} /\ calendar = "kept"
    /\ sync' = [sync EXCEPT !.at = "sweeping",
                            !.sweep = {g \in Shown : entries[g].event \notin sync.live}]
    /\ UNCHANGED <<rows, entries, calendar, astray, setbacks>>

DeleteOrphan(g) ==
    /\ sync.at = "sweeping"
    /\ g \in sync.sweep
    /\ entries' = [entries EXCEPT ![g].st = "gone"]
    /\ sync' = [sync EXCEPT !.sweep = @ \ {g}]
    /\ UNCHANGED <<rows, calendar, astray, setbacks>>

\* The run ends, done or on the first failure of a step it cannot go on from.
EndSync ==
    /\ \/ sync.at \in {"creating", "ready", "sweeping"}
       \/ sync.at = "pushing" /\ sync.todo = {}
    /\ sync' = Stopped
    /\ UNCHANGED <<rows, entries, calendar, astray, setbacks>>

CrashSync ==
    /\ sync.at # "stopped"
    /\ setbacks < MaxSetbacks
    /\ setbacks' = setbacks + 1
    /\ sync' = Stopped
    /\ UNCHANGED <<rows, entries, calendar, astray>>

-----------------------------------------------------------------------------
(* The events meanwhile, and a calendar removed by hand.                   *)

CreateEvent(e) ==
    /\ rows[e].st = "none"
    /\ rows' = [rows EXCEPT ![e].st = "scheduled"]

EditEvent(e) ==
    /\ rows[e].st = "scheduled" /\ rows[e].version < MaxVersion
    /\ rows' = [rows EXCEPT ![e].version = @ + 1]

CancelEvent(e) ==
    /\ rows[e].st = "scheduled"
    /\ rows' = [rows EXCEPT ![e].st = "cancelled"]

\* Its team was deleted: the row goes, and its stamp with it.
DropEvent(e) ==
    /\ rows[e].st \in {"scheduled", "cancelled"}
    /\ rows' = [rows EXCEPT ![e] = [st |-> "deleted", version |-> 0,
                                    id |-> None, fp |-> None]]

EventChanges ==
    /\ \E e \in Events :
         CreateEvent(e) \/ EditEvent(e) \/ CancelEvent(e) \/ DropEvent(e)
    /\ UNCHANGED <<entries, calendar, sync, astray, setbacks>>

RemoveCalendar ==
    /\ calendar = "kept"
    /\ setbacks < MaxSetbacks
    /\ setbacks' = setbacks + 1
    /\ calendar' = "lost"
    /\ entries' = [g \in EntryIds |-> IF g \in Shown
                                      THEN [entries[g] EXCEPT !.st = "gone"]
                                      ELSE entries[g]]
    /\ UNCHANGED <<rows, sync, astray>>

MirrorStep ==
    \/ StartSync \/ CreateCalendar \/ ReadEvents \/ Stamp \/ ListManaged \/ EndSync
    \/ \E op \in sync.todo : Push(op) \/ PushFails(op)
    \/ \E g \in sync.sweep : DeleteOrphan(g)

MirrorNext ==
    \/ MirrorStep
    \/ \E op \in sync.todo : InsertUnanswered(op)
    \/ CrashSync \/ EventChanges \/ RemoveCalendar

\* Every half-hour brings a run, and a run ends; Google does not refuse the
\* same call for ever.
MirrorFairness ==
    /\ WF_mirrorVars(MirrorStep)
    /\ SF_mirrorVars(CreateCalendar)
    /\ SF_mirrorVars(ReadEvents)
    /\ SF_mirrorVars(ListManaged)
    /\ \A e \in Events :
         SF_mirrorVars(\E op \in sync.todo : op.event = e /\ Push(op))
    /\ SF_mirrorVars(\E g \in sync.sweep : DeleteOrphan(g))

MirrorSpec == MirrorInit /\ [][MirrorNext]_mirrorVars /\ MirrorFairness

-----------------------------------------------------------------------------
(* Properties.                                                             *)

ShowsIt(e) == rows[e].id \in Shown /\ entries[rows[e].id].version = rows[e].version

\* What the calendar shows of each event, but for the entries no row ever knew.
MirroredButAstray ==
    \A e \in Events :
      IF e \in Scheduled THEN ShownFor(e) \ astray = {rows[e].id} /\ ShowsIt(e)
      ELSE ShownFor(e) = {}

Mirrored ==
    \A e \in Events :
      IF e \in Scheduled THEN ShownFor(e) = {rows[e].id} /\ ShowsIt(e)
      ELSE ShownFor(e) = {}

\* Once events and Google are left alone, every scheduled event has the one
\* entry its row names, showing it as it is, and the others have none, whatever
\* was edited, cancelled, deleted, lost or cut short between a read, a call and
\* its stamp (calendar_sync.py: "converges the calendar onto the database").
\* An entry whose stamp never came about stays beside it for as long as its
\* event is scheduled: that is all the calendar may be out by.
MirrorCatchesUp == []<>MirroredButAstray

\* "A mid-run crash re-converges next run" (calendar_sync.py).  It does not
\* when it falls between the insert and the stamp: the next run inserts the
\* event again, and the sweep, which goes by events, keeps both entries.
CrashReconverges == []<>Mirrored

\* An entry on the calendar is the one its event's row names, unless its stamp
\* never came about or its event was deleted.
EntriesNamed ==
    \A g \in Shown \ astray :
      LET r == rows[entries[g].event] IN r.id = g \/ r.st = "deleted"

\* Entries are named by their rows, and a second entry of an event takes a
\* setback each.
EntriesAccountedFor ==
    /\ EntriesNamed
    /\ \A e \in Events : Cardinality(ShownFor(e)) <= 1 + setbacks

\* While its event is scheduled, no entry is taken off the calendar by a run,
\* though the run goes by what it read at its start.
LiveEntriesStay ==
    [][\A g \in Shown :
         entries'[g].st = "gone" => \/ entries[g].event \notin Scheduled
                                   \/ calendar' = "lost"]_mirrorVars
=============================================================================
