------------------------ MODULE CalendarMirrorProofs ------------------------
(***************************************************************************)
(* What TLAPS proves of CalendarMirror, for any events, versions, entries  *)
(* and setbacks: which entries a run may take off, and who names the rest. *)
(***************************************************************************)
EXTENDS CalendarMirror, FiniteSetTheorems, TLAPS

Used == {g \in EntryIds : entries[g].st # "unused"}

\* A row names an entry of its own event.
RowsNameEntries ==
    \A e \in Events :
      rows[e].id # None => rows[e].id \in Used /\ entries[rows[e].id].event = e

\* Only an event that was made has entries.
EntriesHaveRows ==
    \A g \in Used : entries[g].event \in Events /\ rows[entries[g].event].st # "none"

\* A calendar that is gone took its entries with it.
LostIsEmpty == calendar # "kept" => Shown = {}

AtWork == sync.at \in {"pushing", "stamping", "sweeping"}

\* An event the run did not read as scheduled, and that has an entry, is not
\* scheduled since.
LiveIsCurrent ==
    AtWork => \A g \in Used :
                entries[g].event \notin sync.live => entries[g].event \notin Scheduled

\* The operation was planned from the row, which still names the same entry.
PlannedFromRow(op) ==
    /\ rows[op.event].st # "none"
    /\ op.kind \in {"insert", "patch"} => op.event \in sync.live
    /\ op.kind = "delete" => op.event \notin Scheduled
    /\ op.kind = "insert" => rows[op.event].id = None
    /\ op.kind # "insert" =>
         /\ op.id \in Used /\ entries[op.id].event = op.event
         /\ rows[op.event].id = op.id \/ rows[op.event].st = "deleted"

PlanIsCurrent ==
    /\ sync.at \in {"pushing", "stamping"} =>
         \A op \in sync.todo : PlannedFromRow(op)
    /\ sync.at = "sweeping" =>
         \A g \in sync.sweep : g \in Used /\ entries[g].event \notin sync.live

\* What is in Google, and not stamped.
PushIsCurrent ==
    sync.at = "stamping" =>
      LET op == sync.op IN
      /\ op.event \in Events /\ op.kind \in {"insert", "patch", "delete"}
      /\ op.id \in Used /\ entries[op.id].event = op.event
      /\ op.version \in Versions
      /\ op.kind = "insert" => rows[op.event].id = None
      /\ op.kind # "insert" => rows[op.event].id = op.id \/ rows[op.event].st = "deleted"
      /\ op.kind = "delete" => entries[op.id].st = "gone"

\* The inductive invariant.
MirrorInv ==
    /\ MirrorTypeOK
    /\ RowsNameEntries
    /\ EntriesHaveRows
    /\ LostIsEmpty
    /\ LiveIsCurrent
    /\ PlanIsCurrent
    /\ PushIsCurrent
    /\ EntriesNamed

-----------------------------------------------------------------------------
(* Fields.                                                                 *)

EntryStates ==
    [event : Events \cup {None}, version : Versions \cup {None},
     st : {"unused", "shown", "gone"}]

LEMMA MirrorFields ==
    ASSUME MirrorTypeOK
    PROVE  /\ rows \in [Events -> EventRows] /\ entries \in [EntryIds -> EntryStates]
           /\ sync \in MirrorRuns
           /\ sync.todo \subseteq Ops /\ sync.live \subseteq Events
           /\ sync.sweep \subseteq EntryIds
           /\ sync.op \in Ops \cup {NoOp}
           /\ \A e \in Events : rows[e] \in EventRows
           /\ \A g \in EntryIds : entries[g] \in EntryStates
           /\ None \notin EntryIds /\ None \notin Versions
<1>1. rows \in [Events -> EventRows] /\ entries \in [EntryIds -> EntryStates] /\ sync \in MirrorRuns
  BY DEF MirrorTypeOK, EntryStates
<1>2. /\ sync.todo \subseteq Ops /\ sync.live \subseteq Events
      /\ sync.sweep \subseteq EntryIds /\ sync.op \in Ops \cup {NoOp}
  BY <1>1 DEF MirrorRuns
<1>3. None \notin EntryIds /\ None \notin Versions
  BY MirrorAssumption DEF EntryIds, Versions
<1> QED  BY <1>1, <1>2, <1>3

LEMMA StoppedIsASync ==
    /\ Stopped \in MirrorRuns /\ Stopped.at = "stopped"
    /\ \A at \in {"ready", "creating"} :
         LET s == [Stopped EXCEPT !.at = at] IN s \in MirrorRuns /\ s.at = at
  BY DEF Stopped, MirrorRuns

\* One entry changes its state or its version, and nothing else.
LEMMA EntryChanges ==
    ASSUME MirrorTypeOK, NEW g \in EntryIds, NEW x \in EntryStates,
           entries' = [entries EXCEPT ![g] = x]
    PROVE  /\ entries' \in [EntryIds -> EntryStates] /\ entries'[g] = x
           /\ \A h \in EntryIds : h # g => entries'[h] = entries[h]
  BY MirrorFields

-----------------------------------------------------------------------------
(* The invariant.                                                          *)

LEMMA MirrorInvInit == MirrorInit => MirrorInv
<1> SUFFICES ASSUME MirrorInit PROVE MirrorInv
  OBVIOUS
<1>1. rows \in [Events -> EventRows]
  BY MirrorAssumption DEF MirrorInit, EventRows, Versions
<1>2. entries \in [EntryIds -> EntryStates]
  BY DEF MirrorInit, EntryStates, Unused
<1>3. MirrorTypeOK
  BY <1>1, <1>2, StoppedIsASync, MirrorAssumption DEF MirrorInit, MirrorTypeOK, EntryStates
<1>4. Used = {} /\ Shown = {}
  BY DEF MirrorInit, Used, Shown, Unused
<1>5. \A e \in Events : rows[e].id = None
  BY DEF MirrorInit
<1>6. sync.at = "stopped"
  BY StoppedIsASync DEF MirrorInit
<1> QED
  BY <1>3, <1>4, <1>5, <1>6
     DEF MirrorInv, RowsNameEntries, EntriesHaveRows, LostIsEmpty, LiveIsCurrent, AtWork,
         PlanIsCurrent, PushIsCurrent, EntriesNamed

\* A step that only ends the run, or takes an operation off it.
LEMMA MirrorInvIdle ==
    ASSUME MirrorInv, UNCHANGED <<rows, entries, calendar, astray>>,
           setbacks' \in 0..MaxSetbacks, sync' \in MirrorRuns,
           \/ sync'.at \in {"stopped", "creating", "ready"}
           \/ /\ sync.at = "pushing" /\ sync'.at = "pushing"
              /\ sync'.live = sync.live /\ sync'.todo \subseteq sync.todo
    PROVE  MirrorInv'
<1>1. MirrorTypeOK'
  BY DEF MirrorInv, MirrorTypeOK
<1>2. Used' = Used /\ Shown' = Shown /\ Scheduled' = Scheduled
  BY DEF Used, Shown, Scheduled
<1>3. RowsNameEntries' /\ EntriesHaveRows' /\ LostIsEmpty' /\ EntriesNamed'
  BY <1>2 DEF MirrorInv, RowsNameEntries, EntriesHaveRows, LostIsEmpty, EntriesNamed
<1>4. LiveIsCurrent' /\ PlanIsCurrent' /\ PushIsCurrent'
  BY <1>2 DEF MirrorInv, LiveIsCurrent, AtWork, PlanIsCurrent, PlannedFromRow, PushIsCurrent
<1> QED  BY <1>1, <1>3, <1>4 DEF MirrorInv

\* The steps of a run that call nothing and stamp nothing.
LEMMA MirrorInvStart ==
    ASSUME MirrorInv, StartSync \/ CreateCalendar \/ EndSync \/ CrashSync
    PROVE  MirrorInv'
<1>1. MirrorTypeOK
  BY DEF MirrorInv
<1>2. CASE StartSync
  <2>1. sync' \in MirrorRuns /\ sync'.at \in {"creating", "ready"}
    BY <1>2, StoppedIsASync DEF StartSync
  <2>2. UNCHANGED <<entries, calendar, astray, setbacks>>
    BY <1>2 DEF StartSync
  <2>3. CASE calendar # "lost"
    <3>1. rows' = rows
      BY <1>2, <2>3 DEF StartSync
    <3> QED  BY <1>1, <2>1, <2>2, <3>1, MirrorInvIdle DEF MirrorTypeOK
  <2>4. CASE calendar = "lost"
    <3>1. \A e \in Events : rows'[e] = [rows[e] EXCEPT !.id = None, !.fp = None]
      BY <1>2, <2>4 DEF StartSync
    <3>2. rows' = [e \in Events |-> rows'[e]]
      BY <1>2, <2>4 DEF StartSync
    <3>3. \A e \in Events : /\ rows'[e] \in EventRows /\ rows'[e].id = None
                            /\ rows'[e].st = rows[e].st
      BY <1>1, <3>1, MirrorFields, ZenonT(90) DEF EventRows
    <3>4. MirrorTypeOK'
      BY <1>1, <2>1, <2>2, <3>2, <3>3 DEF MirrorTypeOK
    <3>5. Used' = Used /\ Shown' = Shown /\ Shown = {}
      BY <2>2, <2>4 DEF Used, Shown, MirrorInv, LostIsEmpty
    <3>6. RowsNameEntries' /\ EntriesHaveRows' /\ LostIsEmpty' /\ EntriesNamed'
      BY <2>2, <3>3, <3>5
         DEF MirrorInv, RowsNameEntries, EntriesHaveRows, LostIsEmpty, EntriesNamed
    <3>7. LiveIsCurrent' /\ PlanIsCurrent' /\ PushIsCurrent'
      BY <2>1 DEF LiveIsCurrent, AtWork, PlanIsCurrent, PushIsCurrent
    <3> QED  BY <3>4, <3>6, <3>7 DEF MirrorInv
  <2> QED  BY <2>3, <2>4
<1>3. CASE CreateCalendar
  <2>1. /\ UNCHANGED <<rows, entries, astray, setbacks>> /\ calendar' = "kept"
        /\ sync' \in MirrorRuns /\ sync'.at = "ready"
    BY <1>1, <1>3 DEF CreateCalendar, MirrorTypeOK, MirrorRuns
  <2>2. MirrorTypeOK'
    BY <1>1, <2>1 DEF MirrorTypeOK
  <2>3. Used' = Used /\ Shown' = Shown
    BY <2>1 DEF Used, Shown
  <2>4. RowsNameEntries' /\ EntriesHaveRows' /\ LostIsEmpty' /\ EntriesNamed'
    BY <2>1, <2>3
       DEF MirrorInv, RowsNameEntries, EntriesHaveRows, LostIsEmpty, EntriesNamed
  <2>5. LiveIsCurrent' /\ PlanIsCurrent' /\ PushIsCurrent'
    BY <2>1 DEF LiveIsCurrent, AtWork, PlanIsCurrent, PushIsCurrent
  <2> QED  BY <2>2, <2>4, <2>5 DEF MirrorInv
<1>4. CASE EndSync
  BY <1>1, <1>4, MirrorInvIdle, StoppedIsASync DEF EndSync, MirrorTypeOK
<1>5. CASE CrashSync
  <2>1. setbacks' \in 0..MaxSetbacks
    BY <1>1, <1>5, MirrorAssumption DEF CrashSync, MirrorTypeOK
  <2> QED  BY <1>5, <2>1, MirrorInvIdle, StoppedIsASync DEF CrashSync
<1> QED  BY <1>2, <1>3, <1>4, <1>5

\* Each operation is planned from the row as it is.
LEMMA MirrorInvRead ==
    ASSUME MirrorInv, ReadEvents
    PROVE  MirrorInv'
<1> DEFINE plan == UNION {OpFor(e) : e \in Events}
<1>1. MirrorTypeOK /\ UNCHANGED <<rows, entries, calendar, astray, setbacks>>
  BY DEF MirrorInv, ReadEvents
<1>2. ASSUME NEW op \in plan
      PROVE  /\ op \in Ops /\ rows[op.event].st # "none"
             /\ op.kind \in {"insert", "patch"} => op.event \in Scheduled
             /\ op.kind = "delete" => op.event \notin Scheduled
             /\ op.kind = "insert" => rows[op.event].id = None
             /\ op.kind # "insert" => rows[op.event].id # None /\ rows[op.event].id = op.id
  <2>1. PICK e \in Events : op \in OpFor(e)
    OBVIOUS
  <2>2. PICK kind \in {"insert", "patch", "delete"} :
          /\ op = [kind |-> kind, event |-> e, id |-> rows[e].id, version |-> rows[e].version]
          /\ kind \in {"insert", "patch"} => rows[e].st = "scheduled"
          /\ kind = "delete" => rows[e].st = "cancelled"
          /\ kind = "insert" <=> rows[e].id = None
    BY <2>1 DEF OpFor
  <2>3. /\ op.kind = kind /\ op.event = e
        /\ op.id = rows[e].id /\ op.version = rows[e].version
    BY <2>2
  <2>4. rows[e].id \in EntryIds \cup {None} /\ rows[e].version \in Versions
    BY <1>1, MirrorFields DEF EventRows
  <2>5. op \in Ops
    BY <2>2, <2>4 DEF Ops
  <2> QED  BY <2>2, <2>3, <2>5 DEF Scheduled
<1>3. plan \subseteq Ops
  BY <1>2
<1> HIDE DEF plan
<1>4. sync' = [sync EXCEPT !.at = "pushing", !.todo = plan, !.live = Scheduled]
  BY DEF ReadEvents, plan
<1>5. /\ sync' \in MirrorRuns /\ sync'.at = "pushing"
      /\ sync'.todo = plan /\ sync'.live = Scheduled
  <2>1. Scheduled \subseteq Events
    BY DEF Scheduled
  <2> QED  BY <1>1, <1>3, <1>4, <2>1, MirrorFields DEF MirrorRuns
<1>6. MirrorTypeOK'
  BY <1>1, <1>5 DEF MirrorTypeOK
<1>7. Used' = Used /\ Shown' = Shown /\ Scheduled' = Scheduled
  BY <1>1 DEF Used, Shown, Scheduled
<1>8. RowsNameEntries' /\ EntriesHaveRows' /\ LostIsEmpty' /\ EntriesNamed'
  BY <1>1, <1>7
     DEF MirrorInv, RowsNameEntries, EntriesHaveRows, LostIsEmpty, EntriesNamed
<1>9. ASSUME NEW op \in plan PROVE PlannedFromRow(op)'
  <2>1. op.event \in Events /\ op.kind \in {"insert", "patch", "delete"}
    BY <1>2 DEF Ops
  <2>2. op.kind # "insert" => op.id \in Used /\ entries[op.id].event = op.event
    BY <1>2, <2>1 DEF MirrorInv, RowsNameEntries
  <2> QED  BY <1>1, <1>2, <1>5, <1>7, <2>2 DEF PlannedFromRow
<1>10. LiveIsCurrent' /\ PlanIsCurrent' /\ PushIsCurrent'
  BY <1>5, <1>7, <1>9 DEF LiveIsCurrent, PlanIsCurrent, PushIsCurrent
<1> QED  BY <1>6, <1>8, <1>10 DEF MirrorInv

\* A new entry, of a scheduled event whose row names none.
LEMMA NewEntry ==
    ASSUME MirrorInv, NEW op \in sync.todo, op.kind = "insert", sync.at = "pushing",
           NEW g \in EntryIds, IsNextEntry(g), MakeEntry(g, op),
           calendar = "kept", UNCHANGED <<rows, calendar>>,
           astray' = astray \cup {g}, setbacks' \in 0..MaxSetbacks,
           sync' \in MirrorRuns, sync'.live = sync.live,
           sync'.at \in {"pushing", "stamping"}, sync'.todo \subseteq sync.todo,
           sync'.at = "stamping" => sync'.op = [op EXCEPT !.id = g]
    PROVE  MirrorInv'
<1>1. MirrorTypeOK /\ op \in Ops /\ PlannedFromRow(op)
  BY MirrorFields DEF MirrorInv, PlanIsCurrent
<1>2. op.event \in Events /\ op.version \in Versions
  BY <1>1 DEF Ops
<1> DEFINE x == [event |-> op.event, version |-> op.version, st |-> "shown"]
<1>3. x \in EntryStates /\ x.event = op.event /\ x.st = "shown"
  BY <1>2 DEF EntryStates
<1>4. entries' = [entries EXCEPT ![g] = x]
  BY DEF MakeEntry
<1> HIDE DEF x
<1>5. /\ entries' \in [EntryIds -> EntryStates] /\ entries'[g] = x
      /\ \A h \in EntryIds : h # g => entries'[h] = entries[h]
  BY <1>1, <1>3, <1>4, EntryChanges
<1>6. g \notin Used /\ Used' = Used \cup {g} /\ Shown' = Shown \cup {g}
  BY <1>3, <1>5 DEF Used, Shown, IsNextEntry
<1>7. \A h \in Used : entries'[h] = entries[h]
  BY <1>5, <1>6 DEF Used
<1>8. Scheduled' = Scheduled
  BY DEF Scheduled
<1>9. MirrorTypeOK'
  BY <1>1, <1>5 DEF MirrorTypeOK, EntryStates
<1>10. RowsNameEntries' /\ LostIsEmpty'
  BY <1>6, <1>7 DEF MirrorInv, RowsNameEntries, LostIsEmpty
<1>11. EntriesHaveRows'
  BY <1>1, <1>2, <1>3, <1>5, <1>6, <1>7 DEF MirrorInv, EntriesHaveRows, PlannedFromRow
<1>12. LiveIsCurrent'
  BY <1>1, <1>3, <1>5, <1>6, <1>7, <1>8
     DEF MirrorInv, LiveIsCurrent, AtWork, PlannedFromRow
<1>13. PlanIsCurrent'
  BY <1>6, <1>7, <1>8 DEF MirrorInv, PlanIsCurrent, PlannedFromRow
<1>14. PushIsCurrent'
  <2> SUFFICES ASSUME sync'.at = "stamping" PROVE PushIsCurrent'
    BY DEF PushIsCurrent
  <2>1. /\ sync'.op.event = op.event /\ sync'.op.kind = "insert"
        /\ sync'.op.id = g /\ sync'.op.version = op.version
    BY <1>1 DEF Ops
  <2> QED  BY <1>1, <1>2, <1>3, <1>5, <1>6, <2>1 DEF PushIsCurrent, PlannedFromRow
<1>15. EntriesNamed'
  BY <1>5, <1>6 DEF MirrorInv, EntriesNamed, Shown
<1> QED
  BY <1>9, <1>10, <1>11, <1>12, <1>13, <1>14, <1>15 DEF MirrorInv

\* An entry that is there shows something else, or is taken off.
LEMMA OneEntryChanges ==
    ASSUME MirrorInv, NEW g \in Used, NEW x \in EntryStates,
           entries' = [entries EXCEPT ![g] = x],
           x.event = entries[g].event, x.st # "unused",
           x.st = "shown" => g \in Shown,
           UNCHANGED <<rows, calendar, astray>>
    PROVE  /\ entries' \in [EntryIds -> EntryStates] /\ entries'[g] = x
           /\ Used' = Used /\ Shown' \subseteq Shown /\ Scheduled' = Scheduled
           /\ \A h \in EntryIds : h # g => entries'[h] = entries[h]
           /\ \A h \in Used : entries'[h].event = entries[h].event
           /\ RowsNameEntries' /\ EntriesHaveRows' /\ LostIsEmpty' /\ EntriesNamed'
<1>1. MirrorTypeOK /\ g \in EntryIds
  BY DEF MirrorInv, Used
<1>2. /\ entries' \in [EntryIds -> EntryStates] /\ entries'[g] = x
      /\ \A h \in EntryIds : h # g => entries'[h] = entries[h]
  BY <1>1, EntryChanges
<1>3. Used' = Used /\ Shown' \subseteq Shown /\ Scheduled' = Scheduled
  BY <1>2 DEF Used, Shown, Scheduled
<1>4. \A h \in Used : entries'[h].event = entries[h].event
  BY <1>2 DEF Used
<1>5. RowsNameEntries' /\ EntriesHaveRows' /\ LostIsEmpty'
  BY <1>3, <1>4 DEF MirrorInv, RowsNameEntries, EntriesHaveRows, LostIsEmpty
<1>6. EntriesNamed'
  <2>1. Shown \subseteq Used
    BY DEF Shown, Used
  <2> QED  BY <1>3, <1>4, <2>1 DEF MirrorInv, EntriesNamed
<1> QED  BY <1>2, <1>3, <1>4, <1>5, <1>6

\* A patch or a delete is called, and has its stamp to come.
LEMMA MirrorInvPush ==
    ASSUME MirrorInv, NEW op \in sync.todo, Push(op)
    PROVE  MirrorInv'
<1>1. /\ MirrorTypeOK /\ op \in Ops /\ PlannedFromRow(op) /\ sync.at = "pushing"
      /\ UNCHANGED <<rows, calendar, setbacks>>
  BY MirrorFields DEF MirrorInv, PlanIsCurrent, Push
<1>2. CASE /\ op.kind = "insert" /\ calendar = "kept"
           /\ \E g \in EntryIds :
                /\ IsNextEntry(g)
                /\ MakeEntry(g, op)
                /\ astray' = astray \cup {g}
                /\ sync' = [sync EXCEPT !.at = "stamping", !.op = [op EXCEPT !.id = g]]
  <2>1. PICK g \in EntryIds :
                /\ IsNextEntry(g)
                /\ MakeEntry(g, op)
                /\ astray' = astray \cup {g}
                /\ sync' = [sync EXCEPT !.at = "stamping", !.op = [op EXCEPT !.id = g]]
    BY <1>2
  <2> DEFINE done == [op EXCEPT !.id = g]
  <2>2. done \in Ops
    BY <1>1 DEF Ops
  <2> HIDE DEF done
  <2>3. sync' = [sync EXCEPT !.at = "stamping", !.op = done]
    BY <2>1 DEF done
  <2>4. /\ sync' \in MirrorRuns /\ sync'.at = "stamping" /\ sync'.op = done
        /\ sync'.live = sync.live /\ sync'.todo = sync.todo
    BY <1>1, <2>2, <2>3, MirrorFields DEF MirrorRuns
  <2>5. setbacks' \in 0..MaxSetbacks
    BY <1>1 DEF MirrorTypeOK
  <2> QED  BY <1>1, <1>2, <2>1, <2>4, <2>5, NewEntry DEF done
<1>3. CASE /\ op.kind \in {"patch", "delete"} /\ UNCHANGED astray
           /\ sync' = [sync EXCEPT !.at = "stamping", !.op = op]
           /\ \/ /\ op.kind = "patch" /\ op.id \in Shown
                 /\ entries' = [entries EXCEPT ![op.id].version = op.version]
              \/ /\ op.kind = "delete"
                 /\ entries' = [entries EXCEPT ![op.id].st = "gone"]
  <2>1. /\ sync' \in MirrorRuns /\ sync'.at = "stamping" /\ sync'.op = op
        /\ sync'.live = sync.live /\ sync'.todo = sync.todo
    BY <1>1, <1>3, MirrorFields DEF MirrorRuns
  <2>2. /\ op.id \in Used /\ op.id \in EntryIds /\ entries[op.id].event = op.event
        /\ op.version \in Versions /\ op.event \in Events
        /\ rows[op.event].id = op.id \/ rows[op.event].st = "deleted"
    BY <1>1, <1>3 DEF PlannedFromRow, Used, Ops
  <2>3. \E x \in EntryStates :
          /\ entries' = [entries EXCEPT ![op.id] = x]
          /\ x.event = entries[op.id].event /\ x.st # "unused"
          /\ x.st = "shown" => op.id \in Shown
          /\ op.kind = "delete" => x.st = "gone"
    <3>1. entries[op.id] \in EntryStates
      BY <1>1, <2>2, MirrorFields
    <3>2. CASE /\ op.kind = "patch" /\ op.id \in Shown
               /\ entries' = [entries EXCEPT ![op.id].version = op.version]
      <4> DEFINE x == [entries[op.id] EXCEPT !.version = op.version]
      <4>1. entries' = [entries EXCEPT ![op.id] = x]
        BY <3>2
      <4>2. /\ x \in EntryStates /\ x.event = entries[op.id].event
            /\ x.st = entries[op.id].st
        BY <2>2, <3>1 DEF EntryStates
      <4>3. x.st # "unused"
        BY <3>2, <4>2 DEF Shown
      <4> HIDE DEF x
      <4> QED  BY <3>2, <4>1, <4>2, <4>3
    <3>3. CASE /\ op.kind = "delete"
               /\ entries' = [entries EXCEPT ![op.id].st = "gone"]
      <4> DEFINE x == [entries[op.id] EXCEPT !.st = "gone"]
      <4>1. entries' = [entries EXCEPT ![op.id] = x]
        BY <3>3
      <4>2. x \in EntryStates /\ x.event = entries[op.id].event /\ x.st = "gone"
        BY <2>2, <3>1 DEF EntryStates
      <4> HIDE DEF x
      <4> QED  BY <3>3, <4>1, <4>2
    <3> QED  BY <1>3, <3>2, <3>3
  <2>4. PICK x \in EntryStates :
          /\ entries' = [entries EXCEPT ![op.id] = x]
          /\ x.event = entries[op.id].event /\ x.st # "unused"
          /\ x.st = "shown" => op.id \in Shown
          /\ op.kind = "delete" => x.st = "gone"
    BY <2>3
  <2>5. /\ entries' \in [EntryIds -> EntryStates] /\ entries'[op.id] = x
        /\ Used' = Used /\ Scheduled' = Scheduled
        /\ \A h \in Used : entries'[h].event = entries[h].event
        /\ RowsNameEntries' /\ EntriesHaveRows' /\ LostIsEmpty' /\ EntriesNamed'
    BY <1>1, <1>3, <2>2, <2>4, OneEntryChanges
  <2>6. MirrorTypeOK'
    BY <1>1, <1>3, <2>1, <2>5 DEF MirrorTypeOK, EntryStates
  <2>7. LiveIsCurrent' /\ PlanIsCurrent'
    BY <1>1, <2>1, <2>5
       DEF MirrorInv, LiveIsCurrent, AtWork, PlanIsCurrent, PlannedFromRow
  <2>8. PushIsCurrent'
    BY <1>1, <1>3, <2>1, <2>2, <2>4, <2>5 DEF PushIsCurrent
  <2> QED  BY <2>5, <2>6, <2>7, <2>8 DEF MirrorInv
<1> QED  BY <1>2, <1>3 DEF Push

LEMMA MirrorInvPushFails ==
    ASSUME MirrorInv, NEW op \in sync.todo, PushFails(op)
    PROVE  MirrorInv'
<1>1. MirrorTypeOK /\ setbacks' \in 0..MaxSetbacks
  BY DEF MirrorInv, MirrorTypeOK, PushFails
<1>2. /\ sync' \in MirrorRuns /\ sync.at = "pushing" /\ sync'.at = "pushing"
      /\ sync'.live = sync.live /\ sync'.todo \subseteq sync.todo
  BY <1>1, MirrorFields DEF PushFails, MirrorRuns
<1> QED  BY <1>1, <1>2, MirrorInvIdle DEF PushFails

LEMMA MirrorInvUnanswered ==
    ASSUME MirrorInv, NEW op \in sync.todo, InsertUnanswered(op)
    PROVE  MirrorInv'
<1>1. MirrorTypeOK
  BY DEF MirrorInv
<1>2. setbacks' \in 0..MaxSetbacks
  BY <1>1, MirrorAssumption DEF MirrorTypeOK, InsertUnanswered
<1>3. /\ sync' \in MirrorRuns /\ sync.at = "pushing" /\ sync'.at = "pushing"
      /\ sync'.live = sync.live /\ sync'.todo \subseteq sync.todo
  BY <1>1, MirrorFields DEF InsertUnanswered, MirrorRuns
<1>4. PICK g \in EntryIds : IsNextEntry(g) /\ MakeEntry(g, op) /\ astray' = astray \cup {g}
  BY DEF InsertUnanswered
<1> QED  BY <1>2, <1>3, <1>4, NewEntry DEF InsertUnanswered

\* The row names what was pushed; another operation is of another event.
LEMMA MirrorInvStamp ==
    ASSUME MirrorInv, Stamp
    PROVE  MirrorInv'
<1> DEFINE op == sync.op
           e == op.event
<1>1. /\ MirrorTypeOK /\ sync.at = "stamping"
      /\ UNCHANGED <<entries, calendar, setbacks>>
  BY DEF MirrorInv, Stamp
<1>2. /\ e \in Events /\ op.kind \in {"insert", "patch", "delete"}
      /\ op.id \in Used /\ op.id \in EntryIds /\ entries[op.id].event = e
      /\ op.version \in Versions
      /\ op.kind = "insert" => rows[e].id = None
      /\ op.kind # "insert" => rows[e].id = op.id \/ rows[e].st = "deleted"
      /\ op.kind = "delete" => op.id \notin Shown
  BY <1>1 DEF MirrorInv, PushIsCurrent, Used, Shown
<1>3. /\ sync' \in MirrorRuns /\ sync'.at = "pushing" /\ sync'.live = sync.live
      /\ sync'.todo = {o \in sync.todo : o.event # e}
  <2> DEFINE rest == {o \in sync.todo : o.event # e}
  <2>1. rest \subseteq Ops
    BY <1>1, MirrorFields
  <2>2. sync' = [sync EXCEPT !.at = "pushing", !.op = NoOp, !.todo = rest]
    BY DEF Stamp
  <2> HIDE DEF rest
  <2>3. sync' \in MirrorRuns /\ sync'.at = "pushing" /\ sync'.live = sync.live /\ sync'.todo = rest
    BY <1>1, <2>1, <2>2, MirrorFields DEF MirrorRuns
  <2> QED  BY <2>3 DEF rest
<1>4. Used' = Used /\ Shown' = Shown
  BY <1>1 DEF Used, Shown
<1>5. \/ /\ rows[e].st = "deleted" /\ rows' = rows /\ astray' = astray
      \/ /\ rows[e].st # "deleted" /\ astray' = astray \ {op.id}
         /\ rows' \in [Events -> EventRows] /\ rows'[e].st = rows[e].st
         /\ rows'[e].id = IF op.kind = "delete" THEN None ELSE op.id
         /\ \A o \in Events : o # e => rows'[o] = rows[o]
  <2>1. CASE rows[e].st = "deleted"
    BY <2>1 DEF Stamp
  <2>2. CASE rows[e].st # "deleted"
    <3> DEFINE id == IF op.kind = "delete" THEN None ELSE op.id
               fp == IF op.kind = "delete" THEN None ELSE op.version
    <3>1. Stamped(op).id = id /\ Stamped(op).fp = fp
      BY DEF Stamped
    <3>2. id \in EntryIds \cup {None} /\ fp \in Versions \cup {None}
      BY <1>2
    <3>3. /\ rows' = [rows EXCEPT ![e].id = Stamped(op).id, ![e].fp = Stamped(op).fp]
          /\ astray' = astray \ {op.id}
      BY <2>2 DEF Stamp
    <3> HIDE DEF id, fp
    <3>4. rows'[e] = [rows[e] EXCEPT !.id = id, !.fp = fp]
      BY <1>1, <1>2, <3>1, <3>3, MirrorFields
    <3>5. rows'[e] \in EventRows /\ rows'[e].st = rows[e].st /\ rows'[e].id = id
      BY <1>1, <1>2, <3>2, <3>4, MirrorFields DEF EventRows
    <3>6. \A o \in Events : o # e => rows'[o] = rows[o]
      BY <1>1, <3>3, MirrorFields
    <3>7. rows' \in [Events -> EventRows]
      BY <1>1, <3>3, <3>5, <3>6, MirrorFields
    <3> QED  BY <2>2, <3>3, <3>5, <3>6, <3>7 DEF id
  <2> QED  BY <2>1, <2>2
<1> HIDE DEF op, e
<1>6. Scheduled' = Scheduled
  BY <1>2, <1>5 DEF Scheduled
<1>7. MirrorTypeOK'
  BY <1>1, <1>3, <1>5 DEF MirrorTypeOK
<1>8. RowsNameEntries' /\ EntriesHaveRows' /\ LostIsEmpty'
  BY <1>1, <1>2, <1>4, <1>5 DEF MirrorInv, RowsNameEntries, EntriesHaveRows, LostIsEmpty
<1>9. LiveIsCurrent' /\ PushIsCurrent'
  BY <1>1, <1>3, <1>4, <1>6 DEF MirrorInv, LiveIsCurrent, AtWork, PushIsCurrent
<1>10. PlanIsCurrent'
  <2> SUFFICES ASSUME NEW o \in sync'.todo PROVE PlannedFromRow(o)'
    BY <1>3 DEF PlanIsCurrent
  <2>1. o \in sync.todo /\ o.event # e /\ o.event \in Events
    BY <1>1, <1>3, MirrorFields DEF Ops
  <2>2. rows'[o.event] = rows[o.event]
    BY <1>5, <2>1
  <2>3. PlannedFromRow(o)
    BY <1>1, <2>1 DEF MirrorInv, PlanIsCurrent
  <2> QED  BY <1>1, <1>3, <1>4, <1>6, <2>2, <2>3 DEF PlannedFromRow
<1>11. EntriesNamed'
  <2> SUFFICES ASSUME NEW g \in Shown, g \notin astray'
               PROVE  \/ rows'[entries[g].event].id = g
                      \/ rows'[entries[g].event].st = "deleted"
    BY <1>1, <1>4 DEF EntriesNamed
  <2>1. entries[g].event \in Events
    BY DEF MirrorInv, EntriesHaveRows, Used, Shown
  <2>2. g \notin astray => \/ rows[entries[g].event].id = g
                           \/ rows[entries[g].event].st = "deleted"
    BY DEF MirrorInv, EntriesNamed
  <2>3. g \in EntryIds /\ g # None
    BY <1>1, MirrorFields DEF Shown
  <2> QED  BY <1>2, <1>5, <2>1, <2>2, <2>3
<1> QED  BY <1>7, <1>8, <1>9, <1>10, <1>11 DEF MirrorInv

LEMMA MirrorInvListManaged ==
    ASSUME MirrorInv, ListManaged
    PROVE  MirrorInv'
<1> DEFINE orphans == {g \in Shown : entries[g].event \notin sync.live}
<1>1. /\ MirrorTypeOK /\ sync.at = "pushing"
      /\ UNCHANGED <<rows, entries, calendar, astray, setbacks>>
  BY DEF MirrorInv, ListManaged
<1>2. orphans \subseteq Used /\ orphans \subseteq EntryIds
  BY DEF Shown, Used
<1>3. \A g \in orphans : entries[g].event \notin sync.live
  OBVIOUS
<1>4. sync' = [sync EXCEPT !.at = "sweeping", !.sweep = orphans]
  BY DEF ListManaged
<1> HIDE DEF orphans
<1>5. /\ sync' \in MirrorRuns /\ sync'.at = "sweeping"
      /\ sync'.live = sync.live /\ sync'.sweep = orphans
  BY <1>1, <1>2, <1>4, MirrorFields DEF MirrorRuns
<1>6. Used' = Used /\ Shown' = Shown /\ Scheduled' = Scheduled
  BY <1>1 DEF Used, Shown, Scheduled
<1>7. MirrorTypeOK'
  BY <1>1, <1>5 DEF MirrorTypeOK
<1>8. RowsNameEntries' /\ EntriesHaveRows' /\ LostIsEmpty' /\ EntriesNamed'
  BY <1>1, <1>6
     DEF MirrorInv, RowsNameEntries, EntriesHaveRows, LostIsEmpty, EntriesNamed
<1>9. LiveIsCurrent' /\ PlanIsCurrent' /\ PushIsCurrent'
  BY <1>1, <1>2, <1>3, <1>5, <1>6
     DEF MirrorInv, LiveIsCurrent, AtWork, PlanIsCurrent, PushIsCurrent
<1> QED  BY <1>7, <1>8, <1>9 DEF MirrorInv

LEMMA MirrorInvDeleteOrphan ==
    ASSUME MirrorInv, NEW g \in sync.sweep, DeleteOrphan(g)
    PROVE  MirrorInv'
<1>1. /\ MirrorTypeOK /\ sync.at = "sweeping"
      /\ UNCHANGED <<rows, calendar, astray, setbacks>>
  BY DEF MirrorInv, DeleteOrphan
<1>2. g \in Used /\ g \in EntryIds
  BY <1>1 DEF MirrorInv, PlanIsCurrent, Used
<1>3. /\ sync' \in MirrorRuns /\ sync'.at = "sweeping"
      /\ sync'.live = sync.live /\ sync'.sweep \subseteq sync.sweep
  BY <1>1, MirrorFields DEF DeleteOrphan, MirrorRuns
<1> DEFINE x == [entries[g] EXCEPT !.st = "gone"]
<1>4. x \in EntryStates /\ x.event = entries[g].event /\ x.st = "gone"
  BY <1>1, <1>2, MirrorFields DEF EntryStates
<1>5. entries' = [entries EXCEPT ![g] = x]
  BY DEF DeleteOrphan
<1> HIDE DEF x
<1>6. /\ entries' \in [EntryIds -> EntryStates]
      /\ Used' = Used /\ Scheduled' = Scheduled
      /\ \A h \in Used : entries'[h].event = entries[h].event
      /\ RowsNameEntries' /\ EntriesHaveRows' /\ LostIsEmpty' /\ EntriesNamed'
  BY <1>1, <1>2, <1>4, <1>5, OneEntryChanges
<1>7. MirrorTypeOK'
  BY <1>1, <1>3, <1>6 DEF MirrorTypeOK, EntryStates
<1>8. LiveIsCurrent' /\ PlanIsCurrent' /\ PushIsCurrent'
  BY <1>1, <1>3, <1>6
     DEF MirrorInv, LiveIsCurrent, AtWork, PlanIsCurrent, PushIsCurrent
<1> QED  BY <1>6, <1>7, <1>8 DEF MirrorInv

\* People change one event: an entry of it is not made by that, and what the
\* run read of it stays true of what it does next.
LEMMA MirrorInvEvents ==
    ASSUME MirrorInv, EventChanges
    PROVE  MirrorInv'
<1>1. MirrorTypeOK /\ UNCHANGED <<entries, calendar, sync, astray, setbacks>>
  BY DEF MirrorInv, EventChanges
<1>2. PICK e \in Events : CreateEvent(e) \/ EditEvent(e) \/ CancelEvent(e) \/ DropEvent(e)
  BY DEF EventChanges
<1>3. \E r \in EventRows :
        /\ rows' = [rows EXCEPT ![e] = r] /\ r.st # "none"
        /\ r.id = rows[e].id \/ (r.st = "deleted" /\ r.id = None)
        /\ r.st = "scheduled" => rows[e].st \in {"none", "scheduled"}
        /\ rows[e].st # "deleted"
  <2>1. rows[e] \in EventRows
    BY <1>1, MirrorFields
  <2>2. CASE CreateEvent(e)
    <3> DEFINE r == [rows[e] EXCEPT !.st = "scheduled"]
    <3>1. rows' = [rows EXCEPT ![e] = r] /\ rows[e].st = "none"
      BY <2>2 DEF CreateEvent
    <3>2. r \in EventRows /\ r.st = "scheduled" /\ r.id = rows[e].id
      BY <2>1 DEF EventRows
    <3> HIDE DEF r
    <3> QED  BY <3>1, <3>2
  <2>3. CASE EditEvent(e)
    <3> DEFINE v == rows[e].version + 1
               r == [rows[e] EXCEPT !.version = v]
    <3>1. rows' = [rows EXCEPT ![e] = r] /\ rows[e].st = "scheduled"
      BY <2>3 DEF EditEvent
    <3>2. v \in Versions
      BY <2>1, <2>3, MirrorAssumption DEF EditEvent, EventRows, Versions
    <3>3. r \in EventRows /\ r.st = rows[e].st /\ r.id = rows[e].id
      <4> HIDE DEF v
      <4> QED  BY <2>1, <3>2 DEF EventRows
    <3> HIDE DEF r
    <3> QED  BY <3>1, <3>3
  <2>4. CASE CancelEvent(e)
    <3> DEFINE r == [rows[e] EXCEPT !.st = "cancelled"]
    <3>1. rows' = [rows EXCEPT ![e] = r] /\ rows[e].st = "scheduled"
      BY <2>4 DEF CancelEvent
    <3>2. r \in EventRows /\ r.st = "cancelled" /\ r.id = rows[e].id
      BY <2>1 DEF EventRows
    <3> HIDE DEF r
    <3> QED  BY <3>1, <3>2
  <2>5. CASE DropEvent(e)
    <3> DEFINE r == [st |-> "deleted", version |-> 0, id |-> None, fp |-> None]
    <3>1. rows' = [rows EXCEPT ![e] = r] /\ rows[e].st \in {"scheduled", "cancelled"}
      BY <2>5 DEF DropEvent
    <3>2. r \in EventRows /\ r.st = "deleted" /\ r.id = None
      BY MirrorAssumption DEF EventRows, Versions
    <3> HIDE DEF r
    <3> QED  BY <3>1, <3>2
  <2> QED  BY <1>2, <2>2, <2>3, <2>4, <2>5
<1>4. PICK r \in EventRows :
        /\ rows' = [rows EXCEPT ![e] = r] /\ r.st # "none"
        /\ r.id = rows[e].id \/ (r.st = "deleted" /\ r.id = None)
        /\ r.st = "scheduled" => rows[e].st \in {"none", "scheduled"}
        /\ rows[e].st # "deleted"
  BY <1>3
<1>5. /\ rows' \in [Events -> EventRows] /\ rows'[e] = r
      /\ \A o \in Events : o # e => rows'[o] = rows[o]
  BY <1>1, <1>4, MirrorFields
<1>6. Used' = Used /\ Shown' = Shown
  BY <1>1 DEF Used, Shown
<1>7. \A o \in Events : /\ o \in Scheduled' => o \in Scheduled \/ rows[o].st = "none"
                        /\ rows[o].st = "deleted" => rows'[o].st = "deleted"
                        /\ rows[o].st # "none" => rows'[o].st # "none"
                        /\ rows'[o].id = rows[o].id
                             \/ (rows'[o].st = "deleted" /\ rows'[o].id = None)
  BY <1>4, <1>5 DEF Scheduled
<1>8. MirrorTypeOK'
  BY <1>1, <1>5 DEF MirrorTypeOK
<1>9. RowsNameEntries' /\ EntriesHaveRows' /\ LostIsEmpty'
  BY <1>1, <1>6, <1>7 DEF MirrorInv, RowsNameEntries, EntriesHaveRows, LostIsEmpty
<1>10. LiveIsCurrent'
  BY <1>1, <1>6, <1>7 DEF MirrorInv, LiveIsCurrent, AtWork, EntriesHaveRows
<1>11. PlanIsCurrent'
  <2>1. ASSUME NEW op \in sync.todo, PlannedFromRow(op) PROVE PlannedFromRow(op)'
    <3>1. op.event \in Events
      BY <1>1, MirrorFields DEF Ops
    <3> QED  BY <1>1, <1>6, <1>7, <2>1, <3>1 DEF PlannedFromRow
  <2> QED  BY <1>1, <1>6, <2>1 DEF MirrorInv, PlanIsCurrent
<1>12. PushIsCurrent'
  BY <1>1, <1>6, <1>7 DEF MirrorInv, PushIsCurrent
<1>13. EntriesNamed'
  <2>1. \A g \in Shown : entries[g].event \in Events
    BY DEF MirrorInv, EntriesHaveRows, Used, Shown
  <2> QED  BY <1>1, <1>6, <1>7, <2>1 DEF MirrorInv, EntriesNamed
<1> QED  BY <1>8, <1>9, <1>10, <1>11, <1>12, <1>13 DEF MirrorInv

LEMMA MirrorInvRemoveCalendar ==
    ASSUME MirrorInv, RemoveCalendar
    PROVE  MirrorInv'
<1>1. MirrorTypeOK /\ UNCHANGED <<rows, sync, astray>> /\ calendar' = "lost"
  BY DEF MirrorInv, RemoveCalendar
<1>2. setbacks' \in 0..MaxSetbacks
  BY <1>1, MirrorAssumption DEF MirrorTypeOK, RemoveCalendar
<1>3. ASSUME NEW g \in EntryIds
      PROVE  /\ entries'[g] \in EntryStates /\ entries'[g].event = entries[g].event
             /\ entries'[g].st # "shown"
             /\ entries'[g].st = "unused" <=> entries[g].st = "unused"
             /\ entries[g].st = "gone" => entries'[g].st = "gone"
  <2>1. entries'[g] = IF g \in Shown THEN [entries[g] EXCEPT !.st = "gone"] ELSE entries[g]
    BY DEF RemoveCalendar
  <2>2. entries[g] \in EntryStates
    BY <1>1, MirrorFields
  <2> QED  BY <2>1, <2>2 DEF Shown, EntryStates
<1>4. entries' \in [EntryIds -> EntryStates]
  <2>1. entries' = [g \in EntryIds |-> entries'[g]]
    BY DEF RemoveCalendar
  <2> QED  BY <1>3, <2>1
<1>5. Used' = Used /\ Shown' = {} /\ Scheduled' = Scheduled
  BY <1>1, <1>3 DEF Used, Shown, Scheduled
<1>6. \A g \in Used : entries'[g].event = entries[g].event /\ g \in EntryIds
  BY <1>3 DEF Used
<1>7. MirrorTypeOK'
  BY <1>1, <1>2, <1>4 DEF MirrorTypeOK, EntryStates
<1>8. RowsNameEntries' /\ EntriesHaveRows' /\ LostIsEmpty' /\ EntriesNamed'
  BY <1>1, <1>5, <1>6
     DEF MirrorInv, RowsNameEntries, EntriesHaveRows, LostIsEmpty, EntriesNamed
<1>9. LiveIsCurrent' /\ PlanIsCurrent'
  BY <1>1, <1>5, <1>6
     DEF MirrorInv, LiveIsCurrent, AtWork, PlanIsCurrent, PlannedFromRow
<1>10. PushIsCurrent'
  BY <1>1, <1>3, <1>5, <1>6 DEF MirrorInv, PushIsCurrent
<1> QED  BY <1>7, <1>8, <1>9, <1>10 DEF MirrorInv

LEMMA MirrorInvStep == MirrorInv /\ [MirrorNext]_mirrorVars => MirrorInv'
<1> SUFFICES ASSUME MirrorInv, [MirrorNext]_mirrorVars PROVE MirrorInv'
  OBVIOUS
<1>1. CASE StartSync \/ CreateCalendar \/ EndSync \/ CrashSync
  BY <1>1, MirrorInvStart
<1>2. CASE ReadEvents        BY <1>2, MirrorInvRead
<1>3. CASE Stamp             BY <1>3, MirrorInvStamp
<1>4. CASE ListManaged       BY <1>4, MirrorInvListManaged
<1>5. CASE \E op \in sync.todo : Push(op) \/ PushFails(op) \/ InsertUnanswered(op)
  BY <1>5, MirrorInvPush, MirrorInvPushFails, MirrorInvUnanswered
<1>6. CASE \E g \in sync.sweep : DeleteOrphan(g)
  BY <1>6, MirrorInvDeleteOrphan
<1>7. CASE EventChanges      BY <1>7, MirrorInvEvents
<1>8. CASE RemoveCalendar    BY <1>8, MirrorInvRemoveCalendar
<1>9. CASE UNCHANGED mirrorVars
  BY <1>9 DEF mirrorVars, MirrorInv, MirrorTypeOK, RowsNameEntries, EntriesHaveRows,
              LostIsEmpty, LiveIsCurrent, AtWork, PlanIsCurrent, PlannedFromRow,
              PushIsCurrent, EntriesNamed, Used, Shown, Scheduled
<1> QED
  BY <1>1, <1>2, <1>3, <1>4, <1>5, <1>6, <1>7, <1>8, <1>9 DEF MirrorNext, MirrorStep

-----------------------------------------------------------------------------
(* The theorems.                                                           *)

\* The inductive invariant: what a run read and planned is still true of what
\* it does with it.
THEOREM MirrorInvariance == MirrorSpec => []MirrorInv
<1> QED  BY MirrorInvInit, MirrorInvStep, PTL DEF MirrorSpec

\* The variables of the mirror keep their types.
THEOREM MirrorTypeCorrect == MirrorSpec => []MirrorTypeOK
<1>1. MirrorInv => MirrorTypeOK
  BY DEF MirrorInv
<1> QED  BY <1>1, MirrorInvariance, PTL

\* An entry whose stamp was written is the one its event's row names, unless
\* the event was deleted (calendar_sync.py _apply: the call, then the stamp).
THEOREM EntriesKeepTheirNames == MirrorSpec => []EntriesNamed
<1>1. MirrorInv => EntriesNamed
  BY DEF MirrorInv
<1> QED  BY <1>1, MirrorInvariance, PTL

\* No run takes the entry of a scheduled event off the calendar, by a planned
\* delete or by the sweep (calendar_sync.py plan_ops, orphans).
THEOREM LiveEntriesAreKept == MirrorSpec => LiveEntriesStay
<1> DEFINE Stay == \A g \in Shown :
                     entries'[g].st = "gone" => \/ entries[g].event \notin Scheduled
                                               \/ calendar' = "lost"
<1>1. MirrorInv /\ [MirrorNext]_mirrorVars => Stay
  <2> SUFFICES ASSUME MirrorInv, [MirrorNext]_mirrorVars, NEW g \in Shown,
                      entries'[g].st = "gone", calendar' # "lost"
               PROVE  entries[g].event \notin Scheduled
    OBVIOUS
  <2>1. MirrorTypeOK /\ g \in EntryIds /\ entries[g].st = "shown" /\ g \in Used
    BY DEF MirrorInv, Shown, Used
  <2>2. entries' # entries
    BY <2>1
  <2>3. CASE \E op \in sync.todo : Push(op)
    <3>1. PICK op \in sync.todo : Push(op)
      BY <2>3
    <3>2. PlannedFromRow(op) /\ op \in Ops
      BY <2>1, <3>1, MirrorFields DEF MirrorInv, PlanIsCurrent, Push
    <3>3. CASE op.kind = "insert"
      <4>1. PICK h \in EntryIds : MakeEntry(h, op)
        BY <3>1, <3>3 DEF Push
      <4> QED  BY <2>1, <4>1, MirrorFields DEF MakeEntry
    <3>4. CASE op.kind = "patch"
      BY <2>1, <3>1, <3>4, MirrorFields DEF Push, EntryStates
    <3>5. CASE op.kind = "delete"
      <4>1. entries' = [entries EXCEPT ![op.id].st = "gone"]
        BY <3>1, <3>5 DEF Push
      <4>2. op.id = g
        BY <2>1, <4>1, MirrorFields
      <4> QED  BY <3>2, <3>5, <4>2 DEF PlannedFromRow
    <3> QED  BY <3>2, <3>3, <3>4, <3>5 DEF Ops
  <2>4. CASE \E op \in sync.todo : InsertUnanswered(op)
    <3>1. PICK op \in sync.todo, h \in EntryIds : MakeEntry(h, op)
      BY <2>4 DEF InsertUnanswered
    <3> QED  BY <2>1, <3>1, MirrorFields DEF MakeEntry
  <2>5. CASE \E h \in sync.sweep : DeleteOrphan(h)
    <3>1. PICK h \in sync.sweep : DeleteOrphan(h)
      BY <2>5
    <3>2. h = g
      BY <2>1, <3>1, MirrorFields DEF DeleteOrphan
    <3>3. entries[g].event \notin sync.live
      BY <3>1, <3>2 DEF MirrorInv, PlanIsCurrent, DeleteOrphan
    <3> QED  BY <2>1, <3>1, <3>3 DEF MirrorInv, LiveIsCurrent, AtWork, DeleteOrphan
  <2>6. ~RemoveCalendar
    BY DEF RemoveCalendar
  <2>7. ~StartSync /\ ~CreateCalendar /\ ~ReadEvents /\ ~Stamp /\ ~ListManaged /\ ~EndSync
    BY <2>2 DEF StartSync, CreateCalendar, ReadEvents, Stamp, ListManaged, EndSync
  <2>8. ~CrashSync /\ ~EventChanges /\ ~UNCHANGED mirrorVars
    BY <2>2 DEF CrashSync, EventChanges, mirrorVars
  <2>9. ~(\E op \in sync.todo : PushFails(op))
    BY <2>2 DEF PushFails
  <2> QED  BY <2>3, <2>4, <2>5, <2>6, <2>7, <2>8, <2>9 DEF MirrorNext, MirrorStep
<1> QED  BY <1>1, MirrorInvariance, PTL DEF MirrorSpec, LiveEntriesStay

-----------------------------------------------------------------------------
(* How many entries an event can have.                                     *)

\* An entry of the event is in Google, and its id not on the row yet.
Inserting(e) ==
    sync.at = "stamping" /\ sync.op.kind = "insert" /\ sync.op.event = e

\* The run has an entry of the event to make.
ToInsert(e) ==
    /\ sync.at \in {"pushing", "stamping"} /\ ~Inserting(e)
    /\ \E op \in sync.todo : op.kind = "insert" /\ op.event = e

\* No entry that is shown is the row's, or about to be.
Vacant(e) ==
    rows[e].st # "deleted" /\ rows[e].id \notin ShownFor(e) /\ ~Inserting(e)

\* One entry is made in good order; any other took a setback.
CountedFor(e) ==
    /\ Cardinality(ShownFor(e)) <= 1 + setbacks
    /\ Vacant(e) \/ ToInsert(e) => Cardinality(ShownFor(e)) <= setbacks
    /\ Inserting(e) /\ calendar = "kept" => sync.op.id \in Shown

\* The inductive invariant of the count.
EntriesCounted == \A e \in Events : CountedFor(e)

LEMMA ShownIsFinite ==
    ASSUME NEW A \in SUBSET EntryIds
    PROVE  IsFiniteSet(A) /\ Cardinality(A) \in Nat /\ (A = {} => Cardinality(A) = 0)
<1>1. IsFiniteSet(EntryIds)
  BY MirrorAssumption, FS_Interval DEF EntryIds
<1>2. IsFiniteSet(A)
  BY <1>1, FS_Subset
<1> QED  BY <1>2, FS_CardinalityType, FS_EmptySet

LEMMA CountingEntries ==
    ASSUME NEW A \in SUBSET EntryIds, NEW B \in SUBSET EntryIds, NEW g
    PROVE  /\ B \subseteq A => Cardinality(B) <= Cardinality(A)
           /\ g \in A /\ B \subseteq A \ {g} => Cardinality(B) + 1 <= Cardinality(A)
           /\ B \subseteq A \cup {g} => Cardinality(B) <= Cardinality(A) + 1
<1>1. /\ IsFiniteSet(A) /\ Cardinality(A) \in Nat
      /\ IsFiniteSet(B) /\ Cardinality(B) \in Nat
  BY ShownIsFinite
<1>2. ASSUME B \subseteq A PROVE Cardinality(B) <= Cardinality(A)
  BY <1>1, <1>2, FS_Subset
<1>3. ASSUME g \in A, B \subseteq A \ {g} PROVE Cardinality(B) + 1 <= Cardinality(A)
  <2> DEFINE C == A \ {g}
  <2>1. IsFiniteSet(C) /\ Cardinality(C) = Cardinality(A) - 1
    BY <1>1, <1>3, FS_RemoveElement
  <2>2. B \in SUBSET C
    BY <1>3
  <2> HIDE DEF C
  <2>3. Cardinality(B) <= Cardinality(C)
    BY <2>1, <2>2, FS_Subset
  <2> QED  BY <1>1, <2>1, <2>3
<1>4. ASSUME B \subseteq A \cup {g} PROVE Cardinality(B) <= Cardinality(A) + 1
  <2> DEFINE C == A \cup {g}
  <2>1. /\ IsFiniteSet(C)
        /\ Cardinality(C) = IF g \in A THEN Cardinality(A) ELSE Cardinality(A) + 1
    BY <1>1, FS_AddElement
  <2>2. B \in SUBSET C
    BY <1>4
  <2> HIDE DEF C
  <2>3. Cardinality(B) <= Cardinality(C)
    BY <2>1, <2>2, FS_Subset
  <2> QED  BY <1>1, <2>1, <2>3
<1> QED  BY <1>2, <1>3, <1>4

\* What the steps below use of the count of one event.
LEMMA CountFacts ==
    ASSUME MirrorInv, EntriesCounted, NEW e \in Events
    PROVE  /\ CountedFor(e) /\ setbacks \in Nat
           /\ ShownFor(e) \in SUBSET EntryIds /\ Cardinality(ShownFor(e)) \in Nat
           /\ ShownFor(e) \subseteq Shown
<1>1. ShownFor(e) \in SUBSET EntryIds /\ ShownFor(e) \subseteq Shown
  BY DEF ShownFor, Shown
<1>2. setbacks \in Nat
  BY DEF MirrorInv, MirrorTypeOK
<1> QED  BY <1>1, <1>2, ShownIsFinite DEF EntriesCounted

\* A calendar without entries.
LEMMA CountedEmpty ==
    ASSUME NEW e \in Events, Shown = {}, setbacks \in Nat, calendar # "kept"
    PROVE  CountedFor(e)
<1>1. ShownFor(e) = {}
  BY DEF ShownFor
<1>2. Cardinality(ShownFor(e)) = 0
  BY <1>1, ShownIsFinite
<1> QED  BY <1>2 DEF CountedFor

\* The calendar stays as it is, and nothing is vacant or to be made that was not.
LEMMA CountedQuiet ==
    ASSUME MirrorInv, EntriesCounted, NEW e \in Events,
           entries' = entries, setbacks' \in {setbacks, setbacks + 1},
           \/ Vacant(e)' \/ ToInsert(e)' => Vacant(e) \/ ToInsert(e)
           \/ setbacks' = setbacks + 1,
           Inserting(e)' => Inserting(e) /\ UNCHANGED <<calendar, sync>>
    PROVE  CountedFor(e)'
<1>1. /\ CountedFor(e) /\ setbacks \in Nat /\ Cardinality(ShownFor(e)) \in Nat
  BY CountFacts
<1>2. ShownFor(e)' = ShownFor(e) /\ Shown' = Shown
  BY DEF ShownFor, Shown
<1> QED  BY <1>1, <1>2 DEF CountedFor

LEMMA CountedStart ==
    ASSUME MirrorInv, EntriesCounted, NEW e \in Events,
           StartSync \/ CreateCalendar \/ EndSync \/ CrashSync
    PROVE  CountedFor(e)'
<1>1. setbacks \in Nat
  BY CountFacts
<1>2. CASE StartSync /\ calendar = "lost"
  <2>1. UNCHANGED <<entries, calendar, setbacks>>
    BY <1>2 DEF StartSync
  <2>2. Shown' = {} /\ calendar' # "kept" /\ setbacks' \in Nat
    BY <1>1, <1>2, <2>1 DEF Shown, MirrorInv, LostIsEmpty
  <2>3. ShownFor(e)' = {}
    BY <2>2 DEF ShownFor
  <2>4. Cardinality(ShownFor(e)') = 0
    BY <2>3, ShownIsFinite
  <2>5. setbacks' \in Nat
    BY <2>2
  <2>6. \A n \in Nat : 0 <= n /\ 0 <= 1 + n
    OBVIOUS
  <2> QED  BY <2>2, <2>4, <2>5, <2>6, Zenon DEF CountedFor
<1>3. CASE (StartSync /\ calendar # "lost") \/ CreateCalendar \/ EndSync
  <2>1. /\ UNCHANGED <<rows, entries, setbacks>>
        /\ sync'.at \notin {"pushing", "stamping"} /\ ~Inserting(e)
    <3>1. CASE StartSync /\ calendar # "lost"
      BY <3>1, StoppedIsASync DEF StartSync, Inserting
    <3>2. CASE CreateCalendar
      BY <3>2, MirrorFields DEF MirrorInv, CreateCalendar, Inserting, MirrorRuns
    <3>3. CASE EndSync
      BY <3>3, StoppedIsASync DEF EndSync, Inserting
    <3> QED  BY <1>3, <3>1, <3>2, <3>3
  <2>2. ~Inserting(e)' /\ ~ToInsert(e)'
    BY <2>1 DEF Inserting, ToInsert
  <2>3. Vacant(e)' => Vacant(e)
    BY <2>1 DEF Vacant, ShownFor, Shown
  <2> QED  BY <2>1, <2>2, <2>3, CountedQuiet
<1>4. CASE CrashSync
  <2>1. entries' = entries /\ setbacks' = setbacks + 1 /\ sync'.at = "stopped"
    BY <1>4, StoppedIsASync DEF CrashSync
  <2> QED  BY <2>1, CountedQuiet DEF Inserting
<1> QED  BY <1>2, <1>3, <1>4

LEMMA CountedRead ==
    ASSUME MirrorInv, EntriesCounted, NEW e \in Events, ReadEvents, MirrorInv'
    PROVE  CountedFor(e)'
<1>1. UNCHANGED <<rows, entries, calendar, setbacks>> /\ sync.at = "ready"
  BY DEF ReadEvents
<1>2. sync'.at = "pushing"
  BY MirrorFields DEF MirrorInv, ReadEvents, MirrorRuns
<1>3. ~Inserting(e)' /\ ~Inserting(e)
  BY <1>1, <1>2 DEF Inserting
<1>4. ToInsert(e)' => Vacant(e)
  <2> SUFFICES ASSUME NEW op \in sync'.todo, op.kind = "insert", op.event = e
               PROVE  Vacant(e)
    BY DEF ToInsert
  <2>1. PlannedFromRow(op)'
    BY <1>2 DEF MirrorInv, PlanIsCurrent
  <2>2. rows[e].id = None /\ e \in sync'.live
    BY <1>1, <2>1 DEF PlannedFromRow
  <2>3. sync'.live = Scheduled
    BY MirrorFields DEF MirrorInv, ReadEvents, MirrorRuns
  <2>4. None \notin ShownFor(e)
    BY MirrorFields DEF MirrorInv, ShownFor, Shown
  <2> QED  BY <1>3, <2>2, <2>3, <2>4 DEF Vacant, Scheduled
<1>5. Vacant(e)' => Vacant(e)
  BY <1>1, <1>3 DEF Vacant, ShownFor, Shown
<1> QED  BY <1>1, <1>3, <1>4, <1>5, CountedQuiet

\* A run that goes on without touching the calendar or a row.
LEMMA CountedOn ==
    ASSUME MirrorInv, EntriesCounted, NEW e \in Events,
           ListManaged \/ \E op \in sync.todo : PushFails(op)
    PROVE  CountedFor(e)'
<1>1. /\ UNCHANGED <<rows, entries, calendar, setbacks>> /\ sync.at = "pushing"
      /\ sync'.at \in {"pushing", "sweeping"} /\ sync'.todo \subseteq sync.todo
  <2>1. CASE ListManaged
    BY <2>1, MirrorFields DEF MirrorInv, ListManaged, MirrorRuns
  <2>2. CASE \E op \in sync.todo : PushFails(op)
    BY <2>2, MirrorFields DEF MirrorInv, PushFails, MirrorRuns
  <2> QED  BY <2>1, <2>2
<1>2. ~Inserting(e)' /\ ~Inserting(e)
  BY <1>1 DEF Inserting
<1>3. ToInsert(e)' => ToInsert(e)
  BY <1>1, <1>2 DEF ToInsert
<1>4. Vacant(e)' => Vacant(e)
  BY <1>1, <1>2 DEF Vacant, ShownFor, Shown
<1> QED  BY <1>1, <1>2, <1>3, <1>4, CountedQuiet

\* An entry more, and either its stamp to come or a setback to its account.
LEMMA CountedNew ==
    ASSUME MirrorInv, EntriesCounted, NEW e \in Events, NEW op \in sync.todo,
           op.kind = "insert", sync.at = "pushing",
           NEW g \in EntryIds, IsNextEntry(g), MakeEntry(g, op),
           rows' = rows, sync'.todo \subseteq sync.todo,
           \/ /\ setbacks' = setbacks /\ sync'.at = "stamping"
              /\ sync'.op = [op EXCEPT !.id = g]
           \/ setbacks' = setbacks + 1 /\ sync'.at = "pushing"
    PROVE  CountedFor(e)'
<1>1. /\ CountedFor(e) /\ setbacks \in Nat /\ ShownFor(e) \in SUBSET EntryIds
      /\ Cardinality(ShownFor(e)) \in Nat
  BY CountFacts
<1>2. MirrorTypeOK /\ op \in Ops
  BY MirrorFields DEF MirrorInv
<1>3. /\ entries'[g].st = "shown" /\ entries'[g].event = op.event
      /\ \A h \in EntryIds : h # g => entries'[h] = entries[h]
  BY <1>2, MirrorFields DEF MakeEntry
<1>4. entries[g].st = "unused"
  BY DEF IsNextEntry
<1>5. Shown' = Shown \cup {g}
  BY <1>3, <1>4 DEF Shown
<1>6. ~Inserting(e)
  BY DEF Inserting
<1>7. ASSUME sync'.at = "stamping", sync'.op = [op EXCEPT !.id = g]
      PROVE  sync'.op.event = op.event /\ sync'.op.kind = "insert" /\ sync'.op.id = g
  BY <1>2, <1>7 DEF Ops
<1>8. CASE op.event = e
  <2>1. ToInsert(e)
    BY <1>6, <1>8 DEF ToInsert
  <2>2. ShownFor(e)' \subseteq ShownFor(e) \cup {g} /\ ShownFor(e)' \in SUBSET EntryIds
    BY <1>3 DEF ShownFor, Shown
  <2>3. Cardinality(ShownFor(e)') <= Cardinality(ShownFor(e)) + 1
    BY <1>1, <2>2, CountingEntries
  <2>4. Cardinality(ShownFor(e)') \in Nat
    BY <2>2, ShownIsFinite
  <2>5. Cardinality(ShownFor(e)) <= setbacks
    BY <1>1, <2>1 DEF CountedFor
  <2>6. CASE setbacks' = setbacks + 1 /\ sync'.at = "pushing"
    BY <1>1, <2>3, <2>4, <2>5, <2>6 DEF CountedFor, Inserting
  <2>7. CASE /\ setbacks' = setbacks /\ sync'.at = "stamping"
             /\ sync'.op = [op EXCEPT !.id = g]
    <3>1. Inserting(e)' /\ sync'.op.id \in Shown'
      BY <1>5, <1>7, <1>8, <2>7 DEF Inserting
    <3>2. ~Vacant(e)' /\ ~ToInsert(e)'
      BY <3>1 DEF Vacant, ToInsert
    <3> QED  BY <1>1, <2>3, <2>4, <2>5, <2>7, <3>1, <3>2 DEF CountedFor
  <2> QED  BY <2>6, <2>7
<1>9. CASE op.event # e
  <2>1. ShownFor(e)' = ShownFor(e)
    BY <1>3, <1>4, <1>9 DEF ShownFor, Shown
  <2>2. ~Inserting(e)'
    BY <1>7, <1>9 DEF Inserting
  <2>3. ToInsert(e)' => ToInsert(e)
    BY <1>6, <2>2 DEF ToInsert
  <2>4. Vacant(e)' => Vacant(e)
    BY <1>6, <2>1 DEF Vacant
  <2> QED  BY <1>1, <2>1, <2>2, <2>3, <2>4 DEF CountedFor
<1> QED  BY <1>8, <1>9

\* An entry is taken off.
LEMMA CountedGone ==
    ASSUME MirrorInv, EntriesCounted, NEW e \in Events, NEW g \in EntryIds,
           entries' = [entries EXCEPT ![g].st = "gone"],
           UNCHANGED <<rows, setbacks>>, ~Inserting(e)', ~Inserting(e),
           ToInsert(e)' => ToInsert(e)
    PROVE  CountedFor(e)'
<1>1. /\ CountedFor(e) /\ setbacks \in Nat /\ ShownFor(e) \in SUBSET EntryIds
      /\ Cardinality(ShownFor(e)) \in Nat
  BY CountFacts
<1>2. /\ entries'[g].st = "gone"
      /\ \A h \in EntryIds : h # g => entries'[h] = entries[h]
  <2>1. entries \in [EntryIds -> EntryStates] /\ entries[g] \in EntryStates
    BY MirrorFields DEF MirrorInv
  <2> QED  BY <2>1 DEF EntryStates
<1>3. ShownFor(e)' = ShownFor(e) \ {g} /\ ShownFor(e)' \in SUBSET EntryIds
  BY <1>2 DEF ShownFor, Shown
<1>4. /\ Cardinality(ShownFor(e)') <= Cardinality(ShownFor(e))
      /\ g \in ShownFor(e) => Cardinality(ShownFor(e)') + 1 <= Cardinality(ShownFor(e))
      /\ Cardinality(ShownFor(e)') \in Nat
  BY <1>1, <1>3, CountingEntries, ShownIsFinite
<1>5. CASE g \in ShownFor(e)
  BY <1>1, <1>4, <1>5 DEF CountedFor
<1>6. CASE g \notin ShownFor(e)
  <2>1. Vacant(e)' => Vacant(e)
    BY <1>3, <1>6 DEF Vacant
  <2> QED  BY <1>1, <1>4, <2>1 DEF CountedFor
<1> QED  BY <1>5, <1>6

LEMMA CountedPush ==
    ASSUME MirrorInv, EntriesCounted, NEW e \in Events, NEW op \in sync.todo,
           Push(op) \/ InsertUnanswered(op)
    PROVE  CountedFor(e)'
<1>1. MirrorTypeOK /\ op \in Ops /\ sync.at = "pushing" /\ rows' = rows
  BY MirrorFields DEF MirrorInv, Push, InsertUnanswered
<1>2. PlannedFromRow(op)
  BY <1>1 DEF MirrorInv, PlanIsCurrent
<1>3. CASE InsertUnanswered(op)
  <2>1. /\ sync'.todo \subseteq sync.todo /\ sync'.at = "pushing"
        /\ setbacks' = setbacks + 1 /\ op.kind = "insert"
    BY <1>1, <1>3, MirrorFields DEF InsertUnanswered, MirrorRuns
  <2>2. PICK g \in EntryIds : IsNextEntry(g) /\ MakeEntry(g, op)
    BY <1>3 DEF InsertUnanswered
  <2> QED  BY <1>1, <2>1, <2>2, CountedNew
<1>4. CASE Push(op) /\ op.kind = "insert"
  <2>1. setbacks' = setbacks
    BY <1>4 DEF Push
  <2>2. PICK g \in EntryIds :
          /\ IsNextEntry(g) /\ MakeEntry(g, op)
          /\ sync' = [sync EXCEPT !.at = "stamping", !.op = [op EXCEPT !.id = g]]
    BY <1>4 DEF Push
  <2> DEFINE done == [op EXCEPT !.id = g]
  <2>3. sync' = [sync EXCEPT !.at = "stamping", !.op = done]
    BY <2>2
  <2> HIDE DEF done
  <2>4. sync'.todo = sync.todo /\ sync'.at = "stamping" /\ sync'.op = done
    BY <1>1, <2>3, MirrorFields DEF MirrorRuns
  <2>5. sync'.op = [op EXCEPT !.id = g]
    BY <2>4 DEF done
  <2> QED  BY <1>1, <1>4, <2>1, <2>2, <2>4, <2>5, CountedNew
<1>5. CASE Push(op) /\ op.kind # "insert"
  <2>1. /\ UNCHANGED <<calendar, setbacks>>
        /\ sync' = [sync EXCEPT !.at = "stamping", !.op = op]
    BY <1>5 DEF Push
  <2>2. sync'.at = "stamping" /\ sync'.op = op /\ sync'.todo = sync.todo
    BY <1>1, <2>1, MirrorFields DEF MirrorRuns
  <2>3. ~Inserting(e)' /\ ~Inserting(e)
    BY <1>1, <1>5, <2>2 DEF Inserting
  <2>4. ToInsert(e)' => ToInsert(e)
    BY <1>1, <2>2, <2>3 DEF ToInsert
  <2>5. op.id \in EntryIds
    BY <1>2, <1>5 DEF PlannedFromRow, Used
  <2>6. CASE op.kind = "delete"
    <3>1. entries' = [entries EXCEPT ![op.id].st = "gone"]
      BY <1>5, <2>6 DEF Push
    <3> QED  BY <1>1, <2>1, <2>3, <2>4, <2>5, <3>1, CountedGone
  <2>7. CASE op.kind = "patch"
    <3>1. entries' = [entries EXCEPT ![op.id].version = op.version]
      BY <1>5, <2>7 DEF Push
    <3>2. entries \in [EntryIds -> EntryStates] /\ entries[op.id] \in EntryStates
      BY <1>1, <2>5, MirrorFields
    <3>3. \A h \in EntryIds : /\ entries'[h].st = entries[h].st
                              /\ entries'[h].event = entries[h].event
      BY <2>5, <3>1, <3>2 DEF EntryStates
    <3>4. ShownFor(e)' = ShownFor(e)
      BY <3>3 DEF ShownFor, Shown
    <3>5. Vacant(e)' => Vacant(e)
      BY <1>1, <2>3, <3>4 DEF Vacant
    <3>6. CountedFor(e)
      BY CountFacts
    <3> QED  BY <2>1, <2>3, <2>4, <3>4, <3>5, <3>6 DEF CountedFor
  <2> QED  BY <1>1, <1>5, <2>6, <2>7 DEF Ops
<1> QED  BY <1>3, <1>4, <1>5

\* The row names what was made; a stamp that clears it follows a delete.
LEMMA CountedStamp ==
    ASSUME MirrorInv, EntriesCounted, NEW e \in Events, Stamp
    PROVE  CountedFor(e)'
<1>1. /\ MirrorTypeOK /\ sync.at = "stamping"
      /\ UNCHANGED <<entries, calendar, setbacks>>
  BY DEF MirrorInv, Stamp
<1>2. /\ CountedFor(e) /\ setbacks \in Nat /\ Cardinality(ShownFor(e)) \in Nat
  BY CountFacts
<1>3. ShownFor(e)' = ShownFor(e) /\ Shown' = Shown
  BY <1>1 DEF ShownFor, Shown
<1>4. sync'.at = "pushing" /\ sync'.todo = {o \in sync.todo : o.event # sync.op.event}
  <2> DEFINE rest == {o \in sync.todo : o.event # sync.op.event}
  <2>1. sync' = [sync EXCEPT !.at = "pushing", !.op = NoOp, !.todo = rest]
    BY DEF Stamp
  <2> HIDE DEF rest
  <2>2. sync'.at = "pushing" /\ sync'.todo = rest
    BY <1>1, <2>1, MirrorFields DEF MirrorRuns
  <2> QED  BY <2>2 DEF rest
<1>5. ~Inserting(e)'
  BY <1>4 DEF Inserting
<1>6. CASE sync.op.event # e
  <2>1. rows'[e] = rows[e]
    BY <1>1, <1>6, MirrorFields DEF Stamp
  <2>2. ~Inserting(e)
    BY <1>6 DEF Inserting
  <2>3. Vacant(e)' => Vacant(e)
    BY <1>3, <2>1, <2>2 DEF Vacant
  <2>4. ToInsert(e)' => ToInsert(e)
    BY <1>1, <1>4, <2>2 DEF ToInsert
  <2> QED  BY <1>1, <1>5, <2>3, <2>4, CountedQuiet
<1>7. CASE sync.op.event = e
  <2>1. ~ToInsert(e)'
    BY <1>4, <1>7 DEF ToInsert
  <2>2. /\ sync.op.id \in Used /\ entries[sync.op.id].event = e
        /\ sync.op.kind \in {"insert", "patch", "delete"}
        /\ sync.op.kind # "insert" => rows[e].id = sync.op.id \/ rows[e].st = "deleted"
        /\ sync.op.kind = "delete" => sync.op.id \notin Shown
    BY <1>1, <1>7 DEF MirrorInv, PushIsCurrent, Shown
  <2>3. ASSUME rows[e].st = "deleted" PROVE ~Vacant(e)'
    <3>1. rows' = rows
      BY <1>7, <2>3 DEF Stamp
    <3> QED  BY <2>3, <3>1 DEF Vacant
  <2>4. ASSUME rows[e].st # "deleted"
        PROVE  /\ rows'[e].st = rows[e].st
               /\ rows'[e].id = IF sync.op.kind = "delete" THEN None ELSE sync.op.id
    <3>1. rows' = [rows EXCEPT ![e].id = Stamped(sync.op).id, ![e].fp = Stamped(sync.op).fp]
      BY <1>7, <2>4 DEF Stamp
    <3>2. Stamped(sync.op).id = IF sync.op.kind = "delete" THEN None ELSE sync.op.id
      BY DEF Stamped
    <3> DEFINE id == Stamped(sync.op).id
               fp == Stamped(sync.op).fp
    <3>3. rows'[e] = [rows[e] EXCEPT !.id = id, !.fp = fp]
      BY <1>1, <3>1, MirrorFields
    <3> HIDE DEF id, fp
    <3>4. rows'[e].st = rows[e].st /\ rows'[e].id = id
      BY <1>1, <3>3, MirrorFields DEF EventRows
    <3> QED  BY <3>2, <3>4 DEF id
  <2>5. CASE sync.op.kind = "insert"
    <3>1. CASE calendar = "kept"
      <4>1. sync.op.id \in ShownFor(e)
        BY <1>1, <1>2, <1>7, <2>2, <2>5, <3>1 DEF CountedFor, Inserting, ShownFor
      <4>2. ~Vacant(e)'
        BY <1>3, <2>3, <2>4, <2>5, <4>1 DEF Vacant
      <4> QED  BY <1>1, <1>5, <2>1, <4>2, CountedQuiet
    <3>2. CASE calendar # "kept"
      <4>1. ShownFor(e) = {}
        BY <3>2 DEF MirrorInv, LostIsEmpty, ShownFor
      <4>2. Cardinality(ShownFor(e)) = 0
        BY <4>1, ShownIsFinite
      <4> QED  BY <1>1, <1>2, <1>3, <1>5, <4>2 DEF CountedFor
    <3> QED  BY <3>1, <3>2
  <2>6. CASE sync.op.kind # "insert"
    <3>1. ~Inserting(e)
      BY <2>6 DEF Inserting
    <3>2. Vacant(e)' => Vacant(e)
      <4>1. CASE rows[e].st = "deleted"
        BY <2>3, <4>1
      <4>2. CASE rows[e].st # "deleted" /\ sync.op.kind = "patch"
        BY <1>3, <2>2, <2>4, <3>1, <4>2 DEF Vacant
      <4>3. CASE rows[e].st # "deleted" /\ sync.op.kind = "delete"
        BY <2>2, <3>1, <4>3 DEF Vacant, ShownFor
      <4> QED  BY <2>2, <2>6, <4>1, <4>2, <4>3
    <3> QED  BY <1>1, <1>5, <2>1, <3>2, CountedQuiet
  <2> QED  BY <2>5, <2>6
<1> QED  BY <1>6, <1>7

\* People change an event: its row names what it named, or is gone.
LEMMA CountedEvents ==
    ASSUME MirrorInv, EntriesCounted, NEW e \in Events, EventChanges
    PROVE  CountedFor(e)'
<1>1. MirrorTypeOK /\ UNCHANGED <<entries, calendar, sync, astray, setbacks>>
  BY DEF MirrorInv, EventChanges
<1>2. PICK o \in Events : CreateEvent(o) \/ EditEvent(o) \/ CancelEvent(o) \/ DropEvent(o)
  BY DEF EventChanges
<1>3. rows'[e].st # "deleted" => rows[e].st # "deleted" /\ rows'[e].id = rows[e].id
  <2>1. rows \in [Events -> EventRows] /\ rows[o] \in EventRows
    BY <1>1, MirrorFields
  <2>2. CASE CreateEvent(o)  BY <2>1, <2>2 DEF CreateEvent, EventRows
  <2>3. CASE EditEvent(o)    BY <2>1, <2>3 DEF EditEvent, EventRows
  <2>4. CASE CancelEvent(o)  BY <2>1, <2>4 DEF CancelEvent, EventRows
  <2>5. CASE DropEvent(o)    BY <2>1, <2>5 DEF DropEvent, EventRows
  <2> QED  BY <1>2, <2>2, <2>3, <2>4, <2>5
<1>4. ShownFor(e)' = ShownFor(e)
  BY <1>1 DEF ShownFor, Shown
<1>5. Inserting(e)' = Inserting(e) /\ ToInsert(e)' = ToInsert(e)
  BY <1>1 DEF Inserting, ToInsert
<1>6. Vacant(e)' => Vacant(e)
  BY <1>3, <1>4, <1>5 DEF Vacant
<1> QED  BY <1>1, <1>5, <1>6, CountedQuiet

LEMMA CountedRemoved ==
    ASSUME MirrorInv, NEW e \in Events, RemoveCalendar
    PROVE  CountedFor(e)'
<1>1. setbacks' \in Nat /\ calendar' = "lost"
  BY DEF RemoveCalendar, MirrorInv, MirrorTypeOK
<1>2. \A g \in EntryIds : entries'[g].st # "shown"
  <2> SUFFICES ASSUME NEW g \in EntryIds PROVE entries'[g].st # "shown"
    OBVIOUS
  <2>1. entries'[g] = IF g \in Shown THEN [entries[g] EXCEPT !.st = "gone"] ELSE entries[g]
    BY DEF RemoveCalendar
  <2>2. entries[g] \in EntryStates
    BY MirrorFields DEF MirrorInv
  <2> QED  BY <2>1, <2>2 DEF Shown, EntryStates
<1>3. ShownFor(e)' = {}
  BY <1>2 DEF ShownFor, Shown
<1>4. Cardinality(ShownFor(e)') = 0
  BY <1>3, ShownIsFinite
<1>5. \A n \in Nat : 0 <= n /\ 0 <= 1 + n
  OBVIOUS
<1>6. calendar' # "kept"
  BY <1>1
<1> QED  BY <1>1, <1>4, <1>5, <1>6, Zenon DEF CountedFor

LEMMA CountedInit == MirrorInit => EntriesCounted
<1> SUFFICES ASSUME MirrorInit, NEW e \in Events PROVE CountedFor(e)
  BY DEF EntriesCounted
<1>1. Shown = {} /\ calendar # "kept" /\ setbacks \in Nat
  BY DEF MirrorInit, Shown, Unused
<1> QED  BY <1>1, CountedEmpty

LEMMA CountedStep ==
    MirrorInv /\ MirrorInv' /\ EntriesCounted /\ [MirrorNext]_mirrorVars => EntriesCounted'
<1> SUFFICES ASSUME MirrorInv, MirrorInv', EntriesCounted, [MirrorNext]_mirrorVars,
                    NEW e \in Events
             PROVE  CountedFor(e)'
  BY DEF EntriesCounted
<1>1. CASE StartSync \/ CreateCalendar \/ EndSync \/ CrashSync
  BY <1>1, CountedStart
<1>2. CASE ReadEvents        BY <1>2, CountedRead
<1>3. CASE Stamp             BY <1>3, CountedStamp
<1>4. CASE ListManaged \/ \E op \in sync.todo : PushFails(op)
  BY <1>4, CountedOn
<1>5. CASE \E op \in sync.todo : Push(op) \/ InsertUnanswered(op)
  BY <1>5, CountedPush
<1>6. CASE \E g \in sync.sweep : DeleteOrphan(g)
  <2>1. PICK g \in sync.sweep : DeleteOrphan(g)
    BY <1>6
  <2>2. /\ UNCHANGED <<rows, setbacks>> /\ sync.at = "sweeping" /\ g \in EntryIds
        /\ entries' = [entries EXCEPT ![g].st = "gone"]
    BY <2>1, MirrorFields DEF MirrorInv, DeleteOrphan
  <2>3. sync'.at = "sweeping"
    BY <2>1, <2>2, MirrorFields DEF MirrorInv, DeleteOrphan, MirrorRuns
  <2> QED  BY <2>2, <2>3, CountedGone DEF Inserting, ToInsert
<1>7. CASE EventChanges      BY <1>7, CountedEvents
<1>8. CASE RemoveCalendar    BY <1>8, CountedRemoved
<1>9. CASE UNCHANGED mirrorVars
  BY <1>9 DEF mirrorVars, EntriesCounted, CountedFor, Vacant, ToInsert, Inserting,
              ShownFor, Shown
<1> QED
  BY <1>1, <1>2, <1>3, <1>4, <1>5, <1>6, <1>7, <1>8, <1>9 DEF MirrorNext, MirrorStep

\* An entry on the calendar is the one its event's row names, or its stamp never
\* came about, or its event was deleted; and an event has one entry, and one
\* more for each crash, lost answer or calendar removed, at the most
\* (calendar_sync.py _apply, _ensure_calendar).
THEOREM EntriesAreAccountedFor == MirrorSpec => []EntriesAccountedFor
<1>1. MirrorInv /\ EntriesCounted => EntriesAccountedFor
  BY DEF MirrorInv, EntriesCounted, CountedFor, EntriesAccountedFor
<1> QED
  BY <1>1, CountedInit, CountedStep, MirrorInvariance, PTL DEF MirrorSpec
=============================================================================
