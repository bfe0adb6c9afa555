---------------------------- MODULE EventRoster ----------------------------
(***************************************************************************)
(* The roster of one event (services/events.py): its slots, who fills      *)
(* them, the open substitution calls, and the "you have been scheduled"    *)
(* notices already on record, under the requests that change them.         *)
(*                                                                         *)
(* A request runs in one READ COMMITTED transaction.  It first reads rows  *)
(* and checks its rules against them, and writes later; other requests     *)
(* commit in between.  So a request is two steps (three where it takes a   *)
(* row lock, or writes twice with room for others between): the first      *)
(* reads, checks and remembers in txn[s] what the later ones rely on, the  *)
(* last writes and commits.  The last step tests only what the database    *)
(* tests there: guarded UPDATEs, row existence, unique indexes, CHECKs,    *)
(* foreign keys and row locks.                                             *)
(*                                                                         *)
(* The rows a request loaded stay as loaded for the whole transaction (the *)
(* session's identity map), which is why a later step that uses a loaded   *)
(* attribute uses txn[s], not the table.                                   *)
(*                                                                         *)
(* Row ids are serial and never reused.  The event's team and its          *)
(* membership do not change here.                                          *)
(***************************************************************************)
EXTENDS Naturals, FiniteSets

CONSTANTS
    Sessions,       \* requests that may be in flight at once
    Volunteers,
    Members,        \* volunteers on the event's team
    Managers,       \* volunteers whose account may manage the team
    SlotIds, AssignmentIds, SubIds,   \* bounds: rows each table may ever hold
    MaxCapacity,    \* bound: largest capacity a manager sets
    None            \* SQL NULL

ASSUME RosterAssumption ==
    /\ Members \subseteq Volunteers
    /\ Managers \subseteq Volunteers
    /\ MaxCapacity \in Nat \ {0}
    /\ None \notin Volunteers \cup SlotIds \cup AssignmentIds \cup SubIds
    /\ None \notin Nat
    /\ IsFiniteSet(AssignmentIds)

VARIABLES
    event,      \* "open", "past" (ended) or "cancelled"
    slots,      \* event_slot rows
    asgs,       \* event_assignment rows
    subs,       \* event_sub_request rows
    notified,   \* <<assignment, volunteer>>: event_scheduled notices recorded
    txn         \* the request each session is running

vars == <<event, slots, asgs, subs, notified, txn>>

Capacities == (1..MaxCapacity) \cup {None}     \* None: unlimited

SlotRows ==
    [st : {"unused", "live", "deleted"}, cap : Capacities]

AssignmentRows ==
    [st : {"unused", "live", "deleted"},
     slot : SlotIds \cup {None}, vol : Volunteers \cup {None}]

SubRows ==
    [st : {"unused", "open", "claimed", "cancelled", "deleted"},
     asg : AssignmentIds \cup {None},
     requester : Volunteers \cup {None}, claimant : Volunteers \cup {None}]

Requests ==
    [op : {"idle", "add_slot", "update_slot", "delete_slot", "sign_up",
           "assign", "assign_locked", "remove_assignment", "request_sub",
           "claim_sub", "substitute", "hand_over", "cancel_sub",
           "cancel_event", "update_event"},
     actor : Volunteers \cup {None},    \* who asks, where a later step or a
                                        \* property needs it
     slot : SlotIds \cup {None}, cap : Capacities,
     asg : AssignmentIds \cup {None}, sub : SubIds \cup {None},
     vol : Volunteers \cup {None},      \* who is put on the slot
     direct : BOOLEAN]                  \* NotifyMode.direct

Idle ==
    [op |-> "idle", actor |-> None, slot |-> None, cap |-> None,
     asg |-> None, sub |-> None, vol |-> None, direct |-> FALSE]

TypeOK ==
    /\ event \in {"open", "past", "cancelled"}
    /\ slots \in [SlotIds -> SlotRows]
    /\ asgs \in [AssignmentIds -> AssignmentRows]
    /\ subs \in [SubIds -> SubRows]
    /\ notified \subseteq AssignmentIds \X Volunteers
    /\ txn \in [Sessions -> Requests]

-----------------------------------------------------------------------------
(* Reading the tables.                                                     *)

LiveSlots == {k \in SlotIds : slots[k].st = "live"}

Roster == {a \in AssignmentIds : asgs[a].st = "live"}

On(k) == {a \in Roster : asgs[a].slot = k}

Occupied(k) == Cardinality(On(k))

IsServing(v) == \E a \in Roster : asgs[a].vol = v

OpenCalls == {c \in SubIds : subs[c].st = "open"}

OpenCallsOn(a) == {c \in OpenCalls : subs[c].asg = a}

\* The serial id the next INSERT takes: some id not used before.
IsNextId(table, i) ==
    /\ table[i].st = "unused"
    /\ i = CHOOSE j \in DOMAIN table : table[j].st = "unused"

Fits(n, cap) == cap # None => n <= cap

\* Broken: any member of the team passes.
OwnOrMember(u, a) == asgs[a].vol = u \/ u \in Members

OwnOrManaged(u, a) == asgs[a].vol = u \/ u \in Managers

\* The hand-over s has closed call c and has not committed: the call still
\* reads as open, and whoever would write its row waits.
Closing(s, c) == txn[s].op = "hand_over" /\ txn[s].sub = c

\* No request but s keeps one of these calls locked.
Writable(s, C) == \A t \in Sessions \ {s} : \A c \in C : ~Closing(t, c)

HoldsLock(s) == txn[s].op \in {"sign_up", "assign_locked"}

\* Broken: the SELECT takes no lock.
NeverLocked(s, k) == TRUE

\* No other request holds slot k's row lock (SELECT ... FOR UPDATE).
Unlocked(s, k) == \A t \in Sessions \ {s} : ~(HoldsLock(t) /\ txn[t].slot = k)

-----------------------------------------------------------------------------
(* Steps shared by the handlers.                                           *)

Begin(s, request) ==
    /\ txn[s].op = "idle"
    /\ txn' = [txn EXCEPT ![s] = request]
    /\ UNCHANGED <<event, slots, asgs, subs, notified>>

Commit(s) == txn' = [txn EXCEPT ![s] = Idle]

\* A refusal, a violated constraint, a deadlock victim, a lost connection:
\* the transaction rolls back and leaves nothing.
RollBack(s) ==
    /\ txn[s].op # "idle"
    /\ Commit(s)
    /\ UNCHANGED <<event, slots, asgs, subs, notified>>

\* DELETE of assignments by s, with the calls and notices that cascade.
DeleteAssignments(s, A) ==
    /\ Writable(s, {c \in SubIds : subs[c].asg \in A})
    /\ asgs' = [a \in AssignmentIds |->
                  IF a \in A THEN [st |-> "deleted", slot |-> None, vol |-> None]
                  ELSE asgs[a]]
    /\ subs' = [c \in SubIds |->
                  IF subs[c].asg \in A
                  THEN [st |-> "deleted", asg |-> None,
                        requester |-> None, claimant |-> None]
                  ELSE subs[c]]
    /\ notified' = {n \in notified : n[1] \notin A}

\* UPDATE ... SET status = 'cancelled' WHERE status = 'open', over a set.
CancelCalls(C) ==
    subs' = [c \in SubIds |->
               IF c \in C THEN [subs[c] EXCEPT !.st = "cancelled"] ELSE subs[c]]

\* Broken: no unique index behind the move.
MoveUnchecked(a, v) ==
    /\ a \in Roster
    /\ asgs' = [asgs EXCEPT ![a].vol = v]

\* UPDATE event_assignment SET volunteer_id by primary key: the row must
\* exist, and uq_event_assignment refuses a person already on the event.
MoveAssignment(a, v) ==
    /\ a \in Roster
    /\ \A b \in Roster \ {a} : asgs[b].vol # v
    /\ asgs' = [asgs EXCEPT ![a].vol = v]

Record(a, v) == notified' = notified \cup {<<a, v>>}

-----------------------------------------------------------------------------
(* Slots: add_slot, update_slot, delete_slot.                              *)

BeginAddSlot(s, u) ==
    /\ u \in Managers
    /\ event = "open"
    /\ \E cap \in Capacities :
         Begin(s, [Idle EXCEPT !.op = "add_slot", !.cap = cap])

AddSlot(s) ==
    /\ txn[s].op = "add_slot"
    /\ \E k \in SlotIds :
         /\ IsNextId(slots, k)
         /\ slots' = [slots EXCEPT ![k] = [st |-> "live", cap |-> txn[s].cap]]
    /\ Commit(s)
    /\ UNCHANGED <<event, asgs, subs, notified>>

\* Broken: the people already there are not counted.
BeginUpdateSlotUncounted(s, u, k) ==
    /\ u \in Managers
    /\ event = "open"
    /\ k \in LiveSlots
    /\ \E cap \in Capacities \ {slots[k].cap} :
         Begin(s, [Idle EXCEPT !.op = "update_slot", !.slot = k, !.cap = cap])

\* The count and the comparison with it come before the UPDATE, without the
\* row lock.  Setting the capacity the row already has writes nothing.
BeginUpdateSlot(s, u, k) ==
    /\ u \in Managers
    /\ event = "open"
    /\ k \in LiveSlots
    /\ \E cap \in Capacities \ {slots[k].cap} :
         /\ Fits(Occupied(k), cap)
         /\ Begin(s, [Idle EXCEPT !.op = "update_slot", !.slot = k, !.cap = cap])

UpdateSlot(s) ==
    LET k == txn[s].slot IN
    /\ txn[s].op = "update_slot"
    /\ k \in LiveSlots
    /\ Unlocked(s, k)
    /\ slots' = [slots EXCEPT ![k].cap = txn[s].cap]
    /\ Commit(s)
    /\ UNCHANGED <<event, asgs, subs, notified>>

\* Broken: the slot need not be empty.
BeginDeleteFilledSlot(s, u, k) ==
    /\ u \in Managers
    /\ event = "open"
    /\ k \in LiveSlots
    /\ \E other \in LiveSlots : other # k
    /\ Begin(s, [Idle EXCEPT !.op = "delete_slot", !.slot = k])

BeginDeleteSlot(s, u, k) ==
    /\ u \in Managers
    /\ event = "open"
    /\ k \in LiveSlots
    /\ Occupied(k) = 0
    /\ \E other \in LiveSlots : other # k
    /\ Begin(s, [Idle EXCEPT !.op = "delete_slot", !.slot = k])

\* The DELETE waits for the row lock; assignments made meanwhile cascade away.
\* A slot already gone matches no row, which is no error for a DELETE.
DeleteSlot(s) ==
    LET k == txn[s].slot IN
    /\ txn[s].op = "delete_slot"
    /\ Unlocked(s, k)
    /\ slots' = [slots EXCEPT ![k] = [st |-> "deleted", cap |-> None]]
    /\ DeleteAssignments(s, On(k))
    /\ Commit(s)
    /\ UNCHANGED event

-----------------------------------------------------------------------------
(* Joining a slot: sign_up and assign, through _join_slot.                 *)

\* sign_up: the slot is first read by SELECT ... FOR UPDATE, so the capacity
\* and the event's state are read with the lock held.
LockForSignUp(s, v, k) ==
    /\ k \in LiveSlots
    /\ Unlocked(s, k)
    /\ event = "open"
    /\ v \in Members
    /\ Begin(s, [Idle EXCEPT !.op = "sign_up", !.slot = k, !.vol = v,
                             !.cap = slots[k].cap])

\* assign: the slot and the event are loaded before the lock, and the locking
\* SELECT does not refresh a loaded row: the capacity used is this one.
BeginAssign(s, u, v, k) ==
    /\ u \in Managers
    /\ k \in LiveSlots
    /\ event = "open"
    /\ v \in Members
    /\ Begin(s, [Idle EXCEPT !.op = "assign", !.slot = k, !.vol = v,
                             !.cap = slots[k].cap])

LockForAssign(s) ==
    /\ txn[s].op = "assign"
    /\ txn[s].slot \in LiveSlots
    /\ Unlocked(s, txn[s].slot)
    /\ txn' = [txn EXCEPT ![s].op = "assign_locked"]
    /\ UNCHANGED <<event, slots, asgs, subs, notified>>

\* Count and INSERT under the lock.  "Already serving" is both a query and
\* uq_event_assignment.  Only a person who acted themselves is on record as told.
JoinSlot(s) ==
    LET k == txn[s].slot
        v == txn[s].vol
    IN
    /\ HoldsLock(s)
    /\ ~IsServing(v)
    /\ Fits(Occupied(k) + 1, txn[s].cap)
    /\ \E a \in AssignmentIds :
         /\ IsNextId(asgs, a)
         /\ asgs' = [asgs EXCEPT ![a] = [st |-> "live", slot |-> k, vol |-> v]]
         /\ IF txn[s].op = "sign_up" THEN Record(a, v) ELSE UNCHANGED notified
    /\ Commit(s)
    /\ UNCHANGED <<event, slots, subs>>

BeginRemoveAssignment(s, u, a) ==
    /\ a \in Roster
    /\ OwnOrManaged(u, a)
    /\ event = "open"
    /\ Begin(s, [Idle EXCEPT !.op = "remove_assignment", !.actor = u, !.asg = a])

\* DELETE by primary key, whoever holds the row by now.
RemoveAssignment(s) ==
    /\ txn[s].op = "remove_assignment"
    /\ DeleteAssignments(s, {txn[s].asg} \cap Roster)
    /\ Commit(s)
    /\ UNCHANGED <<event, slots>>

-----------------------------------------------------------------------------
(* Substitution calls: request_sub, claim_sub, substitute, cancel_sub.     *)

BeginRequestSub(s, u, a) ==
    /\ a \in Roster
    /\ OwnOrManaged(u, a)
    /\ event = "open"
    /\ OpenCallsOn(a) = {}
    /\ Begin(s, [Idle EXCEPT !.op = "request_sub", !.actor = u, !.asg = a])

\* Broken: only the query made earlier stands against a second open call.
RequestSubUnindexed(s) ==
    /\ txn[s].op = "request_sub"
    /\ txn[s].asg \in Roster
    /\ \E c \in SubIds :
         /\ IsNextId(subs, c)
         /\ subs' = [subs EXCEPT ![c] =
                       [st |-> "open", asg |-> txn[s].asg,
                        requester |-> txn[s].actor, claimant |-> None]]
    /\ Commit(s)
    /\ UNCHANGED <<event, slots, asgs, notified>>

\* uq_event_sub_request_open refuses a second open call on the assignment.
RequestSub(s) ==
    /\ txn[s].op = "request_sub"
    /\ txn[s].asg \in Roster
    /\ OpenCallsOn(txn[s].asg) = {}
    /\ \E c \in SubIds :
         /\ IsNextId(subs, c)
         /\ subs' = [subs EXCEPT ![c] =
                       [st |-> "open", asg |-> txn[s].asg,
                        requester |-> txn[s].actor, claimant |-> None]]
    /\ Commit(s)
    /\ UNCHANGED <<event, slots, asgs, notified>>

\* The call's own status is not read here: the guarded UPDATE decides.
BeginClaimSub(s, v, c) ==
    LET a == subs[c].asg IN
    /\ subs[c].st \in {"open", "claimed", "cancelled"}
    /\ event = "open"
    /\ v \in Members
    /\ ~IsServing(v)
    /\ Begin(s, [Idle EXCEPT !.op = "claim_sub", !.sub = c, !.asg = a,
                             !.vol = v])

ClaimSub(s) ==
    LET c == txn[s].sub
        v == txn[s].vol
    IN
    /\ txn[s].op = "claim_sub"
    /\ subs[c].st = "open" /\ Writable(s, {c})
    /\ subs' = [subs EXCEPT ![c].st = "claimed", ![c].claimant = v]
    /\ MoveAssignment(txn[s].asg, v)
    /\ Record(txn[s].asg, v)
    /\ Commit(s)
    /\ UNCHANGED <<event, slots>>

BeginSubstitute(s, u, a, v) ==
    /\ a \in Roster
    /\ OwnOrManaged(u, a)
    /\ event = "open"
    /\ v \in Members
    /\ ~IsServing(v)
    /\ \E direct \in BOOLEAN :
         Begin(s, [Idle EXCEPT !.op = "substitute", !.actor = u, !.asg = a,
                               !.vol = v, !.direct = direct])

\* UPDATE ... SET status = 'cancelled' of the call open by now.  Where there is
\* none nothing is locked, and one may still be opened before the row moves.
CloseCall(s) ==
    LET C == OpenCallsOn(txn[s].asg) IN
    /\ txn[s].op = "substitute"
    /\ Writable(s, C)
    /\ \/ /\ C = {}
          /\ txn' = [txn EXCEPT ![s].op = "hand_over"]
       \/ \E c \in C : txn' = [txn EXCEPT ![s].op = "hand_over", ![s].sub = c]
    /\ UNCHANGED <<event, slots, asgs, subs, notified>>

\* Broken: the open call is left standing.
HandOverKeepingCall(s) ==
    LET a == txn[s].asg
        v == txn[s].vol
    IN
    /\ txn[s].op = "hand_over"
    /\ MoveAssignment(a, v)
    /\ IF txn[s].direct THEN Record(a, v) ELSE UNCHANGED notified
    /\ Commit(s)
    /\ UNCHANGED <<event, slots, subs>>

\* Moves the row, whoever holds it by now; the commit cancels what was closed.
HandOver(s) ==
    LET a == txn[s].asg
        v == txn[s].vol
    IN
    /\ txn[s].op = "hand_over"
    /\ CancelCalls({txn[s].sub})
    /\ MoveAssignment(a, v)
    /\ IF txn[s].direct THEN Record(a, v) ELSE UNCHANGED notified
    /\ Commit(s)
    /\ UNCHANGED <<event, slots>>

\* Not frozen by the event's end or cancellation.
BeginCancelSub(s, u, c) ==
    /\ c \in OpenCalls
    /\ OwnOrManaged(u, subs[c].asg)
    /\ Begin(s, [Idle EXCEPT !.op = "cancel_sub", !.sub = c])

\* Broken: no CHECK, so the late cancel overwrites a claim.
CancelSubUnchecked(s) ==
    LET c == txn[s].sub IN
    /\ txn[s].op = "cancel_sub"
    /\ subs[c].st # "deleted"
    /\ CancelCalls({c})
    /\ Commit(s)
    /\ UNCHANGED <<event, slots, asgs, notified>>

\* An UPDATE by primary key, with no test of the status.  What stops it from
\* cancelling a call claimed meanwhile is ck_sub_request_claimant.
CancelSub(s) ==
    LET c == txn[s].sub IN
    /\ txn[s].op = "cancel_sub"
    /\ subs[c].st # "deleted" /\ Writable(s, {c})
    /\ subs[c].claimant = None
    /\ CancelCalls({c})
    /\ Commit(s)
    /\ UNCHANGED <<event, slots, asgs, notified>>

-----------------------------------------------------------------------------
(* The event itself: cancel_event, update_event, and the clock.            *)

BeginCancelEvent(s, u) ==
    /\ u \in Managers
    /\ event # "cancelled"
    /\ Begin(s, [Idle EXCEPT !.op = "cancel_event"])

\* Broken: the open calls outlive the event.
CancelEventOnly(s) ==
    /\ txn[s].op = "cancel_event"
    /\ event' = "cancelled"
    /\ Commit(s)
    /\ UNCHANGED <<slots, asgs, subs, notified>>

CancelEvent(s) ==
    /\ txn[s].op = "cancel_event"
    /\ Writable(s, OpenCalls)
    /\ event' = "cancelled"
    /\ CancelCalls(OpenCalls)
    /\ Commit(s)
    /\ UNCHANGED <<slots, asgs, notified>>

BeginUpdateEvent(s, u) ==
    /\ u \in Managers
    /\ event # "cancelled"
    /\ Begin(s, [Idle EXCEPT !.op = "update_event"])

\* New times may put a past event back in the future, or end it now; they do
\* not touch the status column.
UpdateEvent(s) ==
    /\ txn[s].op = "update_event"
    /\ IF event = "cancelled" THEN UNCHANGED event
       ELSE event' \in {"open", "past"}
    /\ Commit(s)
    /\ UNCHANGED <<slots, asgs, subs, notified>>

EventEnds ==
    /\ event = "open"
    /\ event' = "past"
    /\ UNCHANGED <<slots, asgs, subs, notified, txn>>

-----------------------------------------------------------------------------
(* create_event: at least one slot, nobody on it yet.                      *)
Init ==
    /\ event = "open"
    /\ \E K \in (SUBSET SlotIds) \ {{}} : \E cap \in [SlotIds -> Capacities] :
         slots = [k \in SlotIds |->
                    IF k \in K THEN [st |-> "live", cap |-> cap[k]]
                    ELSE [st |-> "unused", cap |-> None]]
    /\ asgs = [a \in AssignmentIds |->
                 [st |-> "unused", slot |-> None, vol |-> None]]
    /\ subs = [c \in SubIds |-> [st |-> "unused", asg |-> None,
                                 requester |-> None, claimant |-> None]]
    /\ notified = {}
    /\ txn = [s \in Sessions |-> Idle]

\* What a manager of the team asks for, and what a volunteer does.
ManagerRequest(s, u) ==
    \/ BeginAddSlot(s, u)
    \/ BeginCancelEvent(s, u)
    \/ BeginUpdateEvent(s, u)
    \/ \E k \in SlotIds :
         \/ BeginUpdateSlot(s, u, k)
         \/ BeginDeleteSlot(s, u, k)
         \/ \E v \in Volunteers : BeginAssign(s, u, v, k)

VolunteerRequest(s, u) ==
    \/ \E k \in SlotIds : LockForSignUp(s, u, k)
    \/ \E a \in AssignmentIds :
         \/ BeginRemoveAssignment(s, u, a)
         \/ BeginRequestSub(s, u, a)
         \/ \E v \in Volunteers : BeginSubstitute(s, u, a, v)
    \/ \E c \in SubIds : BeginClaimSub(s, u, c) \/ BeginCancelSub(s, u, c)

Continue(s) ==
    \/ AddSlot(s) \/ UpdateSlot(s) \/ DeleteSlot(s)
    \/ LockForAssign(s) \/ JoinSlot(s) \/ RemoveAssignment(s)
    \/ RequestSub(s) \/ ClaimSub(s) \/ CloseCall(s) \/ HandOver(s) \/ CancelSub(s)
    \/ CancelEvent(s) \/ UpdateEvent(s)
    \/ RollBack(s)

Next ==
    \/ EventEnds
    \/ \E s \in Sessions :
         \/ Continue(s)
         \/ \E u \in Volunteers : ManagerRequest(s, u) \/ VolunteerRequest(s, u)

Spec == Init /\ [][Next]_vars

-----------------------------------------------------------------------------
(* What holds however requests interleave.                                 *)

\* Nobody is on the event's roster twice: through sign-ups on two slots at
\* once, claims and hand-overs, only the unique index holds the line when the
\* "already serving" check was made against an older roster.
OneSlotPerPerson ==
    \A a, b \in Roster : asgs[a].vol = asgs[b].vol => a = b

\* At most one call is open per assignment, and every call on record belongs
\* to an assignment still on the roster, which sits on a slot that still exists.
CallsFollowRoster ==
    /\ \A c \in SubIds : subs[c].st \in {"open", "claimed", "cancelled"}
                           => subs[c].asg \in Roster
    /\ \A c, d \in OpenCalls : subs[c].asg = subs[d].asg => c = d
    /\ \A a \in Roster : asgs[a].slot \in LiveSlots

\* A call left open while its slot changes hands is up for grabs under the
\* name of somebody who no longer serves: a claim of it takes the slot from a
\* person who never asked.  No claim and no hand-over leaves one, but a
\* hand-over that found no open call when it looked for one to close, and that
\* moved the row after one had been opened.
CallEndsWithItsHolder ==
    [][\A c \in OpenCalls :
         (subs'[c].st = "open" /\ asgs'[subs[c].asg] # asgs[subs[c].asg])
           => \E s \in Sessions : /\ Closing(s, None)
                                 /\ txn[s].asg = subs[c].asg
                                 /\ txn'[s].op = "idle"]_vars

\* A sign-up never takes a slot past the capacity the slot has at that moment,
\* whatever other sign-ups, assignments and capacity edits are in flight.
SignUpWithinCapacity ==
    [][\A s \in Sessions :
         (txn[s].op = "sign_up" /\ txn'[s].op = "idle" /\ asgs' # asgs)
           => Fits(Cardinality({a \in Roster' : asgs'[a].slot = txn[s].slot}),
                   slots[txn[s].slot].cap)]_vars

\* Every call is opened once and resolved once, for good: SubCall!CallSpec.
Call == INSTANCE SubCall WITH
            status   <- [c \in SubIds |-> subs[c].st],
            claimant <- [c \in SubIds |-> subs[c].claimant]

CallsResolveOnce == Call!CallSpec

-----------------------------------------------------------------------------
(* What holds when requests do not overlap (one session).  Overlapping     *)
(* requests break each of these.                                           *)

\* No slot holds more people than its capacity.
CapacityRespected == \A k \in LiveSlots : Fits(Occupied(k), slots[k].cap)

\* An event keeps at least one slot, and removing a slot removes nobody.
SlotsKeepTheirPeople ==
    /\ LiveSlots # {}
    /\ [][LiveSlots' # {} /\
          \A k \in LiveSlots \ LiveSlots' : On(k) = {}]_vars

\* A person who does not manage the team takes only themselves off a slot:
\* withdrawing or handing over ends their own duty and nobody else's.
OwnSlotOnly ==
    [][\A s \in Sessions : \A a \in Roster :
         (/\ txn[s].op \in {"remove_assignment", "hand_over"}
          /\ txn'[s].op = "idle"
          /\ txn[s].actor \notin Managers
          /\ asgs'[a] # asgs[a])
           => asgs[a].vol = txn[s].actor]_vars

\* An open call was posted by the person now on the slot, or by a manager:
\* nobody's duty is up for grabs because a previous holder asked.
OpenCallIsTheHolders ==
    \A c \in OpenCalls : OwnOrManaged(subs[c].requester, subs[c].asg)

\* A cancelled event stays cancelled with its roster as it was, and no call on
\* it is open.
CancelledIsClosed ==
    /\ [](event = "cancelled" => OpenCalls = {})
    /\ [][event = "cancelled" => event' = "cancelled" /\ asgs' = asgs]_vars

\* A person put on a slot by a hand-over that mails nobody has no "scheduled"
\* notice on record, so that the nightly digest tells them.
HandedOverStartsUntold ==
    [][\A s \in Sessions :
         (txn[s].op = "hand_over" /\ ~txn[s].direct
            /\ txn'[s].op = "idle" /\ asgs' # asgs)
           => <<txn[s].asg, txn[s].vol>> \notin notified']_vars
=============================================================================
