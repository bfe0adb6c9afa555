------------------------- MODULE EventRosterProofs -------------------------
(***************************************************************************)
(* What TLAPS proves of EventRoster, for every number of requests, people, *)
(* slots, assignments and calls; and of EventSeries, for every number of   *)
(* weeks: sign-ups for a series never wait for one another in a circle.    *)
(***************************************************************************)
EXTENDS EventRoster, EventSeries, FiniteSetTheorems, TLAPS

\* What a request in flight remembers is of the kind its later steps use.
WellFormed(r) ==
    /\ r.op \in {"sign_up", "assign", "assign_locked", "claim_sub", "substitute",
                 "hand_over"} => r.vol \in Volunteers
    /\ r.op \in {"sign_up", "assign", "assign_locked", "update_slot",
                 "delete_slot"} => r.slot \in SlotIds
    /\ r.op \in {"request_sub", "claim_sub", "substitute", "hand_over"}
         => r.asg \in AssignmentIds
    /\ r.op \in {"claim_sub", "cancel_sub"} => r.sub \in SubIds
    /\ r.op = "substitute" => r.sub = None

\* A slot somebody has locked is there, and a sign-up knows its capacity.
Pinned(r) ==
    r.op \in {"sign_up", "assign_locked"}
      => /\ r.slot \in LiveSlots
         /\ r.op = "sign_up" => slots[r.slot].cap = r.cap

\* A call somebody is claiming or cancelling has been posted.
Posted(r) == r.op \in {"claim_sub", "cancel_sub"} => subs[r.sub].st # "unused"

\* A call a claim finds open is about the assignment the claim read with it,
\* and the call a hand-over closed stays open to everyone else, and about the
\* assignment it moves, until it commits.
SeesCall(r) ==
    /\ (r.op = "claim_sub" /\ subs[r.sub].st = "open")
         => subs[r.sub].asg = r.asg
    /\ (r.op = "hand_over" /\ r.sub # None)
         => r.sub \in OpenCalls /\ subs[r.sub].asg = r.asg

SoundRequest(r) == WellFormed(r) /\ Posted(r) /\ Pinned(r) /\ SeesCall(r)

\* A call is locked by one hand-over at most.
OneCloser ==
    \A s, t \in Sessions :
        (/\ txn[s].op = "hand_over" /\ txn[t].op = "hand_over"
         /\ txn[s].sub = txn[t].sub /\ txn[s].sub # None) => s = t

CallsOnRoster ==
    \A c \in SubIds : /\ subs[c].st \in {"open", "claimed", "cancelled"}
                           => subs[c].asg \in Roster
                      /\ subs[c].st \in {"unused", "deleted"}
                           => subs[c].asg = None

OneOpenCall == \A c, d \in OpenCalls : subs[c].asg = subs[d].asg => c = d

RosterOnSlots == \A a \in Roster : asgs[a].slot \in LiveSlots

\* ck_sub_request_claimant: a claimant is on record exactly on a claimed call.
ClaimantOnClaimed ==
    \A c \in SubIds : subs[c].claimant # None <=> subs[c].st = "claimed"

\* The inductive invariant.
RosterInv ==
    /\ TypeOK
    /\ \A s \in Sessions : SoundRequest(txn[s])
    /\ OneCloser
    /\ CallsOnRoster
    /\ OneOpenCall
    /\ RosterOnSlots
    /\ OneSlotPerPerson
    /\ ClaimantOnClaimed

-----------------------------------------------------------------------------
(* Facts about the shared steps.                                           *)

\* A session with no request in flight relies on nothing.
LEMMA IdleIsSound == Idle \in Requests /\ SoundRequest(Idle)
  BY RosterAssumption
  DEF Idle, Requests, Capacities, SoundRequest, WellFormed, Posted, Pinned,
      SeesCall

\* A request starts by recording itself, sound, in txn[s] and changes no table.
LEMMA FirstSteps ==
    ASSUME TypeOK, CallsOnRoster, NEW s \in Sessions, NEW u \in Volunteers,
           ManagerRequest(s, u) \/ VolunteerRequest(s, u)
    PROVE  /\ \E r \in Requests :
                /\ SoundRequest(r) /\ r.op # "hand_over"
                /\ txn' = [txn EXCEPT ![s] = r]
           /\ UNCHANGED <<event, slots, asgs, subs, notified>>
<1> DEFINE Goal == \E r \in Requests : /\ SoundRequest(r) /\ r.op # "hand_over"
                                       /\ txn' = [txn EXCEPT ![s] = r]
<1> USE IdleIsSound DEF Begin, SoundRequest, Posted, Pinned, SeesCall
<1>1. CASE BeginAddSlot(s, u)
  <2>1. PICK cap \in Capacities : Begin(s, [Idle EXCEPT !.op = "add_slot", !.cap = cap])
    BY <1>1 DEF BeginAddSlot
  <2>2. QED
    BY <2>1 DEF Requests, WellFormed, Idle
<1>2. CASE BeginCancelEvent(s, u)
  BY <1>2 DEF BeginCancelEvent, Requests, WellFormed, Idle
<1>3. CASE BeginUpdateEvent(s, u)
  BY <1>3 DEF BeginUpdateEvent, Requests, WellFormed, Idle
<1>4. ASSUME NEW k \in SlotIds, BeginUpdateSlot(s, u, k) PROVE Goal
  <2>1. PICK cap \in Capacities :
               Begin(s, [Idle EXCEPT !.op = "update_slot", !.slot = k, !.cap = cap])
    BY <1>4 DEF BeginUpdateSlot
  <2>2. QED
    BY <2>1 DEF Requests, WellFormed, Idle
<1>5. ASSUME NEW k \in SlotIds, BeginDeleteSlot(s, u, k) PROVE Goal
  BY <1>5 DEF BeginDeleteSlot, Requests, WellFormed, Idle
<1>6. ASSUME NEW k \in SlotIds, NEW v \in Volunteers, BeginAssign(s, u, v, k)
      PROVE  Goal
  <2> DEFINE r == [Idle EXCEPT !.op = "assign", !.slot = k, !.vol = v,
                               !.cap = slots[k].cap]
  <2>1. txn' = [txn EXCEPT ![s] = r] /\ slots[k].cap \in Capacities
    BY <1>6 DEF BeginAssign, TypeOK, SlotRows
  <2>2. r \in Requests
    BY <2>1 DEF Requests, Idle
  <2>3. SoundRequest(r)
    BY DEF WellFormed, Idle
  <2>4. QED
    BY <2>1, <2>2, <2>3 DEF Idle
<1>7. ASSUME NEW k \in SlotIds, LockForSignUp(s, u, k) PROVE Goal
  <2> DEFINE r == [Idle EXCEPT !.op = "sign_up", !.slot = k, !.vol = u,
                               !.cap = slots[k].cap]
  <2>1. /\ txn' = [txn EXCEPT ![s] = r] /\ slots[k].cap \in Capacities
        /\ k \in LiveSlots
    BY <1>7 DEF LockForSignUp, TypeOK, SlotRows
  <2>2. r \in Requests
    BY <2>1 DEF Requests, Idle
  <2>3. SoundRequest(r)
    BY <2>1 DEF WellFormed, Idle
  <2>4. QED
    BY <2>1, <2>2, <2>3 DEF Idle
<1>8. ASSUME NEW a \in AssignmentIds, BeginRemoveAssignment(s, u, a) PROVE Goal
  BY <1>8 DEF BeginRemoveAssignment, Requests, WellFormed, Idle
<1>9. ASSUME NEW a \in AssignmentIds, BeginRequestSub(s, u, a) PROVE Goal
  BY <1>9 DEF BeginRequestSub, Requests, WellFormed, Idle
<1>10. ASSUME NEW a \in AssignmentIds, NEW v \in Volunteers,
              BeginSubstitute(s, u, a, v)
       PROVE  Goal
  <2>1. PICK direct \in BOOLEAN :
               Begin(s, [Idle EXCEPT !.op = "substitute", !.actor = u, !.asg = a,
                                     !.vol = v, !.direct = direct])
    BY <1>10 DEF BeginSubstitute
  <2> DEFINE r == [Idle EXCEPT !.op = "substitute", !.actor = u, !.asg = a,
                               !.vol = v, !.direct = direct]
  <2>2. txn' = [txn EXCEPT ![s] = r]
    BY <2>1
  <2>3. r \in Requests
    BY DEF Requests, Idle, Capacities
  <2>4. SoundRequest(r)
    BY DEF WellFormed, Idle
  <2>5. QED
    BY <2>2, <2>3, <2>4 DEF Idle
<1>11. ASSUME NEW c \in SubIds, NEW v \in Volunteers, BeginClaimSub(s, v, c)
       PROVE  Goal
  <2> DEFINE a == subs[c].asg
             r == [Idle EXCEPT !.op = "claim_sub", !.sub = c, !.asg = a, !.vol = v]
  <2>1. a \in Roster
    BY <1>11 DEF BeginClaimSub, CallsOnRoster
  <2>2. a \in AssignmentIds
    BY <2>1 DEF Roster
  <2>3. subs[c].st # "unused" /\ txn' = [txn EXCEPT ![s] = r]
    BY <1>11 DEF BeginClaimSub
  <2>4. r \in Requests
    BY <2>2 DEF Requests, Idle, Capacities
  <2>5. SoundRequest(r)
    BY <2>2, <2>3 DEF WellFormed, Idle
  <2>6. QED
    BY <2>3, <2>4, <2>5 DEF Idle
<1>12. ASSUME NEW c \in SubIds, BeginCancelSub(s, u, c) PROVE Goal
  BY <1>12 DEF BeginCancelSub, OpenCalls, Requests, WellFormed, Idle
<1>13. UNCHANGED <<event, slots, asgs, subs, notified>>
  BY DEF ManagerRequest, VolunteerRequest, BeginAddSlot, BeginCancelEvent,
         BeginUpdateEvent, BeginUpdateSlot, BeginDeleteSlot, BeginAssign,
         LockForSignUp, BeginRemoveAssignment, BeginRequestSub,
         BeginSubstitute, BeginClaimSub, BeginCancelSub
<1>14. QED
  BY <1>1, <1>2, <1>3, <1>4, <1>5, <1>6, <1>7, <1>8, <1>9, <1>10, <1>11,
     <1>12, <1>13 DEF ManagerRequest, VolunteerRequest

\* No call is ever un-posted, re-opened or moved to another assignment.
CallsStay ==
    \A c \in SubIds :
        subs[c].st # "unused" =>
          /\ subs'[c].st # "unused"
          /\ subs'[c].st = "open"
               => subs[c].st = "open" /\ subs'[c].asg = subs[c].asg

\* No call that a request other than s has locked is written.
LockedStay(s) ==
    \A t \in Sessions \ {s} : \A c \in OpenCalls :
        Closing(t, c) => subs'[c].st = "open"

\* A request ends: what the others remember only has to survive the tables' change.
LEMMA Ends ==
    ASSUME TypeOK, \A t \in Sessions : SoundRequest(txn[t]),
           NEW s \in Sessions, Commit(s), CallsStay, LockedStay(s),
           \A t \in Sessions \ {s} : Pinned(txn[t])'
    PROVE  /\ (txn \in [Sessions -> Requests])'
           /\ (\A t \in Sessions : SoundRequest(txn[t]))'
<1>1. \A t \in Sessions : txn'[t] = IF t = s THEN Idle ELSE txn[t]
  BY DEF Commit, TypeOK
<1>2. (txn \in [Sessions -> Requests])'
  BY IdleIsSound DEF Commit, TypeOK
<1>3. SoundRequest(txn[s])'
  BY <1>1, RosterAssumption
  DEF Idle, SoundRequest, WellFormed, Posted, Pinned, SeesCall
<1>4. ASSUME NEW t \in Sessions \ {s} PROVE SoundRequest(txn[t])'
  <2>1. txn'[t] = txn[t] /\ WellFormed(txn[t]) /\ Posted(txn[t]) /\ SeesCall(txn[t])
    BY <1>1 DEF SoundRequest
  <2>2. WellFormed(txn[t])' /\ Posted(txn[t])'
    BY <2>1 DEF WellFormed, Posted, CallsStay
  <2>3. SeesCall(txn[t])'
    <3>1. CASE txn[t].op = "claim_sub"
      BY <2>1, <3>1 DEF SeesCall, WellFormed, Posted, CallsStay
    <3>2. CASE txn[t].op = "hand_over" /\ txn[t].sub # None
      <4>1. subs'[txn[t].sub].st = "open"
        BY <2>1, <3>2 DEF SeesCall, LockedStay, Closing
      <4>2. QED
        BY <2>1, <3>2, <4>1 DEF SeesCall, CallsStay, OpenCalls
    <3>3. QED
      BY <2>1, <3>1, <3>2 DEF SeesCall
  <2>4. QED
    BY <1>4, <2>2, <2>3 DEF SoundRequest
<1>5. QED
  BY <1>2, <1>3, <1>4

\* The facts about slots, assignments and calls, without the requests.
Tables ==
    /\ event \in {"open", "past", "cancelled"}
    /\ slots \in [SlotIds -> SlotRows]
    /\ asgs \in [AssignmentIds -> AssignmentRows]
    /\ subs \in [SubIds -> SubRows]
    /\ notified \subseteq AssignmentIds \X Volunteers
    /\ CallsOnRoster
    /\ OneOpenCall
    /\ RosterOnSlots
    /\ OneSlotPerPerson
    /\ ClaimantOnClaimed

\* So a finishing step keeps the invariant when it keeps the tables' facts and
\* what the other requests in flight rely on.
LEMMA EndsInv ==
    ASSUME RosterInv, NEW s \in Sessions, Commit(s), Tables', CallsStay,
           LockedStay(s), \A t \in Sessions \ {s} : Pinned(txn[t])'
    PROVE  RosterInv'
<1>1. /\ (txn \in [Sessions -> Requests])'
      /\ (\A t \in Sessions : SoundRequest(txn[t]))'
  BY Ends DEF RosterInv
<1>2. OneCloser'
  BY DEF OneCloser, Commit, Idle, RosterInv, TypeOK
<1>3. QED
  BY <1>1, <1>2 DEF RosterInv, Tables, TypeOK

\* The end of a request leaves the other sessions' requests as they are.
LEMMA Others ==
    ASSUME TypeOK, NEW s \in Sessions, Commit(s)
    PROVE  \A t \in Sessions \ {s} : txn'[t] = txn[t]
  BY DEF Commit, TypeOK

-----------------------------------------------------------------------------
(* Each finishing step keeps the inductive invariant.                      *)

\* A new slot disturbs nobody.
LEMMA AddSlotInv ==
    ASSUME RosterInv, NEW s \in Sessions, AddSlot(s) PROVE RosterInv'
<1> USE DEF RosterInv
<1>1. PICK k \in SlotIds :
        /\ slots[k].st = "unused"
        /\ slots' = [slots EXCEPT ![k] = [st |-> "live", cap |-> txn[s].cap]]
  BY DEF AddSlot, IsNextId
<1>2. txn[s].cap \in Capacities
  BY DEF TypeOK, Requests
<1>3. /\ slots' \in [SlotIds -> SlotRows]
      /\ \A j \in LiveSlots : j \in LiveSlots' /\ slots'[j] = slots[j]
  BY <1>1, <1>2 DEF TypeOK, SlotRows, LiveSlots
<1>4. Commit(s) /\ UNCHANGED <<event, asgs, subs, notified>>
  BY DEF AddSlot
<1>5. Tables' /\ CallsStay
  BY <1>3, <1>4 DEF TypeOK, Tables, CallsOnRoster, OneOpenCall, RosterOnSlots,
                    OneSlotPerPerson, Roster, OpenCalls,
                    ClaimantOnClaimed, CallsStay
<1>6. ASSUME NEW t \in Sessions \ {s} PROVE Pinned(txn[t])'
  BY <1>3, <1>4, Others DEF SoundRequest, Pinned
<1>7. LockedStay(s)
  BY <1>4 DEF LockedStay, OpenCalls
<1>8. QED
  BY <1>4, <1>5, <1>6, <1>7, EndsInv

\* Nobody who has pinned the slot can have its capacity changed.
LEMMA UpdateSlotInv ==
    ASSUME RosterInv, NEW s \in Sessions, UpdateSlot(s) PROVE RosterInv'
<1> USE DEF RosterInv
<1> DEFINE k == txn[s].slot
<1>1. /\ k \in LiveSlots
      /\ Unlocked(s, k)
      /\ slots' = [slots EXCEPT ![k].cap = txn[s].cap]
      /\ Commit(s) /\ UNCHANGED <<event, asgs, subs, notified>>
  BY DEF UpdateSlot
<1>2. txn[s].cap \in Capacities
  BY DEF TypeOK, Requests
<1>3. /\ slots' \in [SlotIds -> SlotRows]
      /\ LiveSlots' = LiveSlots
      /\ \A j \in LiveSlots \ {k} : slots'[j] = slots[j]
  BY <1>1, <1>2 DEF TypeOK, SlotRows, LiveSlots
<1>4. Tables' /\ CallsStay
  BY <1>1, <1>3 DEF TypeOK, Tables, CallsOnRoster, OneOpenCall, RosterOnSlots,
                    OneSlotPerPerson, Roster, OpenCalls,
                    ClaimantOnClaimed, CallsStay
<1>5. ASSUME NEW t \in Sessions \ {s} PROVE Pinned(txn[t])'
  <2>1. txn'[t] = txn[t]
    BY <1>1, Others
  <2>2. QED
    BY <1>1, <1>3, <2>1 DEF SoundRequest, Pinned, Unlocked, HoldsLock
<1>6. LockedStay(s)
  BY <1>1 DEF LockedStay, OpenCalls
<1>7. QED
  BY <1>1, <1>4, <1>5, <1>6, EndsInv

\* Deleting assignments takes their calls with them and leaves the rest alone.
LEMMA DeletingAssignments ==
    ASSUME RosterInv, NEW s \in Sessions, NEW A \in SUBSET Roster,
           DeleteAssignments(s, A)
    PROVE  /\ asgs' \in [AssignmentIds -> AssignmentRows]
           /\ subs' \in [SubIds -> SubRows]
           /\ notified' \subseteq AssignmentIds \X Volunteers
           /\ Roster' = Roster \ A
           /\ \A a \in Roster' : asgs'[a] = asgs[a]
           /\ CallsOnRoster' /\ OneOpenCall' /\ OneSlotPerPerson'
           /\ ClaimantOnClaimed' /\ CallsStay
           /\ LockedStay(s)
<1> USE DEF RosterInv, DeleteAssignments
<1>1. /\ asgs' \in [AssignmentIds -> AssignmentRows]
      /\ subs' \in [SubIds -> SubRows]
      /\ notified' \subseteq AssignmentIds \X Volunteers
  BY DEF TypeOK, AssignmentRows, SubRows
<1>2. Roster' = Roster \ A /\ \A a \in Roster' : asgs'[a] = asgs[a]
  BY DEF Roster, TypeOK
<1>3. \A c \in SubIds :
        \/ /\ subs[c].asg \in A
           /\ subs'[c].st = "deleted" /\ subs'[c].claimant = None
        \/ subs[c].asg \notin A /\ subs'[c] = subs[c]
  BY DEF TypeOK
<1>4. CallsOnRoster'
  BY <1>2, <1>3 DEF CallsOnRoster
<1>5. OneOpenCall'
  BY <1>3 DEF OneOpenCall, OpenCalls
<1>6. OneSlotPerPerson' /\ ClaimantOnClaimed' /\ CallsStay
  BY <1>2, <1>3 DEF OneSlotPerPerson, ClaimantOnClaimed, CallsStay
<1>7. LockedStay(s)
  BY <1>3 DEF LockedStay, Writable, OpenCalls
<1>8. QED
  BY <1>1, <1>2, <1>4, <1>5, <1>6, <1>7

\* A slot goes with its assignments, and only when nobody has it locked.
LEMMA DeleteSlotInv ==
    ASSUME RosterInv, NEW s \in Sessions, DeleteSlot(s) PROVE RosterInv'
<1> DEFINE k == txn[s].slot
<1>1. /\ Unlocked(s, k) /\ Commit(s) /\ UNCHANGED event
      /\ slots' = [slots EXCEPT ![k] = [st |-> "deleted", cap |-> None]]
      /\ DeleteAssignments(s, On(k))
  BY DEF DeleteSlot
<1>2. On(k) \in SUBSET Roster
  BY DEF On
<1>3. /\ slots' \in [SlotIds -> SlotRows]
      /\ \A j \in LiveSlots \ {k} : j \in LiveSlots' /\ slots'[j] = slots[j]
  BY <1>1 DEF RosterInv, TypeOK, SlotRows, Capacities, LiveSlots
<1>4. RosterOnSlots'
  BY <1>1, <1>2, <1>3, DeletingAssignments DEF RosterInv, RosterOnSlots, On
<1>5. Tables' /\ CallsStay
  BY <1>1, <1>2, <1>3, <1>4, DeletingAssignments DEF Tables, RosterInv, TypeOK
<1>6. ASSUME NEW t \in Sessions \ {s} PROVE Pinned(txn[t])'
  <2>1. txn'[t] = txn[t]
    BY <1>1, Others DEF RosterInv
  <2>2. QED
    BY <1>1, <1>3, <2>1 DEF RosterInv, SoundRequest, Pinned, Unlocked, HoldsLock
<1>7. LockedStay(s)
  BY <1>1, <1>2, DeletingAssignments
<1>8. QED
  BY <1>1, <1>5, <1>6, <1>7, EndsInv

\* An assignment removed takes its calls along.
LEMMA RemoveAssignmentInv ==
    ASSUME RosterInv, NEW s \in Sessions, RemoveAssignment(s) PROVE RosterInv'
<1> DEFINE A == {txn[s].asg} \cap Roster
<1>1. DeleteAssignments(s, A) /\ Commit(s) /\ UNCHANGED <<event, slots>>
  BY DEF RemoveAssignment
<1>2. A \in SUBSET Roster
  OBVIOUS
<1>3. RosterOnSlots'
  BY <1>1, <1>2, DeletingAssignments DEF RosterInv, RosterOnSlots, LiveSlots
<1>4. Tables' /\ CallsStay
  BY <1>1, <1>2, <1>3, DeletingAssignments DEF Tables, RosterInv, TypeOK
<1>5. ASSUME NEW t \in Sessions \ {s} PROVE Pinned(txn[t])'
  <2>1. txn'[t] = txn[t]
    BY <1>1, Others DEF RosterInv
  <2>2. QED
    BY <1>1, <2>1 DEF RosterInv, SoundRequest, Pinned, LiveSlots
<1>6. LockedStay(s)
  BY <1>1, <1>2, DeletingAssignments
<1>7. QED
  BY <1>1, <1>4, <1>5, <1>6, EndsInv

\* The lock of assign's slot is taken only while the slot is there.
LEMMA LockForAssignInv ==
    ASSUME RosterInv, NEW s \in Sessions, LockForAssign(s) PROVE RosterInv'
<1>1. /\ txn[s].op = "assign" /\ txn[s].slot \in LiveSlots
      /\ txn' = [txn EXCEPT ![s].op = "assign_locked"]
      /\ UNCHANGED <<event, slots, asgs, subs, notified>>
  BY DEF LockForAssign
<1>2. TypeOK'
  BY <1>1 DEF RosterInv, TypeOK, Requests
<1>3. ASSUME NEW t \in Sessions PROVE SoundRequest(txn[t])'
  <2>1. CASE t = s
    BY <1>1, <2>1 DEF RosterInv, TypeOK, Requests, SoundRequest, WellFormed,
                      Posted, Pinned, SeesCall, LiveSlots, OpenCalls
  <2>2. CASE t # s
    BY <1>1, <2>2 DEF RosterInv, TypeOK, SoundRequest, WellFormed, Posted,
                      Pinned, SeesCall, LiveSlots, OpenCalls
  <2>3. QED
    BY <2>1, <2>2
<1>4. /\ CallsOnRoster' /\ OneOpenCall' /\ RosterOnSlots' /\ OneSlotPerPerson'
      /\ ClaimantOnClaimed'
  BY <1>1 DEF RosterInv, CallsOnRoster, OneOpenCall, RosterOnSlots,
              OneSlotPerPerson, ClaimantOnClaimed, Roster, OpenCalls, LiveSlots
<1>5. OneCloser'
  BY <1>1 DEF RosterInv, OneCloser, TypeOK, Requests
<1>6. QED
  BY <1>2, <1>3, <1>4, <1>5 DEF RosterInv

\* A new assignment is on a locked slot, for somebody not yet serving.
LEMMA JoinSlotInv ==
    ASSUME RosterInv, NEW s \in Sessions, JoinSlot(s) PROVE RosterInv'
<1> DEFINE k == txn[s].slot
           v == txn[s].vol
<1>1. PICK a \in AssignmentIds :
        /\ asgs[a].st = "unused"
        /\ asgs' = [asgs EXCEPT ![a] = [st |-> "live", slot |-> k, vol |-> v]]
        /\ notified' \in {notified, notified \cup {<<a, v>>}}
  BY DEF JoinSlot, IsNextId, Record
<1>2. /\ HoldsLock(s) /\ ~IsServing(v) /\ Commit(s)
      /\ UNCHANGED <<event, slots, subs>>
  BY DEF JoinSlot
<1>3. v \in Volunteers /\ k \in LiveSlots
  BY <1>2 DEF HoldsLock, RosterInv, SoundRequest, WellFormed, Pinned
<1>4. /\ asgs' \in [AssignmentIds -> AssignmentRows]
      /\ notified' \subseteq AssignmentIds \X Volunteers
      /\ a \notin Roster /\ Roster' = Roster \cup {a}
      /\ asgs'[a].slot = k /\ asgs'[a].vol = v
      /\ \A b \in Roster : asgs'[b] = asgs[b]
  BY <1>1, <1>3 DEF RosterInv, TypeOK, AssignmentRows, Roster, LiveSlots
<1>5. CallsOnRoster' /\ OneOpenCall'
  BY <1>2, <1>4 DEF RosterInv, CallsOnRoster, OneOpenCall, OpenCalls
<1>6. RosterOnSlots' /\ OneSlotPerPerson'
  BY <1>2, <1>3, <1>4 DEF RosterInv, RosterOnSlots, OneSlotPerPerson, IsServing,
                          LiveSlots
<1>7. Tables' /\ CallsStay
  BY <1>2, <1>4, <1>5, <1>6
  DEF Tables, RosterInv, TypeOK, ClaimantOnClaimed, CallsStay
<1>8. ASSUME NEW t \in Sessions \ {s} PROVE Pinned(txn[t])'
  <2>1. txn'[t] = txn[t]
    BY <1>2, Others DEF RosterInv
  <2>2. QED
    BY <1>2, <2>1 DEF RosterInv, SoundRequest, Pinned, LiveSlots
<1>9. LockedStay(s)
  BY <1>2 DEF LockedStay, OpenCalls
<1>10. QED
  BY <1>2, <1>7, <1>8, <1>9, EndsInv

\* A call is opened on an assignment that has no open one.
LEMMA RequestSubInv ==
    ASSUME RosterInv, NEW s \in Sessions, RequestSub(s) PROVE RosterInv'
<1> DEFINE a == txn[s].asg
<1>1. /\ a \in Roster /\ OpenCallsOn(a) = {} /\ Commit(s)
      /\ UNCHANGED <<event, slots, asgs, notified>>
  BY DEF RequestSub
<1>2. PICK c \in SubIds :
        /\ subs[c].st = "unused"
        /\ subs' = [subs EXCEPT ![c] = [st |-> "open", asg |-> a,
                      requester |-> txn[s].actor, claimant |-> None]]
  BY DEF RequestSub, IsNextId
<1>3. txn[s].actor \in Volunteers \cup {None}
  BY DEF RosterInv, TypeOK, Requests
<1>4. subs' \in [SubIds -> SubRows]
  BY <1>1, <1>2, <1>3 DEF RosterInv, TypeOK, SubRows, Roster
<1>5. \A d \in SubIds \ {c} : subs'[d] = subs[d]
  BY <1>2 DEF RosterInv, TypeOK
<1>6. /\ subs'[c].asg = a
      /\ subs'[c].st = "open" /\ subs'[c].claimant = None
  BY <1>2 DEF RosterInv, TypeOK
<1>7. CallsOnRoster'
  BY <1>1, <1>5, <1>6 DEF RosterInv, CallsOnRoster, Roster
<1>8. OneOpenCall'
  BY <1>1, <1>5, <1>6 DEF RosterInv, OneOpenCall, OpenCalls, OpenCallsOn
<1>a. CallsStay
  BY <1>2, <1>5, <1>6 DEF CallsStay
<1>9. Tables'
  BY <1>1, <1>4, <1>5, <1>6, <1>7, <1>8
  DEF Tables, RosterInv, TypeOK, RosterOnSlots, OneSlotPerPerson,
      ClaimantOnClaimed, Roster, LiveSlots
<1>10. ASSUME NEW t \in Sessions \ {s} PROVE Pinned(txn[t])'
  <2>1. txn'[t] = txn[t]
    BY <1>1, Others DEF RosterInv
  <2>2. QED
    BY <1>1, <2>1 DEF RosterInv, SoundRequest, Pinned, LiveSlots
<1>11. LockedStay(s)
  BY <1>2, <1>5 DEF LockedStay, OpenCalls
<1>12. QED
  BY <1>1, <1>9, <1>10, <1>11, <1>a, EndsInv

\* Cancelling open calls disturbs nothing a request relies on.
LEMMA CancellingCalls ==
    ASSUME RosterInv, NEW C \in SUBSET SubIds, CancelCalls(C),
           \A c \in C : subs[c].st \notin {"unused", "deleted"}
                         /\ subs[c].claimant = None
    PROVE  /\ subs' \in [SubIds -> SubRows]
           /\ OpenCalls' = OpenCalls \ C
           /\ \A c \in SubIds : subs'[c].asg = subs[c].asg
           /\ Roster' = Roster => CallsOnRoster'
           /\ OneOpenCall' /\ ClaimantOnClaimed' /\ CallsStay
<1> USE DEF RosterInv, TypeOK, CancelCalls
<1>1. subs' \in [SubIds -> SubRows]
  BY DEF SubRows
<1>2. \A c \in SubIds :
        /\ subs'[c].asg = subs[c].asg
        /\ subs'[c].st = IF c \in C THEN "cancelled" ELSE subs[c].st
        /\ subs'[c].claimant = subs[c].claimant
  BY DEF SubRows
<1>3. OpenCalls' = OpenCalls \ C
  BY <1>2 DEF OpenCalls
<1>4. OneOpenCall'
  BY <1>2, <1>3 DEF OneOpenCall, OpenCalls
<1>5. ClaimantOnClaimed' /\ CallsStay
  BY <1>2 DEF ClaimantOnClaimed, CallsStay
<1>6. \A c \in C : subs[c].st \in {"open", "cancelled"}
  BY DEF ClaimantOnClaimed, SubRows
<1>7. Roster' = Roster => CallsOnRoster'
  BY <1>2, <1>6 DEF CallsOnRoster
<1>8. QED
  BY <1>1, <1>2, <1>3, <1>4, <1>5, <1>7

\* A hand-over locks the open call it finds, and changes no table yet.
LEMMA CloseCallInv ==
    ASSUME RosterInv, NEW s \in Sessions, CloseCall(s) PROVE RosterInv'
<1> DEFINE a == txn[s].asg
<1>1. /\ txn[s].op = "substitute" /\ Writable(s, OpenCallsOn(a))
      /\ UNCHANGED <<event, slots, asgs, subs, notified>>
  BY DEF CloseCall
<1>2. WellFormed(txn[s]) /\ txn[s] \in Requests
  BY DEF RosterInv, SoundRequest, TypeOK
<1>3. PICK c \in OpenCallsOn(a) \cup {None} :
        txn' = [txn EXCEPT ![s] = [txn[s] EXCEPT !.op = "hand_over", !.sub = c]]
  <2>1. CASE txn' = [txn EXCEPT ![s].op = "hand_over"]
    <3>1. [txn[s] EXCEPT !.op = "hand_over", !.sub = None]
            = [txn[s] EXCEPT !.op = "hand_over"]
      BY <1>1, <1>2 DEF WellFormed, Requests
    <3>2. txn' = [txn EXCEPT ![s] = [txn[s] EXCEPT !.op = "hand_over", !.sub = None]]
      BY <2>1, <3>1 DEF RosterInv, TypeOK
    <3>3. QED
      BY <3>2
  <2>2. ASSUME NEW d \in OpenCallsOn(a),
               txn' = [txn EXCEPT ![s].op = "hand_over", ![s].sub = d]
        PROVE  txn' = [txn EXCEPT ![s] = [txn[s] EXCEPT !.op = "hand_over", !.sub = d]]
    BY <2>2 DEF RosterInv, TypeOK
  <2>3. QED
    BY <2>1, <2>2 DEF CloseCall
<1>4. c # None => c \in OpenCalls /\ c \in SubIds /\ subs[c].asg = a
  BY <1>3 DEF OpenCallsOn, OpenCalls
<1>5. \A t \in Sessions :
        txn'[t] = IF t = s THEN [txn[s] EXCEPT !.op = "hand_over", !.sub = c] ELSE txn[t]
  BY <1>3 DEF RosterInv, TypeOK
<1>6. /\ txn'[s].op = "hand_over" /\ txn'[s].sub = c /\ txn'[s].asg = a
      /\ txn'[s].vol = txn[s].vol /\ txn'[s].slot = txn[s].slot
  BY <1>2, <1>5 DEF Requests
<1>7. TypeOK'
  <2>1. txn'[s] \in Requests
    <3>1. c \in SubIds \cup {None}
      BY <1>4
    <3>2. txn'[s] = [txn[s] EXCEPT !.op = "hand_over", !.sub = c]
      BY <1>5
    <3>3. QED
      BY <1>2, <3>1, <3>2 DEF Requests
  <2>2. (txn \in [Sessions -> Requests])'
    BY <1>3, <1>5, <2>1 DEF RosterInv, TypeOK
  <2>3. QED
    BY <1>1, <2>2 DEF RosterInv, TypeOK
<1>8. ASSUME NEW t \in Sessions PROVE SoundRequest(txn[t])'
  <2>1. CASE t = s
    <3>1. WellFormed(txn[s])'
      BY <1>1, <1>2, <1>6 DEF WellFormed
    <3>2. SeesCall(txn[s])'
      BY <1>1, <1>4, <1>6 DEF SeesCall, OpenCalls
    <3>3. QED
      BY <1>6, <2>1, <3>1, <3>2 DEF SoundRequest, Posted, Pinned
  <2>2. CASE t # s
    BY <1>1, <1>5, <2>2 DEF RosterInv, SoundRequest, WellFormed, Posted,
                            Pinned, SeesCall, LiveSlots, OpenCalls
  <2>3. QED
    BY <2>1, <2>2
<1>9. OneCloser'
  BY <1>1, <1>3, <1>5, <1>6 DEF RosterInv, OneCloser, Writable, Closing
<1>10. /\ CallsOnRoster' /\ OneOpenCall' /\ RosterOnSlots' /\ OneSlotPerPerson'
       /\ ClaimantOnClaimed'
  BY <1>1 DEF RosterInv, CallsOnRoster, OneOpenCall, RosterOnSlots,
              OneSlotPerPerson, ClaimantOnClaimed, Roster, OpenCalls, LiveSlots
<1>11. QED
  BY <1>7, <1>8, <1>9, <1>10 DEF RosterInv

\* What a hand-over cancels is the open call of its assignment that it locked,
\* if there was one.
LEMMA CallsHandedOver ==
    ASSUME RosterInv, NEW s \in Sessions, HandOver(s)
    PROVE  \E C \in SUBSET SubIds :
             /\ CancelCalls(C)
             /\ txn[s].sub # None => C = {txn[s].sub}
             /\ \A c \in C : /\ txn[s].sub = c /\ c # None /\ c \in OpenCalls
                              /\ subs[c].asg = txn[s].asg
                              /\ subs[c].st \notin {"unused", "deleted"}
                              /\ subs[c].claimant = None
<1> DEFINE C == {c \in SubIds : c = txn[s].sub}
<1>1. CancelCalls(C)
  BY DEF HandOver, CancelCalls
<1>2. \A c \in C : c # None
  BY RosterAssumption
<1>3. txn[s].op = "hand_over" /\ SeesCall(txn[s])
  BY DEF HandOver, RosterInv, SoundRequest
<1>4. txn[s].sub # None => C = {txn[s].sub}
  BY <1>3 DEF SeesCall, OpenCalls
<1>5. \A c \in C : c \in OpenCalls /\ subs[c].asg = txn[s].asg
  BY <1>2, <1>3 DEF SeesCall
<1>6. \A c \in C : subs[c].st = "open" /\ subs[c].claimant = None
  BY <1>5 DEF OpenCalls, RosterInv, ClaimantOnClaimed
<1>7. QED
  BY <1>1, <1>2, <1>4, <1>5, <1>6

\* A hand-over moves one row, and cancels the call it had locked.
LEMMA HandOverInv ==
    ASSUME RosterInv, NEW s \in Sessions, HandOver(s) PROVE RosterInv'
<1> DEFINE a == txn[s].asg
           v == txn[s].vol
<1>1. /\ MoveAssignment(a, v) /\ Commit(s) /\ txn[s].op = "hand_over"
      /\ notified' \in {notified, notified \cup {<<a, v>>}}
      /\ UNCHANGED <<event, slots>>
  BY DEF HandOver, Record
<1>2. v \in Volunteers /\ a \in AssignmentIds
  BY <1>1 DEF RosterInv, SoundRequest, WellFormed
<1>3. /\ asgs' \in [AssignmentIds -> AssignmentRows]
      /\ notified' \subseteq AssignmentIds \X Volunteers
      /\ Roster' = Roster
      /\ \A b \in Roster : asgs'[b].slot = asgs[b].slot
      /\ \A b \in Roster \ {a} : asgs'[b] = asgs[b] /\ asgs[b].vol # v
      /\ asgs'[a].vol = v
  BY <1>1, <1>2 DEF MoveAssignment, RosterInv, TypeOK, AssignmentRows, Roster
<1>4. PICK C \in SUBSET SubIds :
        /\ CancelCalls(C)
        /\ \A c \in C : /\ txn[s].sub = c /\ c # None
                         /\ subs[c].st \notin {"unused", "deleted"}
                         /\ subs[c].claimant = None
  BY CallsHandedOver
<1>5. CallsOnRoster' /\ RosterOnSlots' /\ OneSlotPerPerson'
  BY <1>1, <1>3, <1>4, CancellingCalls
  DEF RosterInv, RosterOnSlots, OneSlotPerPerson, LiveSlots
<1>6. Tables' /\ CallsStay
  BY <1>1, <1>3, <1>4, <1>5, CancellingCalls DEF Tables, RosterInv, TypeOK
<1>7. ASSUME NEW t \in Sessions \ {s} PROVE Pinned(txn[t])'
  <2>1. txn'[t] = txn[t]
    BY <1>1, Others DEF RosterInv
  <2>2. QED
    BY <1>1, <2>1 DEF RosterInv, SoundRequest, Pinned, LiveSlots
<1>8. LockedStay(s)
  <2>1. ASSUME NEW t \in Sessions \ {s}, NEW c \in OpenCalls, Closing(t, c)
        PROVE  c \notin C
    BY <1>1, <1>4, <2>1 DEF RosterInv, OneCloser, Closing
  <2>2. OpenCalls' = OpenCalls \ C
    BY <1>4, CancellingCalls
  <2>3. QED
    BY <2>1, <2>2 DEF LockedStay, OpenCalls
<1>9. QED
  BY <1>1, <1>6, <1>7, <1>8, EndsInv

\* A claim moves the assignment only with the call it resolves.
LEMMA ClaimSubInv ==
    ASSUME RosterInv, NEW s \in Sessions, ClaimSub(s) PROVE RosterInv'
<1> DEFINE a == txn[s].asg
           v == txn[s].vol
           c == txn[s].sub
<1>1. /\ subs[c].st = "open" /\ MoveAssignment(a, v) /\ Commit(s)
      /\ subs' = [subs EXCEPT ![c].st = "claimed", ![c].claimant = v]
      /\ notified' = notified \cup {<<a, v>>}
      /\ UNCHANGED <<event, slots>>
  BY DEF ClaimSub, Record
<1>2. v \in Volunteers /\ a \in AssignmentIds /\ c \in SubIds /\ subs[c].asg = a
  BY <1>1 DEF ClaimSub, RosterInv, SoundRequest, WellFormed, SeesCall
<1>3. /\ asgs' \in [AssignmentIds -> AssignmentRows]
      /\ notified' \subseteq AssignmentIds \X Volunteers
      /\ Roster' = Roster
      /\ \A b \in Roster : asgs'[b].slot = asgs[b].slot
      /\ \A b \in Roster \ {a} : asgs'[b] = asgs[b] /\ asgs[b].vol # v
      /\ asgs'[a].vol = v
  BY <1>1, <1>2 DEF MoveAssignment, RosterInv, TypeOK, AssignmentRows, Roster
<1>4. /\ subs' \in [SubIds -> SubRows]
      /\ \A d \in SubIds \ {c} : subs'[d] = subs[d]
      /\ subs'[c].st = "claimed" /\ subs'[c].asg = a /\ subs'[c].claimant = v
  BY <1>1, <1>2 DEF RosterInv, TypeOK, SubRows
<1>5. CallsOnRoster' /\ OneOpenCall'
  <2>1. a \in Roster
    BY <1>1 DEF MoveAssignment
  <2>2. CallsOnRoster'
    <3>1. ASSUME NEW d \in SubIds
          PROVE  /\ subs'[d].st \in {"open", "claimed", "cancelled"}
                      => subs'[d].asg \in Roster
                 /\ subs'[d].st \in {"unused", "deleted"} => subs'[d].asg = None
      BY <1>4, <2>1 DEF RosterInv, CallsOnRoster
    <3>2. QED
      BY <1>3, <3>1 DEF CallsOnRoster
  <2>3. OpenCalls' = OpenCalls \ {c}
    BY <1>1, <1>4 DEF OpenCalls
  <2>4. OneOpenCall'
    <3>1. \A d \in OpenCalls \ {c} : subs'[d].asg = subs[d].asg
      BY <1>4 DEF OpenCalls
    <3>2. QED
      BY <2>3, <3>1 DEF RosterInv, OneOpenCall
  <2>5. QED
    BY <2>2, <2>4
<1>6. RosterOnSlots' /\ OneSlotPerPerson'
  BY <1>1, <1>3 DEF RosterInv, RosterOnSlots, OneSlotPerPerson, LiveSlots
<1>a. ClaimantOnClaimed' /\ CallsStay
  BY <1>1, <1>2, <1>4, RosterAssumption DEF RosterInv, ClaimantOnClaimed, CallsStay
<1>7. Tables'
  BY <1>1, <1>3, <1>4, <1>5, <1>6, <1>a DEF Tables, RosterInv, TypeOK
<1>8. ASSUME NEW t \in Sessions \ {s} PROVE Pinned(txn[t])'
  <2>1. txn'[t] = txn[t]
    BY <1>1, Others DEF RosterInv
  <2>2. QED
    BY <1>1, <2>1 DEF RosterInv, SoundRequest, Pinned, LiveSlots
<1>9. LockedStay(s)
  BY <1>4 DEF ClaimSub, LockedStay, Writable, OpenCalls
<1>10. QED
  BY <1>1, <1>7, <1>8, <1>9, <1>a, EndsInv

\* A finishing step that leaves slots, assignments and notices alone, and of
\* the calls only cancels some.
LEMMA CancellingEnds ==
    ASSUME RosterInv, NEW s \in Sessions, Commit(s), UNCHANGED <<slots, asgs, notified>>,
           event' \in {"open", "past", "cancelled"},
           NEW C \in SUBSET SubIds, CancelCalls(C), Writable(s, C),
           \A c \in C : subs[c].st \notin {"unused", "deleted"}
                         /\ subs[c].claimant = None
    PROVE  RosterInv'
<1>1. CallsOnRoster' /\ RosterOnSlots' /\ OneSlotPerPerson'
  BY CancellingCalls
  DEF RosterInv, RosterOnSlots, OneSlotPerPerson, LiveSlots, Roster
<1>2. Tables' /\ CallsStay
  BY <1>1, CancellingCalls DEF Tables, RosterInv, TypeOK
<1>3. ASSUME NEW t \in Sessions \ {s} PROVE Pinned(txn[t])'
  <2>1. txn'[t] = txn[t]
    BY Others DEF RosterInv
  <2>2. QED
    BY <2>1 DEF RosterInv, SoundRequest, Pinned, LiveSlots
<1>4. LockedStay(s)
  BY CancellingCalls DEF LockedStay, Writable, OpenCalls
<1>5. QED
  BY <1>2, <1>3, <1>4, EndsInv

\* A cancellation closes a call and leaves its assignment.
LEMMA CancelSubInv ==
    ASSUME RosterInv, NEW s \in Sessions, CancelSub(s) PROVE RosterInv'
<1>1. /\ txn[s].sub \in SubIds
      /\ subs[txn[s].sub].st \notin {"unused", "deleted"}
      /\ subs[txn[s].sub].claimant = None
  BY DEF CancelSub, RosterInv, SoundRequest, WellFormed, Posted
<1>2. /\ CancelCalls({txn[s].sub}) /\ Writable(s, {txn[s].sub}) /\ Commit(s)
      /\ UNCHANGED <<event, slots, asgs, notified>>
  BY DEF CancelSub
<1>3. QED
  BY <1>1, <1>2, CancellingEnds DEF RosterInv, TypeOK

\* Cancelling the event closes its open calls and leaves the roster.
LEMMA CancelEventInv ==
    ASSUME RosterInv, NEW s \in Sessions, CancelEvent(s) PROVE RosterInv'
<1>1. /\ CancelCalls(OpenCalls) /\ Writable(s, OpenCalls)
      /\ Commit(s) /\ event' = "cancelled"
      /\ UNCHANGED <<slots, asgs, notified>>
  BY DEF CancelEvent
<1>2. /\ OpenCalls \in SUBSET SubIds
      /\ \A c \in OpenCalls : subs[c].st \notin {"unused", "deleted"}
                               /\ subs[c].claimant = None
  BY DEF OpenCalls, RosterInv, ClaimantOnClaimed
<1>3. QED
  BY <1>1, <1>2, CancellingEnds

\* A roll-back, and an edit of the event itself.
LEMMA EndsAlone ==
    ASSUME RosterInv, NEW s \in Sessions, RollBack(s) \/ UpdateEvent(s)
    PROVE  RosterInv'
<1>1. /\ Commit(s) /\ UNCHANGED <<slots, asgs, subs, notified>>
      /\ event' \in {"open", "past", "cancelled"}
  BY DEF RollBack, UpdateEvent, RosterInv, TypeOK
<1>2. CancelCalls({}) /\ Writable(s, {})
  BY <1>1 DEF CancelCalls, Writable, RosterInv, TypeOK
<1>3. QED
  BY <1>1, <1>2, CancellingEnds

\* A request that starts keeps the invariant.
LEMMA StartsInv ==
    ASSUME RosterInv, NEW s \in Sessions, NEW u \in Volunteers,
           ManagerRequest(s, u) \/ VolunteerRequest(s, u)
    PROVE  RosterInv'
<1>1. PICK r \in Requests : /\ SoundRequest(r) /\ r.op # "hand_over"
                           /\ txn' = [txn EXCEPT ![s] = r]
  BY FirstSteps DEF RosterInv
<1>2. UNCHANGED <<event, slots, asgs, subs, notified>>
  BY FirstSteps DEF RosterInv
<1>3. \A t \in Sessions : txn'[t] = IF t = s THEN r ELSE txn[t]
  BY <1>1 DEF RosterInv, TypeOK
<1>4. TypeOK'
  BY <1>1, <1>2 DEF RosterInv, TypeOK
<1>5. ASSUME NEW t \in Sessions PROVE SoundRequest(txn[t])'
  BY <1>1, <1>2, <1>3
  DEF RosterInv, SoundRequest, WellFormed, Posted, Pinned, SeesCall, LiveSlots,
      OpenCalls
<1>a. OneCloser'
  BY <1>1, <1>3 DEF RosterInv, OneCloser
<1>6. /\ CallsOnRoster' /\ OneOpenCall' /\ RosterOnSlots' /\ OneSlotPerPerson'
      /\ ClaimantOnClaimed'
  BY <1>2 DEF RosterInv, CallsOnRoster, OneOpenCall, RosterOnSlots,
              OneSlotPerPerson, ClaimantOnClaimed, Roster, OpenCalls, LiveSlots
<1>7. QED
  BY <1>4, <1>5, <1>6, <1>a DEF RosterInv

\* The event's own state is nothing the invariant rests on.
LEMMA StillInv ==
    ASSUME RosterInv, UNCHANGED <<slots, asgs, subs, notified, txn>>,
           event' \in {"open", "past", "cancelled"}
    PROVE  RosterInv'
<1>1. \A t \in Sessions : SoundRequest(txn[t])'
  BY DEF RosterInv, SoundRequest, WellFormed, Posted, Pinned, SeesCall, LiveSlots,
         OpenCalls
<1>2. QED
  BY <1>1 DEF RosterInv, TypeOK, OneCloser, CallsOnRoster, OneOpenCall, RosterOnSlots,
              OneSlotPerPerson, ClaimantOnClaimed, Roster, OpenCalls, LiveSlots

-----------------------------------------------------------------------------
(* The inductive invariant holds, and with it the properties.              *)

\* An event starts with nobody on its roster.
LEMMA InitInv == Init => RosterInv
<1> SUFFICES ASSUME Init PROVE RosterInv
  OBVIOUS
<1> USE RosterAssumption DEF Init
<1>1. Roster = {} /\ OpenCalls = {}
  BY DEF Roster, OpenCalls
<1>2. slots \in [SlotIds -> SlotRows]
  BY DEF SlotRows, Capacities
<1>3. TypeOK
  BY <1>2, IdleIsSound DEF TypeOK, AssignmentRows, SubRows
<1>4. (\A s \in Sessions : SoundRequest(txn[s])) /\ OneCloser
  BY IdleIsSound DEF OneCloser, Idle
<1>5. CallsOnRoster /\ OneOpenCall /\ RosterOnSlots /\ OneSlotPerPerson
  BY <1>1 DEF CallsOnRoster, OneOpenCall, RosterOnSlots, OneSlotPerPerson
<1>6. ClaimantOnClaimed
  BY DEF ClaimantOnClaimed
<1>7. QED
  BY <1>3, <1>4, <1>5, <1>6 DEF RosterInv

\* Every step keeps the invariant.
LEMMA NextInv == RosterInv /\ [Next]_vars => RosterInv'
<1> SUFFICES ASSUME RosterInv, [Next]_vars PROVE RosterInv'
  OBVIOUS
<1>1. CASE EventEnds
  BY <1>1, StillInv DEF EventEnds
<1>2. CASE UNCHANGED vars
  BY <1>2, StillInv DEF vars, RosterInv, TypeOK
<1>3. ASSUME NEW s \in Sessions, Continue(s) PROVE RosterInv'
  BY <1>3, AddSlotInv, UpdateSlotInv, DeleteSlotInv, LockForAssignInv,
     JoinSlotInv, RemoveAssignmentInv, RequestSubInv, ClaimSubInv,
     CloseCallInv, HandOverInv, CancelSubInv, CancelEventInv, EndsAlone
  DEF Continue
<1>4. ASSUME NEW s \in Sessions, NEW u \in Volunteers,
             ManagerRequest(s, u) \/ VolunteerRequest(s, u)
      PROVE  RosterInv'
  BY <1>4, StartsInv
<1>5. QED
  BY <1>1, <1>2, <1>3, <1>4 DEF Next

\* The invariant of the whole module: every row well typed, every request in
\* flight remembering what still holds, and the tables' own constraints.
THEOREM RosterInvariance == Spec => []RosterInv
  BY InitInv, NextInv, PTL DEF Spec

\* Every table row, notice and request in flight has its type, whichever
\* requests interleave.
THEOREM TypeCorrect == Spec => []TypeOK
<1>1. RosterInv => TypeOK
  BY DEF RosterInv
<1>2. QED
  BY <1>1, RosterInvariance, PTL

\* Nobody is ever on an event's roster twice, however sign_up, assign,
\* claim_sub and substitute interleave.
THEOREM NobodyTwice == Spec => []OneSlotPerPerson
<1>1. RosterInv => OneSlotPerPerson
  BY DEF RosterInv
<1>2. QED
  BY <1>1, RosterInvariance, PTL

\* Calls never outlive the assignment they are about, nor assignments their
\* slot, and no assignment has two open calls.
THEOREM CallsFollow == Spec => []CallsFollowRoster
<1>1. RosterInv => CallsFollowRoster
  BY DEF RosterInv, CallsFollowRoster, CallsOnRoster, OneOpenCall, RosterOnSlots
<1>2. QED
  BY <1>1, RosterInvariance, PTL

-----------------------------------------------------------------------------
(* Action properties.                                                      *)

\* Only a request's own step ends it.
LEMMA EndsItself ==
    ASSUME TypeOK, Next, NEW s \in Sessions,
           txn[s].op # "idle", txn'[s].op = "idle"
    PROVE  Continue(s)
<1>1. CASE EventEnds
  BY <1>1 DEF EventEnds
<1>2. ASSUME NEW x \in Sessions, Continue(x), x # s PROVE FALSE
  BY <1>2, SMTT(30)
  DEF TypeOK, Continue, Commit, AddSlot, UpdateSlot, DeleteSlot, LockForAssign,
      JoinSlot, RemoveAssignment, RequestSub, ClaimSub, CloseCall, HandOver,
      CancelSub,
      CancelEvent, UpdateEvent, RollBack
<1>3. ASSUME NEW x \in Sessions, NEW u \in Volunteers,
             ManagerRequest(x, u) \/ VolunteerRequest(x, u)
      PROVE  FALSE
  <2>1. PICK r : txn[x].op = "idle" /\ txn' = [txn EXCEPT ![x] = r]
    BY <1>3
    DEF ManagerRequest, VolunteerRequest, Begin, BeginAddSlot, BeginCancelEvent,
        BeginUpdateEvent, BeginUpdateSlot, BeginDeleteSlot, BeginAssign,
        LockForSignUp, BeginRemoveAssignment, BeginRequestSub,
        BeginSubstitute, BeginClaimSub, BeginCancelSub
  <2>2. QED
    BY <2>1, SMTT(30) DEF TypeOK
<1>4. QED
  BY <1>1, <1>2, <1>3 DEF Next

\* A call is open across a change of its slot's holder only through a hand-over
\* that found none to close: a claim resolves the call it goes by, and that is
\* the one open call of the assignment; a hand-over cancels the one it locked.
THEOREM CallsEndWithTheirHolder == Spec => CallEndsWithItsHolder
<1> DEFINE ByUnclosed(c) == \E s \in Sessions : /\ Closing(s, None)
                                               /\ txn[s].asg = subs[c].asg
                                               /\ txn'[s].op = "idle"
           Kept == \A c \in OpenCalls :
                     (subs'[c].st = "open" /\ asgs'[subs[c].asg] # asgs[subs[c].asg])
                       => ByUnclosed(c)
<1>1. RosterInv /\ [Next]_vars => [Kept]_vars
  <2> SUFFICES ASSUME RosterInv, Next, NEW c \in OpenCalls,
                      subs'[c].st = "open",
                      asgs'[subs[c].asg] # asgs[subs[c].asg]
               PROVE  ByUnclosed(c)
    OBVIOUS
  <2> DEFINE a == subs[c].asg
  <2>1. c \in SubIds /\ subs[c].st = "open" /\ a \in Roster /\ a \in AssignmentIds
    BY DEF OpenCalls, Roster, RosterInv, CallsOnRoster
  <2>2. PICK s \in Sessions : Continue(s)
    BY FirstSteps DEF Next, EventEnds, RosterInv
  <2>3. CASE DeleteSlot(s) \/ RemoveAssignment(s)
    <3>1. PICK A : DeleteAssignments(s, A)
      BY <2>3 DEF DeleteSlot, RemoveAssignment
    <3>2. a \notin A
      BY <2>1, <3>1 DEF DeleteAssignments
    <3>3. QED
      BY <2>1, <3>1, <3>2 DEF DeleteAssignments
  <2>4. CASE JoinSlot(s)
    BY <2>1, <2>4 DEF JoinSlot, IsNextId, Roster, RosterInv, TypeOK
  <2>5. CASE ClaimSub(s)
    <3>1. /\ subs[txn[s].sub].st = "open" /\ MoveAssignment(txn[s].asg, txn[s].vol)
          /\ subs' = [subs EXCEPT ![txn[s].sub].st = "claimed",
                                  ![txn[s].sub].claimant = txn[s].vol]
      BY <2>5 DEF ClaimSub
    <3>2. txn[s].sub \in SubIds /\ subs[txn[s].sub].asg = txn[s].asg
      BY <2>5, <3>1 DEF ClaimSub, RosterInv, SoundRequest, WellFormed, SeesCall
    <3>3. a = txn[s].asg
      BY <2>1, <3>1 DEF MoveAssignment, RosterInv, TypeOK
    <3>4. c = txn[s].sub
      BY <2>1, <3>1, <3>2, <3>3 DEF RosterInv, OneOpenCall, OpenCalls
    <3>5. subs'[c].st = "claimed"
      BY <2>1, <3>1, <3>4 DEF RosterInv, TypeOK, SubRows
    <3>6. QED
      BY <3>5
  <2>6. CASE HandOver(s)
    <3>1. PICK C \in SUBSET SubIds :
            /\ CancelCalls(C)
            /\ txn[s].sub # None => C = {txn[s].sub}
            /\ \A d \in C : d \in OpenCalls /\ subs[d].asg = txn[s].asg
      BY <2>6, CallsHandedOver
    <3>2. a = txn[s].asg
      BY <2>1, <2>6 DEF HandOver, MoveAssignment, RosterInv, TypeOK
    <3>3. c \notin C
      BY <2>1, <3>1 DEF CancelCalls, RosterInv, TypeOK, SubRows
    <3>4. txn[s].sub = None
      <4>1. SUFFICES ASSUME txn[s].sub # None PROVE FALSE
        OBVIOUS
      <4>2. txn[s].sub \in OpenCalls /\ subs[txn[s].sub].asg = a
        BY <3>1, <3>2, <4>1
      <4>3. c = txn[s].sub
        BY <4>2 DEF RosterInv, OneOpenCall
      <4>4. QED
        BY <3>1, <3>3, <4>1, <4>3
    <3>5. Closing(s, None) /\ txn'[s].op = "idle"
      BY <2>6, <3>4 DEF HandOver, Closing, Commit, Idle, RosterInv, TypeOK
    <3>6. QED
      BY <3>2, <3>5
  <2>7. QED
    BY <2>2, <2>3, <2>4, <2>5, <2>6
    DEF Continue, AddSlot, UpdateSlot, LockForAssign, RequestSub, CloseCall,
        CancelSub, CancelEvent, UpdateEvent, RollBack
<1>2. QED
  BY <1>1, RosterInvariance, PTL DEF Spec, CallEndsWithItsHolder

\* A sign-up leaves its slot within the capacity the slot has as it commits:
\* the row lock keeps the capacity it read current, and the count is taken
\* under that lock.
THEOREM SignUpsWithinCapacity == Spec => SignUpWithinCapacity
<1> DEFINE Kept == \A s \in Sessions :
                     (txn[s].op = "sign_up" /\ txn'[s].op = "idle" /\ asgs' # asgs)
                       => Fits(Cardinality({a \in Roster' : asgs'[a].slot = txn[s].slot}),
                               slots[txn[s].slot].cap)
<1>1. RosterInv /\ [Next]_vars => [Kept]_vars
  <2> SUFFICES ASSUME RosterInv, Next, NEW s \in Sessions,
                      txn[s].op = "sign_up", txn'[s].op = "idle", asgs' # asgs
               PROVE  Fits(Cardinality({a \in Roster' : asgs'[a].slot = txn[s].slot}),
                           slots[txn[s].slot].cap)
    OBVIOUS
  <2> DEFINE k == txn[s].slot
             After == {a \in Roster' : asgs'[a].slot = k}
  <2>1. Continue(s)
    BY EndsItself DEF RosterInv
  <2>2. JoinSlot(s)
    BY <2>1
    DEF Continue, AddSlot, UpdateSlot, DeleteSlot, LockForAssign, ClaimSub,
        RemoveAssignment, RequestSub, CloseCall, HandOver, CancelSub,
        CancelEvent, UpdateEvent, RollBack
  <2>3. PICK a \in AssignmentIds :
          /\ asgs[a].st = "unused"
          /\ asgs' = [asgs EXCEPT ![a] = [st |-> "live", slot |-> k,
                                          vol |-> txn[s].vol]]
    BY <2>2 DEF JoinSlot, IsNextId
  <2>4. After = On(k) \cup {a} /\ a \notin On(k)
    BY <2>3 DEF RosterInv, TypeOK, Roster, On
  <2>5. IsFiniteSet(On(k))
    BY FS_Subset, RosterAssumption DEF On, Roster
  <2>6. Cardinality(After) = Occupied(k) + 1
    BY <2>4, <2>5, FS_AddElement DEF Occupied
  <2>7. slots[k].cap = txn[s].cap
    BY DEF RosterInv, SoundRequest, Pinned
  <2>8. Fits(Occupied(k) + 1, txn[s].cap)
    BY <2>2 DEF JoinSlot
  <2>9. QED
    BY <2>6, <2>7, <2>8
<1>2. QED
  BY <1>1, RosterInvariance, PTL DEF Spec, SignUpWithinCapacity

-----------------------------------------------------------------------------
(* EventRoster implements SubCall.                                         *)

\* Cancelling open calls (and re-cancelling cancelled ones) is a Cancels step.
LEMMA CancellingImplements ==
    ASSUME RosterInv, NEW C \in SUBSET SubIds, CancelCalls(C),
           \A c \in C : subs[c].st \in {"open", "cancelled"}
    PROVE  Call!CallNext
<1>0. PICK D \in SUBSET SubIds : D = C \cap OpenCalls
  OBVIOUS
<1>1. \A c \in SubIds :
        /\ subs'[c].st = IF c \in D THEN "cancelled" ELSE subs[c].st
        /\ subs'[c].claimant = subs[c].claimant
  BY <1>0 DEF RosterInv, TypeOK, SubRows, CancelCalls, OpenCalls
<1>2. Call!Cancels(D)
  BY <1>0, <1>1 DEF Call!Cancels, OpenCalls
<1>3. QED
  BY <1>2 DEF Call!CallNext

\* Deleting assignments is a Disappear step of their calls.
LEMMA DeletingImplements ==
    ASSUME RosterInv, NEW s \in Sessions, NEW A \in SUBSET Roster,
           DeleteAssignments(s, A)
    PROVE  Call!CallNext
<1>0. PICK D \in SUBSET SubIds : D = {c \in SubIds : subs[c].asg \in A}
  OBVIOUS
<1>1. \A c \in D : subs[c].st # "unused"
  BY <1>0, RosterAssumption DEF RosterInv, CallsOnRoster, Roster
<1>2. \A c \in SubIds :
        /\ subs'[c].st = IF c \in D THEN "deleted" ELSE subs[c].st
        /\ subs'[c].claimant = IF c \in D THEN None ELSE subs[c].claimant
  BY <1>0 DEF RosterInv, TypeOK, DeleteAssignments
<1>3. Call!Disappear(D)
  BY <1>1, <1>2 DEF Call!Disappear
<1>4. QED
  BY <1>3 DEF Call!CallNext

\* Every step of a roster request is, for the calls, a step SubCall allows.
LEMMA StepImplements ==
    ASSUME RosterInv, [Next]_vars PROVE [Call!CallNext]_(Call!callVars)
<1> SUFFICES ASSUME subs' # subs PROVE Call!CallNext
  BY DEF Call!callVars
<1>1. PICK s \in Sessions : Continue(s)
  BY FirstSteps DEF Next, EventEnds, vars, RosterInv
<1>2. CASE RequestSub(s)
  <2>1. PICK c \in SubIds :
          /\ subs[c].st = "unused"
          /\ subs' = [subs EXCEPT ![c] = [st |-> "open", asg |-> txn[s].asg,
                        requester |-> txn[s].actor, claimant |-> None]]
    BY <1>2 DEF RequestSub, IsNextId
  <2>2. subs[c].claimant = None
    BY <2>1 DEF RosterInv, ClaimantOnClaimed
  <2>3. Call!Opens(c)
    BY <2>1, <2>2 DEF Call!Opens, RosterInv, TypeOK
  <2>4. QED
    BY <2>3 DEF Call!CallNext
<1>3. CASE ClaimSub(s)
  <2>1. PICK c \in SubIds, v \in Volunteers : c = txn[s].sub /\ v = txn[s].vol
    BY <1>3 DEF ClaimSub, RosterInv, SoundRequest, WellFormed
  <2>2. Call!Claims(c, v)
    BY <1>3, <2>1 DEF ClaimSub, Call!Claims, RosterInv, TypeOK, SubRows
  <2>3. QED
    BY <2>2 DEF Call!CallNext
<1>4. CASE HandOver(s)
  <2>1. PICK C \in SUBSET SubIds : CancelCalls(C) /\ \A c \in C : c \in OpenCalls
    BY <1>4, CallsHandedOver
  <2>2. QED
    BY <2>1, CancellingImplements DEF OpenCalls
<1>5. CASE CancelSub(s)
  <2>1. /\ txn[s].sub \in SubIds
        /\ subs[txn[s].sub].st \in {"open", "cancelled"}
    BY <1>5 DEF CancelSub, RosterInv, TypeOK, SubRows, ClaimantOnClaimed,
                SoundRequest, WellFormed, Posted
  <2>2. CancelCalls({txn[s].sub})
    BY <1>5 DEF CancelSub
  <2>3. QED
    BY <2>1, <2>2, CancellingImplements
<1>6. CASE CancelEvent(s)
  BY <1>6, CancellingImplements DEF CancelEvent, OpenCalls
<1>7. CASE DeleteSlot(s)
  <2>1. On(txn[s].slot) \in SUBSET Roster
    BY DEF On
  <2>2. QED
    BY <1>7, <2>1, DeletingImplements DEF DeleteSlot
<1>8. CASE RemoveAssignment(s)
  <2>1. {txn[s].asg} \cap Roster \in SUBSET Roster
    OBVIOUS
  <2>2. QED
    BY <1>8, <2>1, DeletingImplements DEF RemoveAssignment
<1>9. QED
  BY <1>1, <1>2, <1>3, <1>4, <1>5, <1>6, <1>7, <1>8
  DEF Continue, AddSlot, UpdateSlot, LockForAssign, JoinSlot, CloseCall,
      UpdateEvent, RollBack

\* The scheduling requests implement the promise about substitution calls:
\* opened once, resolved at most once and for good.
THEOREM ImplementsSubCall == Spec => CallsResolveOnce
<1>1. Init => Call!CallInit
  BY DEF Init, Call!CallInit
<1>2. RosterInv /\ [Next]_vars => [Call!CallNext]_(Call!callVars)
  BY StepImplements
<1>3. QED
  BY <1>1, <1>2, RosterInvariance, PTL DEF Spec, CallsResolveOnce, Call!CallSpec
-----------------------------------------------------------------------------
(* Requests that do not overlap.                                           *)

\* One session: a request begins when the one before it has ended.
OneAtATime == \A s, t \in Sessions : s = t

\* Then what a request checked still holds when it writes.
StillHolds(r) ==
    /\ r.op \in {"assign", "assign_locked"}
         => r.slot \in LiveSlots /\ slots[r.slot].cap = r.cap
    /\ r.op = "update_slot" => Fits(Occupied(r.slot), r.cap)
    /\ r.op = "delete_slot"
         => On(r.slot) = {} /\ \E k \in LiveSlots : k # r.slot
    /\ r.op \in {"remove_assignment", "substitute", "hand_over", "request_sub"}
         => r.asg \in Roster /\ OwnOrManaged(r.actor, r.asg)
    /\ r.op = "hand_over" => OpenCallsOn(r.asg) \subseteq {r.sub}

\* A cancelled event has no request at work on it and no open call.
AtRestOnceCancelled ==
    event = "cancelled" => OpenCalls = {} /\ \A s \in Sessions : txn[s].op = "idle"

\* What the tables promise between requests, and with it the inductive invariant.
Orderly ==
    /\ CapacityRespected
    /\ OpenCallIsTheHolders
    /\ LiveSlots # {}

SerialInv ==
    /\ RosterInv
    /\ Orderly
    /\ AtRestOnceCancelled
    /\ \A s \in Sessions : StillHolds(txn[s])

\* How many are on a slot is a number, and fewer on it are at most as many.
LEMMA SlotCount ==
    ASSUME NEW k
    PROVE  /\ IsFiniteSet(On(k)) /\ Occupied(k) \in Nat
           /\ On(k)' \subseteq On(k) => Occupied(k)' <= Occupied(k)
<1>1. IsFiniteSet(On(k)) /\ IsFiniteSet(On(k)')
  BY FS_Subset, RosterAssumption DEF On, Roster
<1>2. Occupied(k) \in Nat
  BY <1>1, FS_CardinalityType DEF Occupied
<1>3. ASSUME On(k)' \subseteq On(k) PROVE Occupied(k)' <= Occupied(k)
  <2>1. Cardinality(On(k)') <= Cardinality(On(k))
    BY <1>1, <1>3, FS_Subset
  <2>2. QED
    BY <2>1 DEF Occupied
<1>4. QED
  BY <1>1, <1>2, <1>3

\* Slots that gain nobody and keep their capacity stay within it.
LEMMA NobodyAdded ==
    ASSUME TypeOK, CapacityRespected,
           \A k \in LiveSlots' : /\ k \in LiveSlots /\ slots'[k].cap = slots[k].cap
                                 /\ On(k)' \subseteq On(k)
    PROVE  CapacityRespected'
<1> SUFFICES ASSUME NEW k \in LiveSlots' PROVE Fits(Occupied(k), slots[k].cap)'
  BY DEF CapacityRespected
<1>1. Occupied(k)' <= Occupied(k) /\ Occupied(k) \in Nat /\ Occupied(k)' \in Nat
  <2>1. Occupied(k)' <= Occupied(k) /\ Occupied(k) \in Nat
    BY SlotCount
  <2>2. IsFiniteSet(On(k)')
    BY FS_Subset, RosterAssumption DEF On, Roster
  <2>3. Occupied(k)' \in Nat
    BY <2>2, FS_CardinalityType DEF Occupied
  <2>4. QED
    BY <2>1, <2>3
<1>2. Fits(Occupied(k), slots[k].cap) /\ slots'[k].cap = slots[k].cap
  BY DEF CapacityRespected
<1>3. slots[k].cap \in Capacities
  BY DEF TypeOK, SlotRows, LiveSlots
<1>4. QED
  BY <1>1, <1>2, <1>3, RosterAssumption DEF Fits, Capacities

\* Open calls that stand as they were, on assignments whose holder is the same.
LEMMA CallsKept ==
    ASSUME OpenCallIsTheHolders,
           \A c \in OpenCalls' :
               /\ c \in OpenCalls
               /\ subs'[c].requester = subs[c].requester /\ subs'[c].asg = subs[c].asg
               /\ asgs'[subs[c].asg].vol = asgs[subs[c].asg].vol
    PROVE  OpenCallIsTheHolders'
  BY DEF OpenCallIsTheHolders, OwnOrManaged

\* A request alone at work ends: nothing is left to rely on anything.
LEMMA AloneEnds ==
    ASSUME OneAtATime, SerialInv, NEW s \in Sessions, Commit(s), RosterInv',
           Orderly', event' = "cancelled" => OpenCalls' = {}
    PROVE  SerialInv'
<1>1. \A t \in Sessions : txn'[t] = Idle
  BY DEF OneAtATime, Commit, SerialInv, RosterInv, TypeOK
<1>2. \A t \in Sessions : StillHolds(txn[t])'
  BY <1>1 DEF StillHolds, Idle
<1>3. AtRestOnceCancelled'
  BY <1>1 DEF AtRestOnceCancelled, Idle
<1>4. QED
  BY <1>2, <1>3 DEF SerialInv

\* Nobody works on a cancelled event.
LEMMA AtWork ==
    ASSUME SerialInv, NEW s \in Sessions, txn[s].op # "idle"
    PROVE  event # "cancelled"
  BY DEF SerialInv, AtRestOnceCancelled

-----------------------------------------------------------------------------
(* Each finishing step keeps the tables orderly.                           *)

\* A new slot is empty.
LEMMA AddSlotOrderly ==
    ASSUME SerialInv, NEW s \in Sessions, AddSlot(s) PROVE Orderly'
<1> USE DEF SerialInv, Orderly
<1>1. PICK k \in SlotIds :
        /\ slots[k].st = "unused"
        /\ slots' = [slots EXCEPT ![k] = [st |-> "live", cap |-> txn[s].cap]]
  BY DEF AddSlot, IsNextId
<1>2. UNCHANGED <<asgs, subs>> /\ txn[s].cap \in Capacities
  BY DEF AddSlot, RosterInv, TypeOK, Requests
<1>3. /\ LiveSlots' = LiveSlots \cup {k}
      /\ \A j \in LiveSlots : slots'[j] = slots[j]
      /\ slots'[k].cap = txn[s].cap
  BY <1>1 DEF LiveSlots, RosterInv, TypeOK
<1>4. \A j \in SlotIds : On(j)' = On(j)
  BY <1>2 DEF On, Roster
<1>5. On(k) = {}
  BY <1>1 DEF On, RosterInv, RosterOnSlots, LiveSlots
<1>6. CapacityRespected'
  <2>1. ASSUME NEW j \in LiveSlots PROVE Fits(Occupied(j), slots[j].cap)'
    BY <1>3, <1>4 DEF CapacityRespected, Occupied, LiveSlots
  <2>2. Occupied(k)' = 0
    BY <1>4, <1>5, FS_EmptySet DEF Occupied
  <2>3. Fits(Occupied(k), slots[k].cap)'
    BY <1>2, <1>3, <2>2, RosterAssumption DEF Fits, Capacities
  <2>4. QED
    BY <1>3, <2>1, <2>3 DEF CapacityRespected
<1>7. OpenCallIsTheHolders'
  BY <1>2, CallsKept DEF OpenCalls
<1>8. QED
  BY <1>3, <1>6, <1>7

\* A capacity is changed only to one the people there fit in.
LEMMA UpdateSlotOrderly ==
    ASSUME SerialInv, NEW s \in Sessions, UpdateSlot(s) PROVE Orderly'
<1> USE DEF SerialInv, Orderly
<1> DEFINE k == txn[s].slot
<1>1. /\ k \in LiveSlots /\ slots' = [slots EXCEPT ![k].cap = txn[s].cap]
      /\ UNCHANGED <<asgs, subs>> /\ Fits(Occupied(k), txn[s].cap)
  BY DEF UpdateSlot, StillHolds
<1>2. /\ LiveSlots' = LiveSlots /\ slots'[k].cap = txn[s].cap
      /\ \A j \in LiveSlots \ {k} : slots'[j] = slots[j]
  BY <1>1 DEF LiveSlots, RosterInv, TypeOK, SlotRows
<1>3. \A j \in SlotIds : On(j)' = On(j)
  BY <1>1 DEF On, Roster
<1>4. CapacityRespected'
  BY <1>1, <1>2, <1>3 DEF CapacityRespected, Occupied, LiveSlots
<1>5. OpenCallIsTheHolders'
  BY <1>1, CallsKept DEF OpenCalls
<1>6. QED
  BY <1>2, <1>4, <1>5

\* Assignments that go make room, and take their calls along.
LEMMA DeletingOrderly ==
    ASSUME SerialInv, NEW s \in Sessions, NEW A \in SUBSET Roster,
           DeleteAssignments(s, A),
           LiveSlots' \subseteq LiveSlots, LiveSlots' # {},
           \A k \in LiveSlots' : slots'[k] = slots[k]
    PROVE  Orderly'
<1> USE DEF SerialInv, Orderly
<1>1. Roster' = Roster \ A /\ \A a \in Roster' : asgs'[a] = asgs[a]
  BY DeletingAssignments
<1>2. \A k \in LiveSlots' : On(k)' \subseteq On(k)
  BY <1>1 DEF On
<1>3. CapacityRespected'
  BY <1>2, NobodyAdded DEF RosterInv
<1>4. \A c \in OpenCalls' : subs[c].asg \notin A /\ subs'[c] = subs[c]
  BY DEF DeleteAssignments, OpenCalls, RosterInv, TypeOK
<1>5. \A c \in OpenCalls' : c \in OpenCalls /\ subs[c].asg \in Roster'
  BY <1>1, <1>4 DEF OpenCalls, RosterInv, CallsOnRoster
<1>6. OpenCallIsTheHolders'
  BY <1>1, <1>4, <1>5, CallsKept
<1>7. QED
  BY <1>3, <1>6

\* The slot that goes is empty and not the last.
LEMMA DeleteSlotOrderly ==
    ASSUME SerialInv, NEW s \in Sessions, DeleteSlot(s) PROVE Orderly'
<1> DEFINE k == txn[s].slot
<1>1. /\ slots' = [slots EXCEPT ![k] = [st |-> "deleted", cap |-> None]]
      /\ DeleteAssignments(s, On(k)) /\ k \in SlotIds
  BY DEF DeleteSlot, SerialInv, RosterInv, SoundRequest, WellFormed
<1>2. PICK j \in LiveSlots : j # k
  BY DEF DeleteSlot, SerialInv, StillHolds
<1>3. LiveSlots' = LiveSlots \ {k} /\ \A i \in LiveSlots' : slots'[i] = slots[i]
  BY <1>1 DEF LiveSlots, SerialInv, RosterInv, TypeOK
<1>4. On(k) \in SUBSET Roster
  BY DEF On
<1>5. QED
  BY <1>1, <1>2, <1>3, <1>4, DeletingOrderly

\* A withdrawal takes one row and its calls.
LEMMA RemoveAssignmentOrderly ==
    ASSUME SerialInv, NEW s \in Sessions, RemoveAssignment(s) PROVE Orderly'
<1>1. DeleteAssignments(s, {txn[s].asg} \cap Roster) /\ UNCHANGED slots
  BY DEF RemoveAssignment
<1>2. LiveSlots' = LiveSlots /\ LiveSlots # {}
  BY <1>1 DEF LiveSlots, SerialInv, Orderly
<1>3. QED
  BY <1>1, <1>2, DeletingOrderly

\* The capacity a joining request compares with is the slot's own: under the
\* lock for a sign-up, and for an assignment because no update came between.
LEMMA JoinSlotOrderly ==
    ASSUME SerialInv, NEW s \in Sessions, JoinSlot(s) PROVE Orderly'
<1> USE DEF SerialInv, Orderly
<1> DEFINE v == txn[s].vol
<1>0. PICK k : k = txn[s].slot
  OBVIOUS
<1>1. PICK a \in AssignmentIds :
        /\ asgs[a].st = "unused"
        /\ asgs' = [asgs EXCEPT ![a] = [st |-> "live", slot |-> k, vol |-> v]]
  BY <1>0 DEF JoinSlot, IsNextId
<1>2. HoldsLock(s) /\ Fits(Occupied(k) + 1, txn[s].cap) /\ UNCHANGED <<slots, subs>>
  BY <1>0 DEF JoinSlot
<1>3. k \in LiveSlots /\ slots[k].cap = txn[s].cap
  BY <1>0, <1>2 DEF HoldsLock, RosterInv, SoundRequest, Pinned, StillHolds
<1>4. /\ a \notin Roster /\ Roster' = Roster \cup {a}
      /\ asgs'[a].slot = k
      /\ \A b \in Roster : asgs'[b] = asgs[b]
  BY <1>1 DEF RosterInv, TypeOK, Roster
<1>5. /\ On(k)' = On(k) \cup {a} /\ a \notin On(k)
      /\ \A j \in LiveSlots \ {k} : On(j)' = On(j)
  <2>1. \A j : On(j)' = {b \in Roster' : asgs'[b].slot = j}
    BY DEF On
  <2>2. \A j : {b \in Roster' : asgs'[b].slot = j}
                = On(j) \cup (IF j = k THEN {a} ELSE {})
    BY <1>4 DEF On
  <2>3. a \notin On(k)
    BY <1>4 DEF On
  <2>4. QED
    BY <2>1, <2>2, <2>3
<1>6. Occupied(k)' = Occupied(k) + 1
  BY <1>5, SlotCount, FS_AddElement DEF Occupied
<1>7. LiveSlots' = LiveSlots
  BY <1>2 DEF LiveSlots
<1>8. CapacityRespected'
  <2>1. ASSUME NEW j \in LiveSlots \ {k} PROVE Fits(Occupied(j), slots[j].cap)'
    <3>1. Fits(Occupied(j), slots[j].cap)
      BY DEF CapacityRespected
    <3>2. Occupied(j)' = Occupied(j) /\ slots' = slots
      BY <1>2, <1>5 DEF Occupied
    <3>3. QED
      BY <3>1, <3>2 DEF Fits
  <2>2. Fits(Occupied(k), slots[k].cap)'
    BY <1>2, <1>3, <1>6 DEF Fits
  <2>3. QED
    BY <1>7, <2>1, <2>2 DEF CapacityRespected
<1>9. OpenCallIsTheHolders'
  BY <1>2, <1>4, CallsKept DEF OpenCalls, RosterInv, CallsOnRoster
<1>10. QED
  BY <1>7, <1>8, <1>9

\* Whoever opens a call is on the slot, or manages the team.
LEMMA RequestSubOrderly ==
    ASSUME SerialInv, NEW s \in Sessions, RequestSub(s) PROVE Orderly'
<1> USE DEF SerialInv, Orderly
<1>1. /\ OwnOrManaged(txn[s].actor, txn[s].asg) /\ UNCHANGED <<slots, asgs>>
  BY DEF RequestSub, StillHolds
<1>2. PICK c \in SubIds :
        /\ subs[c].st = "unused"
        /\ subs' = [subs EXCEPT ![c] = [st |-> "open", asg |-> txn[s].asg,
                      requester |-> txn[s].actor, claimant |-> None]]
  BY DEF RequestSub, IsNextId
<1>3. /\ subs'[c].asg = txn[s].asg /\ subs'[c].requester = txn[s].actor
      /\ \A d \in SubIds \ {c} : subs'[d] = subs[d]
  BY <1>2 DEF RosterInv, TypeOK
<1>4. OpenCallIsTheHolders'
  BY <1>1, <1>3 DEF OpenCallIsTheHolders, OwnOrManaged, OpenCalls
<1>5. CapacityRespected' /\ LiveSlots' # {}
  BY <1>1 DEF CapacityRespected, LiveSlots, Occupied, On, Roster
<1>6. QED
  BY <1>4, <1>5

\* A row that moves to somebody else stays on its slot; the call it had is over.
LEMMA MovingOrderly ==
    ASSUME SerialInv, NEW a, NEW v, MoveAssignment(a, v), UNCHANGED slots,
           \A c \in OpenCalls' : c \in OpenCalls /\ subs'[c] = subs[c] /\ subs[c].asg # a
    PROVE  Orderly'
<1> USE DEF SerialInv, Orderly
<1>1. /\ a \in Roster /\ Roster' = Roster
      /\ \A b \in Roster : asgs'[b].slot = asgs[b].slot
      /\ \A b \in Roster \ {a} : asgs'[b] = asgs[b]
  BY DEF MoveAssignment, RosterInv, TypeOK, AssignmentRows, Roster
<1>2. LiveSlots' = LiveSlots /\ \A k \in LiveSlots : On(k)' = On(k)
  BY <1>1 DEF LiveSlots, On
<1>3. CapacityRespected'
  BY <1>2 DEF CapacityRespected, Occupied
<1>4. OpenCallIsTheHolders'
  BY <1>1, CallsKept DEF OpenCalls, RosterInv, CallsOnRoster
<1>5. QED
  BY <1>2, <1>3, <1>4

\* A hand-over closes the call of the row it moves.
LEMMA HandOverOrderly ==
    ASSUME SerialInv, NEW s \in Sessions, HandOver(s) PROVE Orderly'
<1> DEFINE a == txn[s].asg
<1>1. MoveAssignment(a, txn[s].vol) /\ UNCHANGED slots /\ txn[s].op = "hand_over"
      /\ CancelCalls({txn[s].sub})
  BY DEF HandOver
<1>2. OpenCallsOn(a) \subseteq {txn[s].sub}
  BY <1>1 DEF SerialInv, StillHolds
<1>3. \A c \in OpenCalls' : c \in OpenCalls /\ subs'[c] = subs[c] /\ c # txn[s].sub
  BY <1>1 DEF CancelCalls, OpenCalls, SerialInv, RosterInv, TypeOK, SubRows
<1>4. \A c \in OpenCalls' : subs[c].asg # a
  BY <1>2, <1>3 DEF OpenCallsOn
<1>5. QED
  BY <1>1, <1>3, <1>4, MovingOrderly

\* A claim moves the row whose only open call it resolves.
LEMMA ClaimSubOrderly ==
    ASSUME SerialInv, NEW s \in Sessions, ClaimSub(s) PROVE Orderly'
<1> DEFINE a == txn[s].asg
           c == txn[s].sub
<1>1. /\ subs[c].st = "open" /\ c \in SubIds /\ subs[c].asg = a
      /\ subs' = [subs EXCEPT ![c].st = "claimed", ![c].claimant = txn[s].vol]
      /\ MoveAssignment(a, txn[s].vol) /\ UNCHANGED slots
  BY DEF ClaimSub, SerialInv, RosterInv, SoundRequest, WellFormed, SeesCall
<1>2. subs'[c].st = "claimed" /\ \A d \in SubIds \ {c} : subs'[d] = subs[d]
  BY <1>1 DEF SerialInv, RosterInv, TypeOK, SubRows
<1>3. \A d \in OpenCalls' : d \in OpenCalls \ {c} /\ subs'[d] = subs[d]
  BY <1>2 DEF OpenCalls
<1>4. \A d \in OpenCalls \ {c} : subs[d].asg # a
  BY <1>1 DEF SerialInv, RosterInv, OneOpenCall, OpenCalls
<1>5. QED
  BY <1>1, <1>3, <1>4, MovingOrderly

\* Cancelling calls leaves fewer open.
LEMMA CancellingOrderly ==
    ASSUME SerialInv, UNCHANGED <<slots, asgs>>, NEW C, CancelCalls(C) PROVE Orderly'
<1> USE DEF SerialInv, Orderly
<1>1. \A c \in OpenCalls' : c \in OpenCalls /\ subs'[c] = subs[c]
  BY DEF CancelCalls, OpenCalls, RosterInv, TypeOK, SubRows
<1>2. OpenCallIsTheHolders'
  BY <1>1, CallsKept
<1>3. CapacityRespected' /\ LiveSlots' # {}
  BY DEF CapacityRespected, LiveSlots, Occupied, On, Roster
<1>4. QED
  BY <1>2, <1>3

\* So does a step that changes none of the three tables.
LEMMA StillOrderly ==
    ASSUME Orderly, UNCHANGED <<slots, asgs, subs>> PROVE Orderly'
  BY DEF Orderly, CapacityRespected, OpenCallIsTheHolders, OwnOrManaged,
         LiveSlots, OpenCalls, Occupied, On, Roster

-----------------------------------------------------------------------------
(* The invariant of requests one at a time.                                *)

\* A request that ends keeps it.
LEMMA ContinueSerial ==
    ASSUME OneAtATime, SerialInv, RosterInv', NEW s \in Sessions, Continue(s)
    PROVE  SerialInv'
<1>1. CASE LockForAssign(s)
  <2>1. /\ txn[s].op = "assign" /\ UNCHANGED <<event, slots, asgs, subs>>
        /\ txn'[s] = [txn[s] EXCEPT !.op = "assign_locked"]
    BY <1>1 DEF LockForAssign, SerialInv, RosterInv, TypeOK
  <2>2. txn'[s].op = "assign_locked" /\ txn'[s].slot = txn[s].slot
        /\ txn'[s].cap = txn[s].cap
    BY <2>1 DEF SerialInv, RosterInv, TypeOK, Requests
  <2>3. StillHolds(txn[s])'
    BY <2>1, <2>2 DEF SerialInv, StillHolds, LiveSlots
  <2>4. \A t \in Sessions : StillHolds(txn[t])'
    BY <2>3 DEF OneAtATime
  <2>5. AtRestOnceCancelled'
    BY <2>1, AtWork DEF AtRestOnceCancelled
  <2>6. QED
    BY <2>1, <2>4, <2>5, StillOrderly DEF SerialInv
<1>2. CASE RollBack(s) \/ UpdateEvent(s)
  <2>1. UNCHANGED <<slots, asgs, subs>> /\ Commit(s)
    BY <1>2 DEF RollBack, UpdateEvent
  <2>2. event' # "cancelled"
    BY <1>2, AtWork DEF RollBack, UpdateEvent
  <2>3. QED
    BY <2>1, <2>2, StillOrderly, AloneEnds DEF SerialInv
<1>3. CASE CancelEvent(s)
  <2>1. Commit(s) /\ CancelCalls(OpenCalls) /\ UNCHANGED <<slots, asgs>>
    BY <1>3 DEF CancelEvent
  <2>2. OpenCalls' = {}
    BY <2>1 DEF CancelCalls, OpenCalls, SerialInv, RosterInv, TypeOK, SubRows
  <2>3. QED
    BY <2>1, <2>2, CancellingOrderly, AloneEnds
<1>4. ASSUME Orderly', Commit(s), UNCHANGED event, txn[s].op # "idle" PROVE SerialInv'
  BY <1>4, AtWork, AloneEnds
<1>5. CASE AddSlot(s) \/ UpdateSlot(s) \/ DeleteSlot(s)
  <2>1. Commit(s) /\ UNCHANGED event /\ txn[s].op # "idle"
    BY <1>5 DEF AddSlot, UpdateSlot, DeleteSlot
  <2>2. QED
    BY <1>4, <1>5, <2>1, AddSlotOrderly, UpdateSlotOrderly, DeleteSlotOrderly
<1>6. CASE JoinSlot(s) \/ RemoveAssignment(s)
  <2>1. Commit(s) /\ UNCHANGED event /\ txn[s].op # "idle"
    BY <1>6 DEF JoinSlot, HoldsLock, RemoveAssignment
  <2>2. QED
    BY <1>4, <1>6, <2>1, JoinSlotOrderly, RemoveAssignmentOrderly
<1>7. CASE RequestSub(s) \/ ClaimSub(s) \/ HandOver(s)
  <2>1. Commit(s) /\ UNCHANGED event /\ txn[s].op # "idle"
    BY <1>7 DEF RequestSub, ClaimSub, HandOver
  <2>2. QED
    BY <1>4, <1>7, <2>1, RequestSubOrderly, ClaimSubOrderly, HandOverOrderly
<1>8. CASE CancelSub(s)
  <2>1. /\ Commit(s) /\ UNCHANGED <<event, slots, asgs>> /\ txn[s].op # "idle"
        /\ CancelCalls({txn[s].sub})
    BY <1>8 DEF CancelSub
  <2>2. QED
    BY <1>4, <2>1, CancellingOrderly
<1>9. CASE CloseCall(s)
  <2> DEFINE a == txn[s].asg
  <2>1. /\ txn[s].op = "substitute" /\ UNCHANGED <<event, slots, asgs, subs>>
    BY <1>9 DEF CloseCall
  <2>2. a \in Roster /\ OwnOrManaged(txn[s].actor, a)
    BY <2>1 DEF SerialInv, StillHolds
  <2>3. /\ txn'[s].op = "hand_over" /\ txn'[s].asg = a /\ txn'[s].actor = txn[s].actor
        /\ OpenCallsOn(a) # {} => txn'[s].sub \in OpenCallsOn(a)
    BY <1>9 DEF CloseCall, SerialInv, RosterInv, TypeOK, Requests
  <2>4. OpenCallsOn(a) \subseteq {txn'[s].sub}
    BY <2>3 DEF SerialInv, RosterInv, OneOpenCall, OpenCallsOn
  <2>5. StillHolds(txn[s])'
    BY <2>1, <2>2, <2>3, <2>4
    DEF StillHolds, OwnOrManaged, Roster, OpenCallsOn, OpenCalls
  <2>6. \A t \in Sessions : StillHolds(txn[t])'
    BY <2>5 DEF OneAtATime
  <2>7. AtRestOnceCancelled'
    BY <2>1, AtWork DEF AtRestOnceCancelled
  <2>8. QED
    BY <2>1, <2>6, <2>7, StillOrderly DEF SerialInv
<1>10. QED
  BY <1>1, <1>2, <1>3, <1>5, <1>6, <1>7, <1>8, <1>9 DEF Continue

\* What a request checks as it begins holds then, and none begins on a
\* cancelled event.
LEMMA BeginsOnTrueFacts ==
    ASSUME SerialInv, NEW s \in Sessions, NEW u \in Volunteers,
           ManagerRequest(s, u) \/ VolunteerRequest(s, u)
    PROVE  StillHolds(txn'[s]) /\ event # "cancelled"
<1> DEFINE Goal == StillHolds(txn'[s]) /\ event # "cancelled"
<1>0. txn \in [Sessions -> Requests]
  BY DEF SerialInv, RosterInv, TypeOK
<1> USE <1>0 DEF Begin, StillHolds, Idle
<1>1. CASE BeginAddSlot(s, u)
  <2>1. PICK cap \in Capacities : Begin(s, [Idle EXCEPT !.op = "add_slot", !.cap = cap])
    BY <1>1 DEF BeginAddSlot
  <2>2. QED
    BY <1>1, <2>1 DEF BeginAddSlot
<1>a. CASE BeginCancelEvent(s, u)
  BY <1>a DEF BeginCancelEvent
<1>b. CASE BeginUpdateEvent(s, u)
  BY <1>b DEF BeginUpdateEvent
<1>2. ASSUME NEW k \in SlotIds, BeginUpdateSlot(s, u, k) PROVE Goal
  BY <1>2 DEF BeginUpdateSlot
<1>3. ASSUME NEW k \in SlotIds, BeginDeleteSlot(s, u, k) PROVE Goal
  <2>1. On(k) = {}
    BY <1>3, SlotCount, FS_EmptySet DEF BeginDeleteSlot, Occupied
  <2>2. QED
    BY <1>3, <2>1 DEF BeginDeleteSlot
<1>4. ASSUME NEW k \in SlotIds, NEW v \in Volunteers, BeginAssign(s, u, v, k)
      PROVE  Goal
  BY <1>4 DEF BeginAssign
<1>5. ASSUME NEW k \in SlotIds, LockForSignUp(s, u, k) PROVE Goal
  BY <1>5 DEF LockForSignUp
<1>6. ASSUME NEW a \in AssignmentIds, BeginRemoveAssignment(s, u, a) PROVE Goal
  BY <1>6 DEF BeginRemoveAssignment
<1>c. ASSUME NEW a \in AssignmentIds, BeginRequestSub(s, u, a) PROVE Goal
  BY <1>c DEF BeginRequestSub
<1>7. ASSUME NEW a \in AssignmentIds, NEW v \in Volunteers, BeginSubstitute(s, u, a, v)
      PROVE  Goal
  BY <1>7 DEF BeginSubstitute
<1>8. ASSUME NEW c \in SubIds, BeginClaimSub(s, u, c) PROVE Goal
  BY <1>8 DEF BeginClaimSub
<1>9. ASSUME NEW c \in SubIds, BeginCancelSub(s, u, c) PROVE Goal
  BY <1>9 DEF BeginCancelSub, SerialInv, AtRestOnceCancelled
<1>10. QED
  BY <1>1, <1>2, <1>3, <1>4, <1>5, <1>6, <1>7, <1>8, <1>9, <1>a, <1>b, <1>c
  DEF ManagerRequest, VolunteerRequest

\* Every step keeps the invariant, if requests do not overlap.
LEMMA SerialNextInv ==
    ASSUME OneAtATime, SerialInv, [Next]_vars PROVE SerialInv'
<1>0. RosterInv'
  BY NextInv DEF SerialInv
<1>1. ASSUME NEW s \in Sessions, Continue(s) PROVE SerialInv'
  BY <1>0, <1>1, ContinueSerial
<1>2. ASSUME NEW s \in Sessions, NEW u \in Volunteers,
             ManagerRequest(s, u) \/ VolunteerRequest(s, u)
      PROVE  SerialInv'
  <2>1. UNCHANGED <<event, slots, asgs, subs, notified>>
    BY <1>2, FirstSteps DEF SerialInv, RosterInv
  <2>2. StillHolds(txn'[s]) /\ event # "cancelled"
    BY <1>2, BeginsOnTrueFacts
  <2>3. StillHolds(txn[s])'
    BY <2>1, <2>2
    DEF StillHolds, LiveSlots, OwnOrManaged, On, Roster, Occupied, OpenCallsOn,
        OpenCalls
  <2>4. \A t \in Sessions : StillHolds(txn[t])'
    BY <2>3 DEF OneAtATime
  <2>5. AtRestOnceCancelled' /\ Orderly'
    BY <2>1, <2>2, StillOrderly DEF AtRestOnceCancelled, SerialInv
  <2>6. QED
    BY <1>0, <2>4, <2>5 DEF SerialInv
<1>3. CASE EventEnds \/ UNCHANGED vars
  <2>1. UNCHANGED <<slots, asgs, subs, txn>> /\ event' \in {event, "past"}
    BY <1>3 DEF EventEnds, vars
  <2>2. \A t \in Sessions : StillHolds(txn[t])'
    BY <2>1 DEF SerialInv, StillHolds, LiveSlots, OwnOrManaged, On, Roster, Occupied,
                OpenCallsOn, OpenCalls
  <2>3. AtRestOnceCancelled' /\ Orderly'
    BY <2>1, StillOrderly DEF AtRestOnceCancelled, SerialInv, OpenCalls
  <2>4. QED
    BY <1>0, <2>2, <2>3 DEF SerialInv
<1>4. QED
  BY <1>1, <1>2, <1>3 DEF Next

\* An event starts with a slot and nobody on it.
LEMMA InitSerial == Init => SerialInv
<1> SUFFICES ASSUME Init PROVE SerialInv
  OBVIOUS
<1>1. RosterInv
  BY InitInv
<1>2. Roster = {} /\ OpenCalls = {} /\ event # "cancelled"
  BY DEF Init, Roster, OpenCalls
<1>3. LiveSlots # {}
  <2>1. PICK K \in (SUBSET SlotIds) \ {{}} : \A k \in K : slots[k].st = "live"
    BY DEF Init
  <2>2. QED
    BY <2>1 DEF LiveSlots
<1>4. CapacityRespected
  <2>1. \A k : Occupied(k) = 0
    BY <1>2, FS_EmptySet DEF Occupied, On
  <2>2. \A k \in LiveSlots : slots[k].cap \in Capacities
    BY <1>1 DEF RosterInv, TypeOK, SlotRows, LiveSlots
  <2>3. QED
    BY <2>1, <2>2, RosterAssumption DEF CapacityRespected, Fits, Capacities
<1>5. \A s \in Sessions : StillHolds(txn[s])
  BY DEF Init, StillHolds, Idle
<1>6. QED
  BY <1>1, <1>2, <1>3, <1>4, <1>5
  DEF SerialInv, Orderly, OpenCallIsTheHolders, AtRestOnceCancelled

\* With one request at a time every request finds, when it writes, what it
\* checked when it began.
THEOREM SerialInvariance ==
    ASSUME OneAtATime PROVE Spec => []SerialInv
<1>1. SerialInv /\ [Next]_vars => SerialInv'
  BY SerialNextInv
<1>2. QED
  BY <1>1, InitSerial, PTL DEF Spec

\* With one request at a time no slot ever holds more people than its capacity,
\* through sign_up, assign, update_slot, claim_sub and substitute.
THEOREM CapacityHolds ==
    ASSUME OneAtATime PROVE Spec => []CapacityRespected
<1>1. SerialInv => CapacityRespected
  BY DEF SerialInv, Orderly
<1>2. QED
  BY <1>1, SerialInvariance, PTL

\* With one request at a time an open call was posted by the person now on the
\* slot or by a manager: every hand-over closes the call before it.
THEOREM CallsAreTheHolders ==
    ASSUME OneAtATime PROVE Spec => []OpenCallIsTheHolders
<1>1. SerialInv => OpenCallIsTheHolders
  BY DEF SerialInv, Orderly
<1>2. QED
  BY <1>1, SerialInvariance, PTL

\* With one request at a time an event keeps at least one slot, and delete_slot
\* removes nobody.
THEOREM SlotsKeepPeople ==
    ASSUME OneAtATime PROVE Spec => SlotsKeepTheirPeople
<1> DEFINE Kept == LiveSlots' # {} /\ \A k \in LiveSlots \ LiveSlots' : On(k) = {}
<1>1. ASSUME SerialInv, Next, NEW k \in LiveSlots \ LiveSlots' PROVE On(k) = {}
  <2>1. PICK s \in Sessions : DeleteSlot(s)
    <3>1. slots' # slots
      BY <1>1 DEF LiveSlots
    <3>2. PICK s \in Sessions : Continue(s)
      BY <1>1, <3>1, FirstSteps DEF Next, EventEnds, SerialInv, RosterInv
    <3>3. ~AddSlot(s)
      BY <1>1 DEF AddSlot, IsNextId, LiveSlots, SerialInv, RosterInv, TypeOK
    <3>4. ~UpdateSlot(s)
      BY <1>1 DEF UpdateSlot, LiveSlots, SerialInv, RosterInv, TypeOK, SlotRows
    <3>5. QED
      BY <3>1, <3>2, <3>3, <3>4
      DEF Continue, LockForAssign, JoinSlot, RemoveAssignment, RequestSub,
          ClaimSub, CloseCall, HandOver, CancelSub, CancelEvent, UpdateEvent,
          RollBack
  <2>2. k = txn[s].slot
    BY <1>1, <2>1 DEF DeleteSlot, LiveSlots, SerialInv, RosterInv, TypeOK
  <2>3. QED
    BY <1>1, <2>1, <2>2 DEF DeleteSlot, SerialInv, StillHolds
<1>2. SerialInv /\ SerialInv' /\ [Next]_vars => [Kept]_vars
  BY <1>1 DEF SerialInv, Orderly
<1>3. SerialInv => LiveSlots # {}
  BY DEF SerialInv, Orderly
<1>4. QED
  BY <1>2, <1>3, SerialInvariance, PTL DEF Spec, SlotsKeepTheirPeople

\* With one request at a time a person who does not manage the team takes
\* nobody else off a slot by remove_assignment or substitute.
THEOREM OnlyOwnSlot ==
    ASSUME OneAtATime PROVE Spec => OwnSlotOnly
<1> DEFINE Kept == \A s \in Sessions : \A a \in Roster :
                     (/\ txn[s].op \in {"remove_assignment", "hand_over"}
                      /\ txn'[s].op = "idle"
                      /\ txn[s].actor \notin Managers
                      /\ asgs'[a] # asgs[a])
                       => asgs[a].vol = txn[s].actor
<1>1. SerialInv /\ [Next]_vars => [Kept]_vars
  <2> SUFFICES ASSUME SerialInv, Next, NEW s \in Sessions, NEW a \in Roster,
                      txn[s].op \in {"remove_assignment", "hand_over"},
                      txn'[s].op = "idle", txn[s].actor \notin Managers,
                      asgs'[a] # asgs[a]
               PROVE  asgs[a].vol = txn[s].actor
    OBVIOUS
  <2>1. Continue(s)
    BY EndsItself DEF SerialInv, RosterInv
  <2>2. RemoveAssignment(s) \/ HandOver(s)
    BY <2>1
    DEF Continue, AddSlot, UpdateSlot, DeleteSlot, LockForAssign, JoinSlot,
        HoldsLock, RequestSub, ClaimSub, CloseCall, CancelSub, CancelEvent,
        UpdateEvent, RollBack
  <2>3. a = txn[s].asg
    BY <2>2 DEF RemoveAssignment, DeleteAssignments, HandOver, MoveAssignment,
                SerialInv, RosterInv, TypeOK, Roster
  <2>4. QED
    BY <2>3 DEF SerialInv, StillHolds, OwnOrManaged
<1>2. QED
  BY <1>1, SerialInvariance, PTL DEF Spec, OwnSlotOnly

\* With one request at a time a cancelled event stays cancelled, keeps its
\* roster and has no open call.
THEOREM CancelledStaysClosed ==
    ASSUME OneAtATime PROVE Spec => CancelledIsClosed
<1> DEFINE Shut == event = "cancelled" => OpenCalls = {}
           Kept == event = "cancelled" => event' = "cancelled" /\ asgs' = asgs
<1>1. SerialInv => Shut
  BY DEF SerialInv, AtRestOnceCancelled
<1>2. SerialInv /\ [Next]_vars => [Kept]_vars
  <2> SUFFICES ASSUME SerialInv, Next, event = "cancelled"
               PROVE  event' = "cancelled" /\ asgs' = asgs
    OBVIOUS
  <2>1. ASSUME NEW s \in Sessions, Continue(s) PROVE FALSE
    <3>1. txn[s].op # "idle"
      BY <2>1
      DEF Continue, AddSlot, UpdateSlot, DeleteSlot, LockForAssign, JoinSlot,
          HoldsLock, RemoveAssignment, RequestSub, ClaimSub, CloseCall,
          HandOver, CancelSub, CancelEvent, UpdateEvent, RollBack
    <3>2. QED
      BY <3>1, AtWork
  <2>2. ~EventEnds
    BY DEF EventEnds
  <2>3. QED
    BY <2>1, <2>2, FirstSteps DEF Next, SerialInv, RosterInv
<1>3. QED
  BY <1>1, <1>2, SerialInvariance, PTL DEF Spec, CancelledIsClosed

-----------------------------------------------------------------------------
(* Series: the order in which a request joins its weeks.                   *)

\* Where a request is at a slot.
AtSlot(r) == r.at \in {"locking", "checking", "inserting"}

\* No two slots of a week have the same name (uq_event_slot_name).
OneSlotPerName ==
    \A j, k \in Slots :
        Week(j) = Week(k) /\ labels[j] = labels[k] /\ labels[j] # "gone" => j = k

\* The weeks to come are one row each, later than every week joined.
RestIsLater(r) ==
    /\ \A q, row \in r.rest : Week(q.slot) = Week(row.slot) => q = row
    /\ \A row \in r.rest : row.start = starts[Week(row.slot)]
    /\ \A k \in r.joined, row \in r.rest : Before(Week(k), Week(row.slot))

\* The slot a request is at lies between the weeks it joined and those to come.
SlotIsBetween(r) ==
    /\ \A k \in r.joined : Before(Week(k), Week(r.slot))
    /\ \A row \in r.rest : Before(Week(r.slot), Week(row.slot))

\* A request has joined its weeks in the order of their events.
InOrder(r) ==
    /\ RestIsLater(r)
    /\ AtSlot(r) => SlotIsBetween(r)
    /\ r.at = "inserting" /\ r.joined = {} => r.from = starts[Week(r.slot)]
    /\ r.at = "sweeping" => \A k \in r.joined : r.from = starts[Week(k)]

SoundSignUp(r) ==
    /\ r \in SignUps
    /\ AtSlot(r) => r.slot \in Slots
    /\ r.at = "idle" => r = NoSignUp
    /\ r.at # "idle" => r.vol \in Helpers
    /\ r.joined = {} => r.rest = {}
    /\ r.at = "sweeping" => \E k \in Slots : r.joined = {k}

SeriesInv ==
    /\ SeriesTypeOK
    /\ OneSlotPerName
    /\ \A s \in Signers : SoundSignUp(signing[s])
    /\ ~moved => \A s \in Signers : InOrder(signing[s])

-----------------------------------------------------------------------------
LEMMA SlotFields ==
    /\ \A k \in Slots : Week(k) \in Weeks /\ k[2] \in Places /\ k = <<Week(k), k[2]>>
    /\ \A row \in Rows : row.slot \in Slots /\ row.start \in 1..LastStart
  BY DEF Slots, Rows, Week

LEMMA NoSignUpIsSound == SoundSignUp(NoSignUp) /\ InOrder(NoSignUp)
<1>1. NoSignUp \in SignUps
  BY SeriesAssumption DEF NoSignUp, SignUps, Ops
<1>2. NoSignUp.at = "idle" /\ NoSignUp.rest = {} /\ NoSignUp.joined = {}
  BY DEF NoSignUp
<1>3. ~AtSlot(NoSignUp)
  BY <1>2 DEF AtSlot
<1>4. RestIsLater(NoSignUp)
  BY <1>2 DEF RestIsLater
<1>5. QED
  BY <1>1, <1>2, <1>3, <1>4 DEF SoundSignUp, InOrder

\* Whoever waits, waits for a request that is further on: the order in which
\* each request joined its weeks is all it takes.
LEMMA OrderSuffices == SeriesInv => WaitsLookAhead
<1> SUFFICES ASSUME SeriesInv, ~moved, NEW s \in Signers, NEW t \in Signers,
                    WaitsFor(s, t)
             PROVE  FurtherOn(t, s)
  BY DEF WaitsLookAhead
<1>1. SUFFICES ASSUME signing[t].at \in {"locking", "inserting"}
               PROVE  FurtherOn(t, s)
  BY DEF FurtherOn
<1>2. \A k \in signing[t].joined : Before(Week(k), Week(signing[t].slot))
  BY <1>1 DEF SeriesInv, InOrder, AtSlot, SlotIsBetween
<1>3. CASE signing[s].at = "locking" /\ signing[s].slot \in Locks(t)
  <2>1. CASE signing[s].slot \in signing[t].joined
    BY <2>1, <1>2 DEF FurtherOn
  <2>2. CASE signing[t].at = "inserting" /\ signing[s].slot = signing[t].slot
    BY <2>2, <1>3 DEF FurtherOn
  <2>3. QED
    BY <1>1, <1>3, <2>1, <2>2 DEF Locks
<1>4. CASE HasInserted(t, signing[s].vol, signing[s].slot)
  BY <1>4, <1>2 DEF HasInserted, FurtherOn
<1>5. QED
  BY <1>3, <1>4 DEF WaitsFor

-----------------------------------------------------------------------------
(* The steps of a request.                                                 *)

LEMMA SeriesInitially == SeriesInit => SeriesInv
<1> SUFFICES ASSUME SeriesInit PROVE SeriesInv
  OBVIOUS
<1>1. SeriesTypeOK
  <2>1. labels \in [Slots -> Labels]
    BY SlotFields DEF SeriesInit, Labels
  <2>2. starts \in [Weeks -> 1..LastStart]
    BY SeriesAssumption DEF SeriesInit
  <2>3. signing \in [Signers -> SignUps]
    BY NoSignUpIsSound DEF SeriesInit, SoundSignUp
  <2>4. edits \in 0..MaxEdits
    BY SeriesAssumption DEF SeriesInit
  <2>5. QED
    BY <2>1, <2>2, <2>3, <2>4 DEF SeriesInit, SeriesTypeOK
<1>2. OneSlotPerName
  BY SlotFields DEF SeriesInit, OneSlotPerName
<1>3. \A s \in Signers : signing[s] = NoSignUp
  BY DEF SeriesInit
<1>4. QED
  BY <1>1, <1>2, <1>3, NoSignUpIsSound DEF SeriesInv

\* A step that leaves the request r sound, and only adds assignments, keeps
\* the invariant.
LEMMA RequestStep ==
    ASSUME SeriesInv, NEW s \in Signers, NEW r,
           signing' = [signing EXCEPT ![s] = r],
           UNCHANGED <<starts, open, labels, edits, moved>>,
           serving' \subseteq Slots \X Helpers,
           SoundSignUp(r), ~moved => InOrder(r)
    PROVE  SeriesInv'
<1>1. \A t \in Signers : signing'[t] = IF t = s THEN r ELSE signing[t]
  BY DEF SeriesInv, SeriesTypeOK
<1>2. SeriesTypeOK'
  BY DEF SeriesInv, SeriesTypeOK, SoundSignUp
<1>3. OneSlotPerName'
  BY DEF SeriesInv, OneSlotPerName
<1>4. \A t \in Signers : SoundSignUp(signing'[t])
  BY <1>1 DEF SeriesInv
<1>5. ASSUME ~moved', NEW t \in Signers PROVE InOrder(signing[t])'
  <2>1. InOrder(signing'[t])
    BY <1>1, <1>5 DEF SeriesInv
  <2>2. QED
    BY <2>1 DEF InOrder, RestIsLater, SlotIsBetween, Before
<1>6. QED
  BY <1>2, <1>3, <1>4, <1>5 DEF SeriesInv, SoundSignUp

\* Going on with the first of the weeks to come puts it between the others.
LEMMA GoesOnStep ==
    ASSUME SeriesInv, NEW s \in Signers, NEW r \in SignUps, GoesOn(s, r),
           UNCHANGED <<starts, open, labels, serving, edits, moved>>,
           r.vol \in Helpers, r.joined = {} => r.rest = {},
           ~moved => RestIsLater(r)
    PROVE  SeriesInv'
<1>1. serving' \subseteq Slots \X Helpers
  BY DEF SeriesInv, SeriesTypeOK
<1>2. CASE r.rest = {} /\ signing' = [signing EXCEPT ![s] =
                                        [r EXCEPT !.at = "committing", !.slot = NoOne]]
  <2> DEFINE now == [r EXCEPT !.at = "committing", !.slot = NoOne]
  <2>1. /\ now \in SignUps /\ now.at = "committing"
        /\ now.rest = r.rest /\ now.joined = r.joined /\ now.vol = r.vol
    BY DEF SignUps
  <2>2. SoundSignUp(now)
    BY <2>1 DEF SoundSignUp, AtSlot
  <2>3. ~moved => InOrder(now)
    BY <2>1 DEF InOrder, RestIsLater, AtSlot
  <2>4. QED
    BY <1>1, <1>2, <2>2, <2>3, RequestStep
<1>3. ASSUME NEW row \in NextRow(r.rest),
             signing' = [signing EXCEPT ![s] =
                           [r EXCEPT !.at = "locking", !.slot = row.slot,
                                     !.rest = r.rest \ {row}]]
      PROVE  SeriesInv'
  <2> DEFINE now == [r EXCEPT !.at = "locking", !.slot = row.slot,
                              !.rest = r.rest \ {row}]
  <2>1. /\ row \in r.rest /\ r.rest \subseteq Rows
        /\ \A q \in r.rest : \/ row.start < q.start
                             \/ row.start = q.start /\ Week(row.slot) <= Week(q.slot)
    BY DEF NextRow, SignUps
  <2>2. /\ now \in SignUps /\ now.at = "locking" /\ now.slot = row.slot
        /\ now.rest = r.rest \ {row} /\ now.joined = r.joined /\ now.vol = r.vol
    BY <2>1, SlotFields DEF SignUps
  <2>3. SoundSignUp(now)
    BY <2>1, <2>2, SlotFields DEF SoundSignUp, AtSlot
  <2>4. ASSUME ~moved PROVE InOrder(now)
    <3>1. RestIsLater(r)
      BY <2>4
    <3>2. RestIsLater(now)
      BY <2>2, <3>1 DEF RestIsLater
    <3>3. \A k \in now.joined : Before(Week(k), Week(now.slot))
      BY <2>1, <2>2, <3>1 DEF RestIsLater
    <3>4. ASSUME NEW q \in now.rest PROVE Before(Week(now.slot), Week(q.slot))
      <4>1. /\ q \in r.rest /\ q # row
            /\ row.start = starts[Week(row.slot)] /\ q.start = starts[Week(q.slot)]
            /\ Week(row.slot) # Week(q.slot)
        BY <2>1, <2>2, <3>1, <3>4 DEF RestIsLater
      <4>2. Week(row.slot) \in Nat /\ Week(q.slot) \in Nat
        BY <2>1, <4>1, SlotFields, SeriesAssumption
      <4>3. QED
        BY <2>1, <2>2, <4>1, <4>2 DEF Before
    <3>5. QED
      BY <2>2, <3>2, <3>3, <3>4 DEF InOrder, SlotIsBetween
  <2>5. QED
    BY <1>1, <1>3, <2>3, <2>4, RequestStep
<1>4. QED
  BY <1>2, <1>3 DEF GoesOn

LEMMA IdleStep ==
    ASSUME SeriesInv, NEW s \in Signers, signing' = [signing EXCEPT ![s] = NoSignUp],
           UNCHANGED <<starts, open, labels, edits, moved>>,
           serving' \subseteq Slots \X Helpers
    PROVE  SeriesInv'
  BY NoSignUpIsSound, RequestStep

LEMMA RefusesStep ==
    ASSUME SeriesInv, NEW s \in Signers, Refuses(s),
           UNCHANGED <<starts, open, labels, serving, edits, moved>>
    PROVE  SeriesInv'
<1>1. serving' \subseteq Slots \X Helpers
  BY DEF SeriesInv, SeriesTypeOK
<1>2. CASE signing[s].joined = {}
  BY <1>1, <1>2, IdleStep DEF Refuses
<1>3. CASE signing[s].joined # {}
  <2>1. SoundSignUp(signing[s]) /\ (~moved => RestIsLater(signing[s]))
    BY DEF SeriesInv, InOrder
  <2>2. signing[s].at # "idle"
    BY <1>3, <2>1 DEF SoundSignUp, NoSignUp
  <2>3. QED
    BY <1>3, <2>1, <2>2, GoesOnStep DEF Refuses, SoundSignUp
<1>4. QED
  BY <1>2, <1>3

LEMMA SignUpStartsInv ==
    ASSUME SeriesInv, NEW s \in Signers, NEW v \in Helpers, NEW k \in Slots,
           NEW op \in Ops, Starts(s, v, k, op)
    PROVE  SeriesInv'
<1> DEFINE r == [at |-> "locking", vol |-> v, op |-> op, from |-> 0,
                 slot |-> k, rest |-> {}, joined |-> {}]
<1>1. /\ r.at = "locking" /\ r.slot = k /\ r.rest = {} /\ r.joined = {}
  OBVIOUS
<1>2. SoundSignUp(r)
  <2>1. r \in SignUps
    BY SeriesAssumption DEF SignUps
  <2>2. QED
    BY <1>1, <2>1 DEF SoundSignUp
<1>3. InOrder(r)
  BY <1>1 DEF InOrder, RestIsLater, SlotIsBetween
<1>4. serving' \subseteq Slots \X Helpers
  BY DEF Starts, SeriesInv, SeriesTypeOK
<1>5. QED
  BY <1>2, <1>3, <1>4, RequestStep DEF Starts

LEMMA LocksSlotInv ==
    ASSUME SeriesInv, NEW s \in Signers, LocksSlot(s) PROVE SeriesInv'
<1>1. CASE labels[signing[s].slot] = "gone"
  BY <1>1, RefusesStep DEF LocksSlot
<1>2. CASE labels[signing[s].slot] # "gone"
  <2> DEFINE r == [signing[s] EXCEPT !.at = "checking"]
  <2>1. SoundSignUp(signing[s]) /\ (~moved => InOrder(signing[s]))
    BY DEF SeriesInv
  <2>2. /\ r \in SignUps /\ r.at = "checking" /\ r.slot = signing[s].slot
        /\ r.rest = signing[s].rest /\ r.joined = signing[s].joined
        /\ signing[s].at = "locking" /\ r.vol = signing[s].vol
    BY <2>1 DEF SoundSignUp, SignUps, LocksSlot
  <2>3. SoundSignUp(r)
    BY <2>1, <2>2 DEF SoundSignUp, AtSlot
  <2>4. ~moved => InOrder(r)
    BY <2>1, <2>2 DEF InOrder, RestIsLater, SlotIsBetween, AtSlot
  <2>5. signing' = [signing EXCEPT ![s] = r]
    BY <1>2 DEF LocksSlot
  <2>6. serving' \subseteq Slots \X Helpers
    BY DEF LocksSlot, SeriesInv, SeriesTypeOK
  <2>7. QED
    BY <2>3, <2>4, <2>5, <2>6, RequestStep DEF LocksSlot
<1>3. QED
  BY <1>1, <1>2

LEMMA ChecksInv ==
    ASSUME SeriesInv, NEW s \in Signers, Checks(s) PROVE SeriesInv'
<1> DEFINE old == signing[s]
           start == IF old.joined = {} THEN starts[Week(old.slot)] ELSE old.from
           r == [old EXCEPT !.at = "inserting", !.from = start]
<1>1. Refuses(s) \/ signing' = [signing EXCEPT ![s] = r]
  BY DEF Checks, SeriesInv, SeriesTypeOK
<1>2. CASE Refuses(s)
  BY <1>2, RefusesStep DEF Checks
<1>3. CASE signing' = [signing EXCEPT ![s] = r]
  <2>1. SoundSignUp(old) /\ (~moved => InOrder(old)) /\ old.at = "checking"
    BY DEF SeriesInv, Checks
  <2>2. old.slot \in Slots /\ old \in SignUps
    BY <2>1 DEF SoundSignUp, AtSlot
  <2>3. start \in 0..LastStart
    <3>1. starts[Week(old.slot)] \in 1..LastStart
      BY <2>2, SlotFields DEF SeriesInv, SeriesTypeOK
    <3>2. old.from \in 0..LastStart
      BY <2>2 DEF SignUps
    <3>3. QED
      BY <3>1, <3>2, SeriesAssumption
  <2>4. /\ r \in SignUps /\ r.at = "inserting" /\ r.slot = old.slot
        /\ r.rest = old.rest /\ r.joined = old.joined /\ r.from = start
        /\ r.vol = old.vol
    BY <2>2, <2>3 DEF SignUps
  <2>5. SoundSignUp(r)
    BY <2>1, <2>2, <2>4 DEF SoundSignUp
  <2>6. ~moved => InOrder(r)
    <3>1. RestIsLater(old) = RestIsLater(r) /\ SlotIsBetween(old) = SlotIsBetween(r)
      BY <2>4 DEF RestIsLater, SlotIsBetween
    <3>2. QED
      BY <2>1, <2>4, <3>1 DEF InOrder, AtSlot
  <2>7. serving' \subseteq Slots \X Helpers
    BY DEF Checks, SeriesInv, SeriesTypeOK
  <2>8. QED
    BY <1>3, <2>5, <2>6, <2>7, RequestStep DEF Checks
<1>4. QED
  BY <1>1, <1>2, <1>3

\* The row just inserted is between those before and those to come.
LEMMA InsertsInv ==
    ASSUME SeriesInv, NEW s \in Signers, Inserts(s) PROVE SeriesInv'
<1> DEFINE old == signing[s]
           now == [old EXCEPT !.joined = @ \cup {old.slot}]
           swept == [now EXCEPT !.at = "sweeping"]
<1>1. \/ signing' = [signing EXCEPT ![s] = NoSignUp]
      \/ old.joined = {} /\ signing' = [signing EXCEPT ![s] = swept]
      \/ GoesOn(s, now)
  BY DEF Inserts
<1>2. /\ UNCHANGED <<starts, open, labels, serving, edits, moved>>
      /\ serving' \subseteq Slots \X Helpers
  BY DEF Inserts, SeriesInv, SeriesTypeOK
<1>3. /\ SoundSignUp(old) /\ (~moved => InOrder(old))
      /\ old.at = "inserting" /\ old.slot \in Slots /\ old \in SignUps
  BY DEF SeriesInv, Inserts, SoundSignUp, AtSlot
<1>4. /\ now \in SignUps /\ now.at = "inserting" /\ now.slot = old.slot
      /\ now.rest = old.rest /\ now.joined = old.joined \cup {old.slot}
      /\ now.from = old.from /\ now.vol = old.vol /\ old.vol \in Helpers
  BY <1>3 DEF SignUps, SoundSignUp
<1>5. ASSUME ~moved PROVE RestIsLater(now)
  BY <1>3, <1>4, <1>5 DEF InOrder, AtSlot, RestIsLater, SlotIsBetween
<1>6. CASE signing' = [signing EXCEPT ![s] = NoSignUp]
  BY <1>2, <1>6, IdleStep
<1>7. CASE old.joined = {} /\ signing' = [signing EXCEPT ![s] = swept]
  <2>1. /\ swept \in SignUps /\ swept.at = "sweeping"
        /\ swept.rest = old.rest /\ swept.joined = {old.slot} /\ swept.from = old.from
        /\ swept.vol = old.vol
    BY <1>4, <1>7 DEF SignUps
  <2>2. SoundSignUp(swept)
    BY <1>3, <1>4, <2>1 DEF SoundSignUp, AtSlot
  <2>3. ASSUME ~moved PROVE InOrder(swept)
    <3>1. RestIsLater(swept)
      BY <1>3, <1>5, <1>4, <1>7, <2>1, <2>3 DEF RestIsLater
    <3>2. old.from = starts[Week(old.slot)]
      BY <1>3, <1>7, <2>3 DEF InOrder
    <3>3. QED
      BY <2>1, <3>1, <3>2 DEF InOrder, AtSlot
  <2>4. QED
    BY <1>2, <1>7, <2>2, <2>3, RequestStep
<1>8. CASE GoesOn(s, now)
  BY <1>2, <1>4, <1>5, <1>8, GoesOnStep
<1>9. QED
  BY <1>1, <1>6, <1>7, <1>8

LEMMA SweepsInv ==
    ASSUME SeriesInv, NEW s \in Signers, Sweeps(s) PROVE SeriesInv'
<1> DEFINE old == signing[s]
           r == [old EXCEPT !.rest = LaterWeeks(old)]
<1>1. /\ SoundSignUp(old) /\ (~moved => InOrder(old))
      /\ old.at = "sweeping" /\ old \in SignUps
  BY DEF SeriesInv, Sweeps, SoundSignUp
<1>2. /\ r \in SignUps /\ r.rest = LaterWeeks(old) /\ r.joined = old.joined
      /\ r.vol \in Helpers
  BY <1>1 DEF SignUps, LaterWeeks, SoundSignUp
<1>3. r.joined = {} => r.rest = {}
  BY <1>2 DEF LaterWeeks
<1>4. ASSUME ~moved PROVE RestIsLater(r)
  <2>1. \A q, row \in r.rest : Week(q.slot) = Week(row.slot) => q = row
    <3> SUFFICES ASSUME NEW q \in r.rest, NEW row \in r.rest,
                        Week(q.slot) = Week(row.slot)
                 PROVE  q = row
      OBVIOUS
    <3>1. q \in Rows /\ row \in Rows /\ q.start = row.start
      BY <1>2 DEF LaterWeeks
    <3>2. PICK k \in Slots : old.joined = {k}
      BY <1>1 DEF SoundSignUp
    <3>3. labels[q.slot] = labels[row.slot] /\ labels[q.slot] # "gone"
      BY <1>2, <3>2 DEF LaterWeeks
    <3>4. q.slot = row.slot
      BY <3>1, <3>3, SlotFields DEF SeriesInv, OneSlotPerName
    <3>5. QED
      BY <3>1, <3>4 DEF Rows
  <2>2. \A row \in r.rest : row.start = starts[Week(row.slot)] /\ row.start > old.from
    BY <1>2 DEF LaterWeeks
  <2>3. \A k \in old.joined : old.from = starts[Week(k)]
    BY <1>1, <1>4 DEF InOrder
  <2>4. \A k \in r.joined, row \in r.rest : Before(Week(k), Week(row.slot))
    <3>1. old.from \in Nat /\ \A row \in r.rest : row.start \in Nat
      BY <1>1, <1>2, SlotFields DEF SignUps
    <3>2. QED
      BY <1>2, <2>2, <2>3, <3>1 DEF Before
  <2>5. QED
    BY <2>1, <2>2, <2>4 DEF RestIsLater
<1>5. QED
  BY <1>2, <1>3, <1>4, GoesOnStep DEF Sweeps

LEMMA CommitsInv ==
    ASSUME SeriesInv, NEW s \in Signers, Commits(s) PROVE SeriesInv'
<1>1. SoundSignUp(signing[s])
  BY DEF SeriesInv
<1>2. \A k \in signing[s].joined : <<k, signing[s].vol>> \in Slots \X Helpers
  <2>1. signing[s].joined \subseteq Slots /\ signing[s].vol \in Helpers \cup {NoOne}
    BY <1>1 DEF SoundSignUp, SignUps
  <2>2. signing[s].vol # NoOne
    BY SeriesAssumption DEF Commits, SeriesInv, SoundSignUp
  <2>3. QED
    BY <2>1, <2>2
<1>3. serving' \subseteq Slots \X Helpers
  BY <1>2 DEF Commits, SeriesInv, SeriesTypeOK
<1>4. QED
  BY <1>3, IdleStep DEF Commits

-----------------------------------------------------------------------------
(* What others do.                                                         *)

\* Times changed under a request are the exception; without one in flight
\* there is no order to keep.
LEMMA MovesInv ==
    ASSUME SeriesInv, NEW w \in Weeks, Moves(w) PROVE SeriesInv'
<1>1. SeriesTypeOK'
  BY SeriesAssumption DEF SeriesInv, SeriesTypeOK, Moves, Edits
<1>2. OneSlotPerName' /\ \A s \in Signers : SoundSignUp(signing[s])'
  BY DEF SeriesInv, OneSlotPerName, SoundSignUp, Moves
<1>3. ASSUME ~moved', NEW s \in Signers PROVE InOrder(signing[s])'
  <2>1. signing[s] = NoSignUp /\ signing' = signing
    BY <1>3 DEF Moves, SeriesInv, SoundSignUp
  <2>2. signing'[s].at = "idle" /\ signing'[s].rest = {} /\ signing'[s].joined = {}
    BY <2>1 DEF NoSignUp
  <2>3. QED
    BY <2>2 DEF InOrder, RestIsLater, AtSlot
<1>4. QED
  BY <1>1, <1>2, <1>3 DEF SeriesInv

\* Edits of slots and assignments keep the requests and the times.
LEMMA EditStep ==
    ASSUME SeriesInv, Edits, UNCHANGED <<starts, signing, moved>>,
           open' \subseteq Weeks, labels' \in [Slots -> Labels], OneSlotPerName',
           serving' \subseteq Slots \X Helpers
    PROVE  SeriesInv'
<1>1. SeriesTypeOK'
  BY SeriesAssumption DEF SeriesInv, SeriesTypeOK, Edits
<1>2. \A s \in Signers : SoundSignUp(signing[s])'
  BY DEF SeriesInv, SoundSignUp
<1>3. ASSUME ~moved', NEW s \in Signers PROVE InOrder(signing[s])'
  BY <1>3 DEF SeriesInv, InOrder, RestIsLater, SlotIsBetween, Before
<1>4. QED
  BY <1>1, <1>2, <1>3 DEF SeriesInv

LEMMA RenamesInv ==
    ASSUME SeriesInv, NEW k \in Slots, Renames(k) PROVE SeriesInv'
<1>1. \A j \in Slots : labels'[j] = IF j = k THEN "renamed" ELSE labels[j]
  BY DEF Renames, SeriesInv, SeriesTypeOK
<1>2. labels' \in [Slots -> Labels]
  BY DEF Renames, SeriesInv, SeriesTypeOK, Labels
<1>3. ASSUME NEW j \in Slots, Week(j) = Week(k), j # k PROVE labels[j] # "renamed"
  <2>1. j = <<Week(k), j[2]>> /\ j[2] \in Places /\ j[2] # k[2]
    BY <1>3, SlotFields
  <2>2. QED
    BY <2>1 DEF Renames
<1>4. OneSlotPerName'
  BY <1>1, <1>3 DEF SeriesInv, OneSlotPerName
<1>5. QED
  BY <1>2, <1>4, EditStep DEF Renames, SeriesInv, SeriesTypeOK

LEMMA DeletesInv ==
    ASSUME SeriesInv, NEW k \in Slots, Deletes(k) PROVE SeriesInv'
<1>1. \A j \in Slots : labels'[j] = IF j = k THEN "gone" ELSE labels[j]
  BY DEF Deletes, SeriesInv, SeriesTypeOK
<1>2. labels' \in [Slots -> Labels]
  BY DEF Deletes, SeriesInv, SeriesTypeOK, Labels
<1>3. OneSlotPerName'
  BY <1>1 DEF SeriesInv, OneSlotPerName
<1>4. QED
  BY <1>2, <1>3, EditStep DEF Deletes, SeriesInv, SeriesTypeOK

-----------------------------------------------------------------------------
LEMMA SeriesStep == SeriesInv /\ [SeriesNext]_seriesVars => SeriesInv'
<1> SUFFICES ASSUME SeriesInv, [SeriesNext]_seriesVars PROVE SeriesInv'
  OBVIOUS
<1>1. ASSUME NEW s \in Signers, NEW v \in Helpers, NEW k \in Slots, NEW op \in Ops,
             Starts(s, v, k, op)
      PROVE  SeriesInv'
  BY <1>1, SignUpStartsInv
<1>2. ASSUME NEW s \in Signers, LocksSlot(s) PROVE SeriesInv'
  BY <1>2, LocksSlotInv
<1>3. ASSUME NEW s \in Signers, Checks(s) PROVE SeriesInv'
  BY <1>3, ChecksInv
<1>4. ASSUME NEW s \in Signers, Inserts(s) PROVE SeriesInv'
  BY <1>4, InsertsInv
<1>5. ASSUME NEW s \in Signers, Sweeps(s) PROVE SeriesInv'
  BY <1>5, SweepsInv
<1>6. ASSUME NEW s \in Signers, Commits(s) PROVE SeriesInv'
  BY <1>6, CommitsInv
<1>7. ASSUME NEW s \in Signers, RollsBack(s) PROVE SeriesInv'
  BY <1>7, IdleStep DEF RollsBack, SeriesInv, SeriesTypeOK
<1>8. ASSUME NEW w \in Weeks, Moves(w) PROVE SeriesInv'
  BY <1>8, MovesInv
<1>9. ASSUME NEW w \in Weeks, Cancels(w) PROVE SeriesInv'
  BY <1>9, EditStep DEF Cancels, SeriesInv, SeriesTypeOK, OneSlotPerName
<1>10. ASSUME NEW k \in Slots, Renames(k) PROVE SeriesInv'
  BY <1>10, RenamesInv
<1>11. ASSUME NEW k \in Slots, Deletes(k) PROVE SeriesInv'
  BY <1>11, DeletesInv
<1>12. ASSUME NEW n \in serving, Withdraws(n) PROVE SeriesInv'
  BY <1>12, EditStep DEF Withdraws, SeriesInv, SeriesTypeOK, OneSlotPerName
<1>13. CASE UNCHANGED seriesVars
  BY <1>13 DEF seriesVars, SeriesInv, SeriesTypeOK, OneSlotPerName, SoundSignUp,
               InOrder, RestIsLater, SlotIsBetween, Before
<1>14. QED
  BY <1>1, <1>2, <1>3, <1>4, <1>5, <1>6, <1>7, <1>8, <1>9, <1>10, <1>11, <1>12, <1>13
  DEF SeriesNext

\* The order in which requests join their weeks is kept by every step of theirs
\* and by every edit, for any number of weeks, slots and requests.
THEOREM SeriesInvariance == SeriesSpec => []SeriesInv
  BY SeriesInitially, SeriesStep, PTL DEF SeriesSpec

\* SignUps, rows and names stay what the tables and the code's types allow.
THEOREM SeriesTypeCorrect == SeriesSpec => []SeriesTypeOK
<1>1. SeriesInv => SeriesTypeOK
  BY DEF SeriesInv
<1>2. QED
  BY <1>1, SeriesInvariance, PTL

\* sign_up and sign_up_series never deadlock among themselves, unless an event
\* is moved to another time while one of them runs: whoever waits, waits for a
\* request that is further on.
THEOREM NoCircularWait == SeriesSpec => []WaitsLookAhead
  BY OrderSuffices, SeriesInvariance, PTL
=============================================================================
