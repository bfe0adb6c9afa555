--------------------------- MODULE MCEventRoster ---------------------------
(* Instances of EventRoster small enough for TLC.                          *)
EXTENDS EventRoster, TLC

CONSTANTS v1, v2, v3, r1, r2

\* Volunteer v1 also coordinates the team.
MCTwo == {v1, v2}
MCThree == {v1, v2, v3}
MCManagers == {v1}

MCRequests == {r1, r2}

RequestSymmetry == Permutations(MCRequests) \cup Permutations({v2, v3})

Named ==
    {asgs[a].vol : a \in AssignmentIds}
        \cup UNION {{subs[c].requester, subs[c].claimant} : c \in SubIds}
        \cup UNION {{txn[s].actor, txn[s].vol} : s \in Sessions}

Pending(ops) == \E s \in Sessions : txn[s].op \in ops

\* One unlimited slot and one sign-up, with two calls on it or with three people
\* over one; or two people over two slots, two assignments and one call, while
\* nobody withdraws or touches the event itself.  What is left out here the
\* serial run takes.
FewRows ==
    \/ /\ slots[1] = [st |-> "live", cap |-> None]
       /\ slots[2].st = "unused" /\ asgs[2].st = "unused"
       /\ subs[2].st = "unused" \/ ~({v2, v3} \subseteq Named)
       /\ ~Pending({"add_slot", "update_slot", "assign", "update_event"})
    \/ /\ slots[1].st # "unused" /\ subs[2].st = "unused"
       /\ ~({v2, v3} \subseteq Named)
       /\ event = "open"
       /\ ~Pending({"add_slot", "remove_assignment", "cancel_event", "update_event"})

\* No action reads notified, and direct only decides what goes there: states that
\* differ in these only have the same future.
RosterView ==
    <<event, slots, asgs, subs,
      [s \in Sessions |-> [txn[s] EXCEPT !.direct = FALSE]]>>
=============================================================================
