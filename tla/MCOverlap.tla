----------------------------- MODULE MCOverlap -----------------------------
(* Requests that overlap: on the roster of an event, or on the proposals   *)
(* of a team.  The two share no state: a behaviour takes up one and leaves *)
(* the other as it began.                                                  *)
EXTENDS MCEventRoster, MCElections

VARIABLE part

\* Beside an election the event has its slots, and nobody on them.
BareRoster == \A k \in SlotIds : slots[k] = [st |-> "live", cap |-> None]

OverlapInit ==
    /\ Init /\ ElectionsInit
    /\ \/ part = "roster"
       \/ part = "elections" /\ BareRoster

OverlapNext ==
    /\ UNCHANGED part
    /\ \/ part = "roster" /\ Next /\ UNCHANGED electionVars
       \/ part = "elections" /\ ElectionsNext /\ UNCHANGED vars

OverlapSpec == OverlapInit /\ [][OverlapNext]_<<part, vars, electionVars>>

OverlapView == <<part, RosterView, electionVars>>
=============================================================================
