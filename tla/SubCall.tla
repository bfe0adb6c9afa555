------------------------------ MODULE SubCall ------------------------------
(***************************************************************************)
(* What the scheduling service promises of a substitution call             *)
(* (event_sub_request): it is opened once, it is resolved at most once --  *)
(* by one claimant, or by being cancelled -- and a resolution is final.  A *)
(* call disappears only with the assignment it was opened for.  Several    *)
(* calls may be cancelled, or disappear, in one transaction.               *)
(* EventRoster implements this specification.                              *)
(***************************************************************************)
CONSTANTS Volunteers, SubIds, None

VARIABLES status, claimant

callVars == <<status, claimant>>

CallStates == {"unused", "open", "claimed", "cancelled", "deleted"}

CallInit ==
    /\ status = [c \in SubIds |-> "unused"]
    /\ claimant = [c \in SubIds |-> None]

Opens(c) ==
    /\ status[c] = "unused"
    /\ status' = [status EXCEPT ![c] = "open"]
    /\ UNCHANGED claimant

Claims(c, v) ==
    /\ status[c] = "open"
    /\ status' = [status EXCEPT ![c] = "claimed"]
    /\ claimant' = [claimant EXCEPT ![c] = v]

Cancels(C) ==
    /\ \A c \in C : status[c] = "open"
    /\ status' = [c \in SubIds |-> IF c \in C THEN "cancelled" ELSE status[c]]
    /\ UNCHANGED claimant

Disappear(C) ==
    /\ \A c \in C : status[c] # "unused"
    /\ status' = [c \in SubIds |-> IF c \in C THEN "deleted" ELSE status[c]]
    /\ claimant' = [c \in SubIds |-> IF c \in C THEN None ELSE claimant[c]]

CallNext ==
    \/ \E c \in SubIds : Opens(c) \/ \E v \in Volunteers : Claims(c, v)
    \/ \E C \in SUBSET SubIds : Cancels(C) \/ Disappear(C)

CallSpec == CallInit /\ [][CallNext]_callVars
=============================================================================
