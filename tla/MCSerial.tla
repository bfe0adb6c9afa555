------------------------------ MODULE MCSerial ------------------------------
(* One request at a time, and the count it leads to: the roster of an event *)
(* and the proposals of a team, each under a single session, the accounts   *)
(* and the people they are for, and the STAR count over every small         *)
(* profile.  They share no state: a behaviour takes up one of the four and  *)
(* leaves the others as they began.                                         *)
EXTENDS EventRoster, Elections, Accounts, StarTally

\* Volunteer v1 also coordinates the team; Ann is of its core, Ben of the
\* clergy.
CONSTANTS clerk, v1, v2, ann, ben

VARIABLE part

\* The second proposal is opened, and then left alone; midnight falls between
\* requests.
ElectionBounds ==
    /\ ruling'[clerk].proposal # 2
    /\ today' # today => ruling[clerk].op = "idle"

NoLetters == [l \in LinkIds |-> Null]

\* Nobody signs in yet; or the first person does, in every way there is; or they
\* do, and a second account is nobody's, its link still out.
MCOpenings ==
    LET used == [NewRow("x", 1) EXCEPT !.password = TRUE, !.seen = TRUE, !.api_token = TRUE]
        invited == [NewRow("y", Null) EXCEPT !.invite = 1]
        link == [kind |-> "invite", account |-> 2, to |-> "y"]
    IN  {[accounts |-> NoRows, mailed |-> NoLetters],
         [accounts |-> [NoRows EXCEPT ![1] = used], mailed |-> NoLetters],
         [accounts |-> [NoRows EXCEPT ![1] = used, ![2] = invited],
          mailed |-> [NoLetters EXCEPT ![1] = link]]}

NobodySignsIn == accounts = NoRows /\ \A v \in PersonIds : people[v].email = "x"

Unlimited == \A k \in {1, 2} : slots[k] = [st |-> "live", cap |-> None]

SerialInit ==
    /\ Init /\ ElectionsInit /\ AccountsInit /\ TallyInit
    /\ \/ part = "roster" /\ contenders = {} /\ NobodySignsIn
       \/ part = "election" /\ contenders = {} /\ Unlimited /\ NobodySignsIn
       \/ part = "accounts" /\ contenders = {} /\ Unlimited
       \/ part = "tally" /\ Unlimited /\ NobodySignsIn

SerialNext ==
    /\ UNCHANGED part
    /\ \/ part = "roster" /\ Next /\ UNCHANGED <<electionVars, accountVars, tallyVars>>
       \/ part = "election" /\ ElectionsNext /\ ElectionBounds
          /\ UNCHANGED <<vars, accountVars, tallyVars>>
       \/ part = "accounts" /\ AccountsNext
          /\ UNCHANGED <<vars, electionVars, tallyVars>>
       \/ part = "tally" /\ TallyNext /\ UNCHANGED <<vars, electionVars, accountVars>>

SerialSpec == SerialInit /\ [][SerialNext]_<<part, vars, electionVars, accountVars, tallyVars>>

\* Profiles are told apart by their counts (ProfileView).
SerialView == <<part, ProfileView, vars, electionVars, accountVars>>
=============================================================================
