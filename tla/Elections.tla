------------------------------ MODULE Elections ------------------------------
(***************************************************************************)
(* Filling a seat of one team by nomination and ballot                     *)
(* (services/elections.py): proposals, their candidates, voting rolls and  *)
(* ballots, under concurrent requests and a passing calendar.              *)
(*                                                                         *)
(* A request runs in one READ COMMITTED transaction.  Its first step reads *)
(* the proposal and checks status and phase against the day the request    *)
(* began; its last step writes, by primary key, whatever others committed  *)
(* since.  That last step tests only what the code re-reads there (the     *)
(* candidate, the seat on the roll) and what the database enforces: unique *)
(* indexes, CHECKs and foreign keys.                                       *)
(*                                                                         *)
(* A candidate or a voter is named by its volunteer: the row is re-read in *)
(* the step that writes, so its id is never stale.  Requests modelled are  *)
(* those whose actor may make them (a manager of the team; for a           *)
(* nomination also a person on the roll; for a ballot its own voter).      *)
(***************************************************************************)
EXTENDS Naturals, FiniteSets

CONSTANTS
    ElectionSessions,   \* requests that may be in flight at once
    People,             \* volunteers
    Clergy,             \* members of the team named "Clergy"
    Core,               \* volunteers with the role "core" on the team at the start
    Seats,              \* roles proposals are opened for
    ProposalIds,        \* bound: proposals ever opened
    Scores,             \* scores a voter gives, of 0..5
    LastDay,            \* bound: the calendar runs over 1..LastDay, deadlines
                        \* over one day more
    Nil                 \* SQL NULL

TeamRoles == {"leader", "second", "core", "member"}

ASSUME ElectionsAssumption ==
    /\ Clergy \subseteq People /\ Core \subseteq People
    /\ Seats \subseteq TeamRoles
    /\ 0 \in Scores /\ Scores \subseteq 0..5
    /\ LastDay \in Nat \ {0}
    /\ Nil \notin Nat \cup People \cup TeamRoles \cup ProposalIds

VARIABLES
    today,      \* the parish day
    proposals,  \* proposal rows
    candidates, \* candidates[p]: volunteers nominated on p
    voters,     \* voters[p]: volunteers on p's roll
    ballots,    \* ballots[p][<<v, c>>]: the score v gave c on p, or Nil
    role,       \* role[v]: v's role on the team, or Nil
    ruling      \* the request each session is running

electionVars == <<today, proposals, candidates, voters, ballots, role, ruling>>

Days == 1..LastDay

Deadlines == 1..LastDay + 1

Ballots == [People \X People -> Scores \cup {Nil}]

ProposalRows ==
    [status : {"unused", "open", "appointed", "cancelled"},
     seat : Seats \cup {Nil},
     d1 : Deadlines \cup {Nil},                 \* nomination_deadline
     d2 : Deadlines \cup {Nil},                 \* voting_deadline
     appointed : People \cup {Nil}]        \* appointed_candidate_id

Rulings ==
    [op : {"idle", "create", "update", "add_candidate", "remove_candidate",
           "add_voter", "remove_voter", "cast", "appoint", "cancel",
           "new_round"},
     proposal : ProposalIds \cup {Nil},
     who : People \cup {Nil},              \* the candidate or voter concerned
     names : SUBSET People,                \* create: the first candidates
     seat : Seats \cup {Nil},
     d1 : Deadlines \cup {Nil}, d2 : Deadlines \cup {Nil}]     \* Nil: column not written

NoRuling == [op |-> "idle", proposal |-> Nil, who |-> Nil, names |-> {},
         seat |-> Nil, d1 |-> Nil, d2 |-> Nil]

ElectionsTypeOK ==
    /\ today \in Days
    /\ proposals \in [ProposalIds -> ProposalRows]
    /\ candidates \in [ProposalIds -> SUBSET People]
    /\ voters \in [ProposalIds -> SUBSET People]
    /\ ballots \in [ProposalIds -> Ballots]
    /\ role \in [People -> TeamRoles \cup {Nil}]
    /\ ruling \in [ElectionSessions -> Rulings]

-----------------------------------------------------------------------------
(* Reading the tables.                                                     *)

NoBallots == [vc \in People \X People |-> Nil]

PhaseOfDates(d1, d2) ==
    CASE today <= d1 -> "nominating"
      [] today > d1 /\ today <= d2 -> "voting"
      [] today > d1 /\ today > d2 -> "concluded"

InPhase(p, phase) ==
    /\ proposals[p].status = "open"
    /\ PhaseOfDates(proposals[p].d1, proposals[p].d2) = phase

GoodDeadlines(d1, d2) == d1 >= today /\ d2 > d1

Voted(p) == {v \in People : \E c \in People : ballots[p][<<v, c>>] # Nil}

HasBallots(p) == Voted(p) # {}

TallyVisible(p) ==
    \/ proposals[p].status = "appointed"
    \/ proposals[p].status # "unused" /\ today > proposals[p].d2

DefaultRoll ==
    {v \in People : role[v] \in {"leader", "second", "core"}} \cup Clergy

OpenFor(seat) ==
    {p \in ProposalIds : proposals[p].status = "open" /\ proposals[p].seat = seat}

IsNextProposal(p) ==
    /\ proposals[p].status = "unused"
    /\ p = CHOOSE q \in ProposalIds : proposals[q].status = "unused"

-----------------------------------------------------------------------------
(* Steps shared by the handlers.                                           *)

BeginRuling(s, request) ==
    /\ ruling[s].op = "idle"
    /\ ruling' = [ruling EXCEPT ![s] = request]
    /\ UNCHANGED <<today, proposals, candidates, voters, ballots, role>>

\* A request that needs proposal p in the given phase, about person v.
BeginInPhase(s, op, p, phase, v) ==
    /\ InPhase(p, phase)
    /\ BeginRuling(s, [NoRuling EXCEPT !.op = op, !.proposal = p, !.who = v])

CommitRuling(s) == ruling' = [ruling EXCEPT ![s] = NoRuling]

\* A refusal, a violated constraint, a lost connection.
GiveUpRuling(s) ==
    /\ ruling[s].op # "idle"
    /\ CommitRuling(s)
    /\ UNCHANGED <<today, proposals, candidates, voters, ballots, role>>

\* DELETE of a candidate or voter takes their ballot rows with it (cascade).
DropBallots(p, gone) ==
    ballots' = [ballots EXCEPT ![p] =
                  [vc \in People \X People |->
                     IF vc \in gone THEN Nil ELSE @[vc]]]

\* Broken: no uq_proposal_open behind the insert.
InsertUnchecked(kept, p, seat, d1, d2, names, roll) ==
    /\ IsNextProposal(p)
    /\ proposals' = [kept EXCEPT ![p] =
                       [status |-> "open", seat |-> seat, d1 |-> d1, d2 |-> d2,
                        appointed |-> Nil]]
    /\ candidates' = [candidates EXCEPT ![p] = names]
    /\ voters' = [voters EXCEPT ![p] = roll]

\* INSERT of an open proposal with its candidates and roll, over the proposal
\* rows "kept": uq_proposal_open refuses a second open one for the seat.
InsertProposal(kept, p, seat, d1, d2, names, roll) ==
    /\ IsNextProposal(p)
    /\ \A q \in ProposalIds : ~(kept[q].status = "open" /\ kept[q].seat = seat)
    /\ proposals' = [kept EXCEPT ![p] =
                       [status |-> "open", seat |-> seat, d1 |-> d1, d2 |-> d2,
                        appointed |-> Nil]]
    /\ candidates' = [candidates EXCEPT ![p] = names]
    /\ voters' = [voters EXCEPT ![p] = roll]

-----------------------------------------------------------------------------
(* create_proposal and update_proposal.                                    *)

\* The permission and the input are checked; nothing is read before the INSERT.
BeginCreate(s) ==
    \E seat \in Seats, names \in (SUBSET People) \ {{}}, d1, d2 \in Deadlines :
        /\ GoodDeadlines(d1, d2)
        /\ BeginRuling(s, [NoRuling EXCEPT !.op = "create", !.names = names, !.seat = seat,
                                           !.d1 = d1, !.d2 = d2])

Create(s) ==
    LET t == ruling[s] IN
    /\ t.op = "create"
    /\ \E p \in ProposalIds :
         InsertProposal(proposals, p, t.seat, t.d1, t.d2, t.names, DefaultRoll)
    /\ CommitRuling(s)
    /\ UNCHANGED <<today, ballots, role>>

\* Broken: nominations may reopen under cast ballots.
BeginUpdateAnyTime(s, p) ==
    /\ proposals[p].status = "open"
    /\ \E d1, d2 \in Deadlines :
         /\ d2 > d1
         /\ BeginRuling(s, [NoRuling EXCEPT
                                  !.op = "update", !.proposal = p,
                                  !.d1 = IF d1 = proposals[p].d1 THEN Nil ELSE d1,
                                  !.d2 = IF d2 = proposals[p].d2 THEN Nil ELSE d2])

\* A deadline left out, or given the value it has, is not written.
BeginUpdate(s, p) ==
    /\ proposals[p].status = "open"
    /\ \E d1, d2 \in Deadlines :
         /\ d2 > d1
         /\ d1 >= today => ~HasBallots(p)
         /\ BeginRuling(s, [NoRuling EXCEPT
                                  !.op = "update", !.proposal = p,
                                  !.d1 = IF d1 = proposals[p].d1 THEN Nil ELSE d1,
                                  !.d2 = IF d2 = proposals[p].d2 THEN Nil ELSE d2])

\* An UPDATE by primary key; ck_proposal_deadlines is the only test left.
Update(s) ==
    LET p == ruling[s].proposal
        d1 == IF ruling[s].d1 = Nil THEN proposals[p].d1 ELSE ruling[s].d1
        d2 == IF ruling[s].d2 = Nil THEN proposals[p].d2 ELSE ruling[s].d2
    IN
    /\ ruling[s].op = "update"
    /\ d1 < d2
    /\ proposals' = [proposals EXCEPT ![p].d1 = d1, ![p].d2 = d2]
    /\ CommitRuling(s)
    /\ UNCHANGED <<today, candidates, voters, ballots, role>>

-----------------------------------------------------------------------------
(* Candidates and the roll, while nominating.                              *)

\* Broken: the roll and the candidates may change once voting has begun.
BeginEditNamesLate(s, p) ==
    \E op \in {"add_candidate", "remove_candidate", "add_voter", "remove_voter"} :
        \E phase \in {"nominating", "voting"}, v \in People :
            BeginInPhase(s, op, p, phase, v)

BeginEditNames(s, p) ==
    \E op \in {"add_candidate", "remove_candidate", "add_voter", "remove_voter"} :
        \E v \in People : BeginInPhase(s, op, p, "nominating", v)

\* uq_proposal_candidate refuses a second nomination of the same person.
AddCandidate(s) ==
    LET p == ruling[s].proposal IN
    /\ ruling[s].op = "add_candidate"
    /\ ruling[s].who \notin candidates[p]
    /\ candidates' = [candidates EXCEPT ![p] = @ \cup {ruling[s].who}]
    /\ CommitRuling(s)
    /\ UNCHANGED <<today, proposals, voters, ballots, role>>

\* Broken: the candidate's ballot rows stay.
RemoveCandidateOnly(s) ==
    LET p == ruling[s].proposal
        c == ruling[s].who
    IN
    /\ ruling[s].op = "remove_candidate"
    /\ c \in candidates[p]
    /\ candidates' = [candidates EXCEPT ![p] = @ \ {c}]
    /\ proposals' = [proposals EXCEPT
                       ![p].appointed = IF @ = c THEN Nil ELSE @]
    /\ CommitRuling(s)
    /\ UNCHANGED <<today, voters, ballots, role>>

\* The foreign keys do the rest: ballots cascade, an appointment is nulled.
RemoveCandidate(s) ==
    LET p == ruling[s].proposal
        c == ruling[s].who
    IN
    /\ ruling[s].op = "remove_candidate"
    /\ c \in candidates[p]
    /\ candidates' = [candidates EXCEPT ![p] = @ \ {c}]
    /\ proposals' = [proposals EXCEPT
                       ![p].appointed = IF @ = c THEN Nil ELSE @]
    /\ DropBallots(p, People \X {c})
    /\ CommitRuling(s)
    /\ UNCHANGED <<today, voters, role>>

\* uq_proposal_voter refuses a second seat for the same person.
AddVoter(s) ==
    LET p == ruling[s].proposal IN
    /\ ruling[s].op = "add_voter"
    /\ ruling[s].who \notin voters[p]
    /\ voters' = [voters EXCEPT ![p] = @ \cup {ruling[s].who}]
    /\ CommitRuling(s)
    /\ UNCHANGED <<today, proposals, candidates, ballots, role>>

RemoveVoter(s) ==
    LET p == ruling[s].proposal
        v == ruling[s].who
    IN
    /\ ruling[s].op = "remove_voter"
    /\ v \in voters[p]
    /\ voters' = [voters EXCEPT ![p] = @ \ {v}]
    /\ DropBallots(p, {v} \X People)
    /\ CommitRuling(s)
    /\ UNCHANGED <<today, proposals, candidates, role>>

-----------------------------------------------------------------------------
(* cast_ballot.                                                            *)

\* Broken: the voting deadline is not looked at.
BeginCastAnyTime(s, p, v) ==
    /\ v \in voters[p]
    /\ \E phase \in {"voting", "concluded"} : BeginInPhase(s, "cast", p, phase, v)

BeginCast(s, p, v) ==
    /\ v \in voters[p]
    /\ BeginInPhase(s, "cast", p, "voting", v)

\* Broken: a score out of range is taken.
CastAnyScore(s) ==
    LET p == ruling[s].proposal
        v == ruling[s].who
    IN
    /\ ruling[s].op = "cast"
    /\ v \in voters[p]
    /\ candidates[p] # {}
    /\ \E score \in [candidates[p] -> Scores \cup {6}] :
         ballots' = [ballots EXCEPT ![p] =
                       [vc \in People \X People |->
                          IF vc[1] = v /\ vc[2] \in candidates[p]
                          THEN score[vc[2]] ELSE @[vc]]]
    /\ CommitRuling(s)
    /\ UNCHANGED <<today, proposals, candidates, voters, role>>

\* One upsert writes a row per candidate read; a candidate the voter did not
\* score gets 0, so every ballot written is whole.
Cast(s) ==
    LET p == ruling[s].proposal
        v == ruling[s].who
    IN
    /\ ruling[s].op = "cast"
    /\ v \in voters[p]
    /\ candidates[p] # {}
    /\ \E score \in [candidates[p] -> Scores] :
         ballots' = [ballots EXCEPT ![p] =
                       [vc \in People \X People |->
                          IF vc[1] = v /\ vc[2] \in candidates[p]
                          THEN score[vc[2]] ELSE @[vc]]]
    /\ CommitRuling(s)
    /\ UNCHANGED <<today, proposals, candidates, voters, role>>

-----------------------------------------------------------------------------
(* Decisions: appoint, cancel, new_round.                                  *)

BeginAppoint(s, p, c) == BeginInPhase(s, "appoint", p, "concluded", c)

\* Broken: the candidate is not looked up before being written.
AppointUnchecked(s) ==
    LET p == ruling[s].proposal
        c == ruling[s].who
    IN
    /\ ruling[s].op = "appoint"
    /\ proposals' = [proposals EXCEPT ![p].status = "appointed", ![p].appointed = c]
    /\ role' = [role EXCEPT ![c] = proposals[p].seat]
    /\ CommitRuling(s)
    /\ UNCHANGED <<today, candidates, voters, ballots>>

\* The decision and the membership (memberships.assign) commit together.
Appoint(s) ==
    LET p == ruling[s].proposal
        c == ruling[s].who
    IN
    /\ ruling[s].op = "appoint"
    /\ c \in candidates[p]
    /\ proposals' = [proposals EXCEPT ![p].status = "appointed", ![p].appointed = c]
    /\ role' = [role EXCEPT ![c] = proposals[p].seat]
    /\ CommitRuling(s)
    /\ UNCHANGED <<today, candidates, voters, ballots>>

BeginCancel(s, p) ==
    /\ proposals[p].status = "open"
    /\ BeginRuling(s, [NoRuling EXCEPT !.op = "cancel", !.proposal = p])

\* Writes the status only: an appointment made meanwhile keeps its candidate.
Cancel(s) ==
    /\ ruling[s].op = "cancel"
    /\ proposals' = [proposals EXCEPT ![ruling[s].proposal].status = "cancelled"]
    /\ CommitRuling(s)
    /\ UNCHANGED <<today, candidates, voters, ballots, role>>

BeginNewRound(s, p) ==
    /\ InPhase(p, "concluded")
    /\ \E d1, d2 \in Deadlines :
         /\ GoodDeadlines(d1, d2)
         /\ BeginRuling(s, [NoRuling EXCEPT !.op = "new_round", !.proposal = p,
                                            !.d1 = d1, !.d2 = d2])

\* Closes the round and opens the next with its candidates and roll, in one
\* transaction.
NewRound(s) ==
    LET t == ruling[s]
        p == t.proposal
        closed == [proposals EXCEPT ![p].status = "cancelled"]
    IN
    /\ t.op = "new_round"
    /\ \E q \in ProposalIds :
         InsertProposal(closed, q, proposals[p].seat, t.d1, t.d2,
                        candidates[p], voters[p])
    /\ CommitRuling(s)
    /\ UNCHANGED <<today, ballots, role>>

DayPasses ==
    /\ today < LastDay
    /\ today' = today + 1
    /\ UNCHANGED <<proposals, candidates, voters, ballots, role, ruling>>

-----------------------------------------------------------------------------
ElectionsInit ==
    /\ today = 1
    /\ proposals = [p \in ProposalIds |->
                      [status |-> "unused", seat |-> Nil, d1 |-> Nil,
                       d2 |-> Nil, appointed |-> Nil]]
    /\ candidates = [p \in ProposalIds |-> {}]
    /\ voters = [p \in ProposalIds |-> {}]
    /\ ballots = [p \in ProposalIds |-> NoBallots]
    /\ role = [v \in People |-> IF v \in Core THEN "core" ELSE Nil]
    /\ ruling = [s \in ElectionSessions |-> NoRuling]

Start(s) ==
    \/ BeginCreate(s)
    \/ \E p \in ProposalIds :
         \/ BeginUpdate(s, p) \/ BeginEditNames(s, p)
         \/ BeginCancel(s, p) \/ BeginNewRound(s, p)
         \/ \E v \in People : BeginCast(s, p, v) \/ BeginAppoint(s, p, v)

ContinueRuling(s) ==
    \/ Create(s) \/ Update(s)
    \/ AddCandidate(s) \/ RemoveCandidate(s) \/ AddVoter(s) \/ RemoveVoter(s)
    \/ Cast(s) \/ Appoint(s) \/ Cancel(s) \/ NewRound(s)
    \/ GiveUpRuling(s)

ElectionsNext == DayPasses \/ \E s \in ElectionSessions : Start(s) \/ ContinueRuling(s)

ElectionsSpec == ElectionsInit /\ [][ElectionsNext]_electionVars

-----------------------------------------------------------------------------
(* What holds however requests interleave.                                 *)

\* A seat has one open proposal at a time: two managers opening one, or one
\* opening it while another starts a new round, cannot both succeed.
OneOpenPerSeat == \A seat \in Seats : Cardinality(OpenFor(seat)) <= 1

\* Every score on record is a roll member's, for a person still a candidate,
\* and the deadlines of a proposal are in order: edits of the roll, of the
\* candidates and of either deadline that commit around a vote leave no score
\* the tally would wrongly count.
ScoresAreOfTheRoll ==
    \A p \in ProposalIds :
        /\ \A v, c \in People :
             ballots[p][<<v, c>>] # Nil => v \in voters[p] /\ c \in candidates[p]
        /\ proposals[p].status # "unused" => proposals[p].d1 < proposals[p].d2

\* The person a proposal names as appointed is one of its candidates, even if
\* nominations were reopened and the candidate withdrawn around the decision.
AppointedWasNominated ==
    \A p \in ProposalIds :
        proposals[p].appointed # Nil => proposals[p].appointed \in candidates[p]

-----------------------------------------------------------------------------
(* What holds when requests do not overlap (one session), and none spans   *)
(* midnight.                                                               *)

\* Every ballot is whole: whoever voted has a score for every candidate, so
\* the STAR count compares like with like.
BallotsAreWhole ==
    \A p \in ProposalIds : \A v \in Voted(p) :
        {c \in People : ballots[p][<<v, c>>] # Nil} = candidates[p]

\* The candidates and the roll are frozen under cast ballots, through every
\* legal move of the deadlines.
FrozenOnceVoted ==
    [][\A p \in ProposalIds :
         HasBallots(p) => /\ candidates'[p] = candidates[p]
                          /\ voters'[p] = voters[p]]_electionVars

\* The tally shown does not change: while aggregates are visible, and until a
\* manager reopens voting, no score is written.
ShownTallyIsFinal ==
    [][\A p \in ProposalIds :
         TallyVisible(p) => ballots'[p] = ballots[p]]_electionVars

\* A proposal names an appointed candidate only if it is an appointed one.
AppointedOnlyOnAppointed ==
    \A p \in ProposalIds :
        proposals[p].appointed # Nil => proposals[p].status = "appointed"
=============================================================================
