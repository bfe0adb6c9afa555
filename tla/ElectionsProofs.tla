-------------------------- MODULE ElectionsProofs --------------------------
(***************************************************************************)
(* What TLAPS proves of Elections, for every number of requests, people,   *)
(* seats, proposals and days, and of the STAR count that decides them, for *)
(* every number of candidates and ballots.                                 *)
(***************************************************************************)
EXTENDS Elections, StarTally, FiniteSetTheorems, WellFoundedInduction, TLAPS

Used(p) == proposals[p].status # "unused"

\* What a request in flight remembers: dates in order where it opens a
\* proposal, else a proposal on record, and the person it is about.
WellFormed(r) ==
    /\ r.op \in {"create", "new_round"}
         => r.d1 \in Deadlines /\ r.d2 \in Deadlines /\ r.d1 < r.d2
    /\ r.op = "create" => r.seat \in Seats
    /\ r.op \notin {"idle", "create"} => r.proposal \in ProposalIds /\ Used(r.proposal)
    /\ r.op \in {"add_candidate", "remove_candidate", "add_voter",
                 "remove_voter", "cast", "appoint"} => r.who \in People

\* Nobody has voted on a proposal that is not on record.
NoBallotsUnused ==
    \A p \in ProposalIds : ~Used(p) => \A v, c \in People : ballots[p][<<v, c>>] = Nil

\* uq_proposal_open, pairwise: what OneOpenPerSeat says without counting.
OpenAlone ==
    \A p, q \in ProposalIds :
        /\ proposals[p].status = "open" /\ proposals[q].status = "open"
        /\ proposals[p].seat = proposals[q].seat
        => p = q

\* The inductive invariant, the tables' part first.
Tables ==
    /\ proposals \in [ProposalIds -> ProposalRows]
    /\ candidates \in [ProposalIds -> SUBSET People]
    /\ voters \in [ProposalIds -> SUBSET People]
    /\ ballots \in [ProposalIds -> Ballots]
    /\ role \in [People -> TeamRoles \cup {Nil}]
    /\ NoBallotsUnused
    /\ OpenAlone
    /\ ScoresAreOfTheRoll
    /\ AppointedWasNominated

ElectionInv ==
    /\ today \in Days
    /\ Tables
    /\ ruling \in [ElectionSessions -> Rulings]
    /\ \A s \in ElectionSessions : WellFormed(ruling[s])

-----------------------------------------------------------------------------
(* Requests starting and ending.                                           *)

\* A session with no request in flight remembers nothing it needs.
LEMMA IdleIsWellFormed == NoRuling \in Rulings /\ WellFormed(NoRuling)
  BY DEF NoRuling, Rulings, WellFormed

\* Beginning a well-formed request keeps the invariant: no table changes.
LEMMA BeginInv ==
    ASSUME ElectionInv, NEW s \in ElectionSessions, NEW r, BeginRuling(s, r),
           r \in Rulings, WellFormed(r)
    PROVE  ElectionInv'
<1>1. /\ UNCHANGED <<today, proposals, candidates, voters, ballots, role>>
      /\ ruling' = [ruling EXCEPT ![s] = r]
  BY DEF BeginRuling
<1>2. Tables'
  BY <1>1 DEF ElectionInv, Tables, NoBallotsUnused, Used, OpenAlone,
              ScoresAreOfTheRoll, AppointedWasNominated
<1>3. /\ (ruling \in [ElectionSessions -> Rulings])'
      /\ \A t \in ElectionSessions : WellFormed(ruling[t])'
  BY <1>1 DEF ElectionInv, WellFormed, Used
<1>4. QED
  BY <1>1, <1>2, <1>3 DEF ElectionInv, Days

\* Opened proposals stay on record.
StaysUsed == \A p \in ProposalIds : Used(p) => Used(p)'

\* A request that ends keeps the invariant if it keeps the tables' part.
LEMMA CommitInv ==
    ASSUME ElectionInv, NEW s \in ElectionSessions, CommitRuling(s), UNCHANGED today,
           Tables', StaysUsed
    PROVE  ElectionInv'
<1>1. \A t \in ElectionSessions : ruling'[t] = IF t = s THEN NoRuling ELSE ruling[t]
  BY DEF CommitRuling, ElectionInv
<1>2. (ruling \in [ElectionSessions -> Rulings])'
  BY IdleIsWellFormed DEF CommitRuling, ElectionInv
<1>3. ASSUME NEW t \in ElectionSessions PROVE WellFormed(ruling[t])'
  BY <1>1 DEF ElectionInv, WellFormed, StaysUsed, NoRuling
<1>4. QED
  BY <1>2, <1>3 DEF ElectionInv, Days

\* Whatever a session starts is well formed.
LEMMA StartInv ==
    ASSUME ElectionInv, NEW s \in ElectionSessions, Start(s) PROVE ElectionInv'
<1> USE ElectionsAssumption DEF Rulings, NoRuling, WellFormed
<1>1. CASE BeginCreate(s)
  <2>1. PICK seat \in Seats, names \in (SUBSET People) \ {{}},
             d1 \in Deadlines, d2 \in Deadlines :
          /\ GoodDeadlines(d1, d2)
          /\ BeginRuling(s, [NoRuling EXCEPT !.op = "create", !.names = names, !.seat = seat,
                                             !.d1 = d1, !.d2 = d2])
    BY <1>1 DEF BeginCreate
  <2>2. d1 < d2
    BY <2>1 DEF GoodDeadlines, Deadlines
  <2>3. QED
    BY <2>1, <2>2, BeginInv
<1>2. ASSUME NEW p \in ProposalIds, BeginUpdate(s, p) PROVE ElectionInv'
  <2>1. PICK d1 \in Deadlines, d2 \in Deadlines :
          BeginRuling(s, [NoRuling EXCEPT
                                !.op = "update", !.proposal = p,
                                !.d1 = IF d1 = proposals[p].d1 THEN Nil ELSE d1,
                                !.d2 = IF d2 = proposals[p].d2 THEN Nil ELSE d2])
    BY <1>2 DEF BeginUpdate
  <2>2. Used(p)
    BY <1>2 DEF BeginUpdate, Used
  <2>3. QED
    BY <2>1, <2>2, BeginInv
<1>3. ASSUME NEW p \in ProposalIds, NEW v \in People, NEW phase,
             NEW op \in {"add_candidate", "remove_candidate", "add_voter",
                         "remove_voter", "cast", "appoint"},
             BeginInPhase(s, op, p, phase, v)
      PROVE  ElectionInv'
  <2>1. Used(p) /\ BeginRuling(s, [NoRuling EXCEPT !.op = op, !.proposal = p, !.who = v])
    BY <1>3 DEF BeginInPhase, InPhase, Used
  <2>2. QED
    BY <2>1, BeginInv
<1>4. ASSUME NEW p \in ProposalIds, BeginCancel(s, p) PROVE ElectionInv'
  <2>1. Used(p) /\ BeginRuling(s, [NoRuling EXCEPT !.op = "cancel", !.proposal = p])
    BY <1>4 DEF BeginCancel, Used
  <2>2. QED
    BY <2>1, BeginInv
<1>5. ASSUME NEW p \in ProposalIds, BeginNewRound(s, p) PROVE ElectionInv'
  <2>1. PICK d1 \in Deadlines, d2 \in Deadlines :
          /\ GoodDeadlines(d1, d2)
          /\ BeginRuling(s, [NoRuling EXCEPT !.op = "new_round", !.proposal = p,
                                             !.d1 = d1, !.d2 = d2])
    BY <1>5 DEF BeginNewRound
  <2>2. d1 < d2 /\ Used(p)
    BY <1>5, <2>1 DEF GoodDeadlines, Deadlines, BeginNewRound, InPhase, Used
  <2>3. QED
    BY <2>1, <2>2, BeginInv
<1>6. QED
  BY <1>1, <1>2, <1>3, <1>4, <1>5
  DEF Start, BeginEditNames, BeginCast, BeginAppoint

-----------------------------------------------------------------------------
(* Requests finishing: each keeps the tables' part.                        *)

\* Opening a proposal over rows "kept" that are sound keeps the tables sound.
LEMMA InsertKeeps ==
    ASSUME ElectionInv, UNCHANGED <<ballots, role>>,
           NEW kept \in [ProposalIds -> ProposalRows], NEW p \in ProposalIds,
           \A q \in ProposalIds :
               /\ kept[q] = proposals[q]
                  \/ kept[q] = [proposals[q] EXCEPT !.status = "cancelled"]
               /\ ~Used(q) => kept[q] = proposals[q],
           NEW seat \in Seats \cup {Nil},
           NEW d1 \in Deadlines, NEW d2 \in Deadlines, d1 < d2,
           NEW names \in SUBSET People, NEW roll \in SUBSET People,
           InsertProposal(kept, p, seat, d1, d2, names, roll)
    PROVE  Tables' /\ StaysUsed
<1> USE DEF ElectionInv, Tables
<1> DEFINE row == [status |-> "open", seat |-> seat, d1 |-> d1, d2 |-> d2,
                   appointed |-> Nil]
<1>1. /\ ~Used(p)
      /\ \A q \in ProposalIds : ~(kept[q].status = "open" /\ kept[q].seat = seat)
      /\ proposals' = [kept EXCEPT ![p] = row]
      /\ candidates' = [candidates EXCEPT ![p] = names]
      /\ voters' = [voters EXCEPT ![p] = roll]
  BY DEF InsertProposal, IsNextProposal, Used
<1>2. row \in ProposalRows
  BY DEF ProposalRows
<1>3. /\ (proposals \in [ProposalIds -> ProposalRows])'
      /\ (candidates \in [ProposalIds -> SUBSET People])'
      /\ (voters \in [ProposalIds -> SUBSET People])'
  BY <1>1, <1>2
<1>4. \A q \in ProposalIds : proposals'[q] = IF q = p THEN row ELSE kept[q]
  BY <1>1
<1>5. StaysUsed /\ NoBallotsUnused'
  <2>1. \A q \in ProposalIds : Used(q) => Used(q)'
    BY <1>1, <1>4 DEF Used, ProposalRows
  <2>2. QED
    BY <2>1 DEF StaysUsed, NoBallotsUnused
<1>6. OpenAlone'
  <2>1. \A q \in ProposalIds : kept[q].status = "open" => kept[q] = proposals[q]
    BY DEF ProposalRows
  <2>2. QED
    BY <1>1, <1>4, <2>1 DEF OpenAlone
<1>7. ScoresAreOfTheRoll'
  <2>1. \A q \in ProposalIds \ {p} :
          /\ candidates'[q] = candidates[q] /\ voters'[q] = voters[q]
          /\ proposals'[q].d1 = proposals[q].d1 /\ proposals'[q].d2 = proposals[q].d2
          /\ proposals'[q].status # "unused" => proposals[q].status # "unused"
    BY <1>1, <1>4 DEF ProposalRows, Used
  <2>2. \A v, c \in People : ballots'[p][<<v, c>>] = Nil
    <3>1. ballots' = ballots /\ NoBallotsUnused
      OBVIOUS
    <3>2. \A v, c \in People : ballots[p][<<v, c>>] = Nil
      BY ONLY p \in ProposalIds, <1>1, <3>1 DEF NoBallotsUnused
    <3>3. QED
      BY ONLY <3>1, <3>2
  <2>3. proposals'[p].d1 < proposals'[p].d2
    BY <1>4
  <2>4. QED
    BY <2>1, <2>2, <2>3 DEF ScoresAreOfTheRoll
<1>8. AppointedWasNominated'
  <2>1. \A q \in ProposalIds \ {p} :
          /\ candidates'[q] = candidates[q]
          /\ proposals'[q].appointed = proposals[q].appointed
    BY <1>1, <1>4, SMTT(20) DEF ProposalRows
  <2>2. proposals'[p].appointed = Nil
    BY <1>4
  <2>3. QED
    BY <2>1, <2>2 DEF AppointedWasNominated
<1>9. QED
  BY <1>3, <1>5, <1>6, <1>7, <1>8

\* Opening a proposal keeps the invariant.
LEMMA CreateInv ==
    ASSUME ElectionInv, NEW s \in ElectionSessions, Create(s) PROVE ElectionInv'
<1> DEFINE t == ruling[s]
<1>1. PICK p \in ProposalIds :
        InsertProposal(proposals, p, t.seat, t.d1, t.d2, t.names, DefaultRoll)
  BY DEF Create
<1>2. t.op = "create" /\ CommitRuling(s) /\ UNCHANGED <<today, ballots, role>>
  BY DEF Create
<1>3. /\ t.d1 \in Deadlines /\ t.d2 \in Deadlines /\ t.d1 < t.d2
      /\ t.seat \in Seats
      /\ t.names \in SUBSET People
  BY <1>2 DEF ElectionInv, WellFormed, Rulings
<1>4. DefaultRoll \in SUBSET People /\ proposals \in [ProposalIds -> ProposalRows]
  BY ElectionsAssumption DEF DefaultRoll, ElectionInv, Tables
<1>5. Tables' /\ StaysUsed
  BY <1>1, <1>2, <1>3, <1>4, InsertKeeps
<1>6. QED
  BY <1>2, <1>5, CommitInv

\* So does closing one round and opening the next.
LEMMA NewRoundInv ==
    ASSUME ElectionInv, NEW s \in ElectionSessions, NewRound(s) PROVE ElectionInv'
<1> DEFINE t == ruling[s]
           p == t.proposal
           closed == [proposals EXCEPT ![p].status = "cancelled"]
<1>1. PICK q \in ProposalIds :
        InsertProposal(closed, q, proposals[p].seat, t.d1, t.d2,
                       candidates[p], voters[p])
  BY DEF NewRound
<1>2. t.op = "new_round" /\ CommitRuling(s) /\ UNCHANGED <<today, ballots, role>>
  BY DEF NewRound
<1>3. /\ t.d1 \in Deadlines /\ t.d2 \in Deadlines /\ t.d1 < t.d2
      /\ p \in ProposalIds /\ Used(p)
  BY <1>2 DEF ElectionInv, WellFormed
<1>4. /\ proposals[p].seat \in Seats \cup {Nil}
      /\ candidates[p] \in SUBSET People /\ voters[p] \in SUBSET People
      /\ closed \in [ProposalIds -> ProposalRows]
  BY <1>3 DEF ElectionInv, Tables, ProposalRows
<1>5. \A o \in ProposalIds :
        /\ closed[o] = proposals[o]
           \/ closed[o] = [proposals[o] EXCEPT !.status = "cancelled"]
        /\ ~Used(o) => closed[o] = proposals[o]
  BY <1>3 DEF ElectionInv, Tables
<1> HIDE DEF closed
<1>6. Tables' /\ StaysUsed
  BY <1>1, <1>2, <1>3, <1>4, <1>5, InsertKeeps
<1>7. QED
  BY <1>2, <1>6, CommitInv

\* What a request that works on one proposal knows of it.
LEMMA OnProposal ==
    ASSUME ElectionInv, NEW s \in ElectionSessions, ruling[s].op \notin {"idle", "create"}
    PROVE  /\ ruling[s].proposal \in ProposalIds /\ Used(ruling[s].proposal)
           /\ ruling[s].op \in {"add_candidate", "remove_candidate", "add_voter",
                                "remove_voter", "cast", "appoint"}
                   => ruling[s].who \in People
  BY DEF ElectionInv, WellFormed

\* Two updates may combine their deadlines, but only in order.
LEMMA UpdateInv ==
    ASSUME ElectionInv, NEW s \in ElectionSessions, Update(s) PROVE ElectionInv'
<1> DEFINE p == ruling[s].proposal
           d1 == IF ruling[s].d1 = Nil THEN proposals[p].d1 ELSE ruling[s].d1
           d2 == IF ruling[s].d2 = Nil THEN proposals[p].d2 ELSE ruling[s].d2
<1>1. /\ d1 < d2
      /\ proposals' = [proposals EXCEPT ![p].d1 = d1, ![p].d2 = d2]
      /\ CommitRuling(s) /\ UNCHANGED <<today, candidates, voters, ballots, role>>
      /\ p \in ProposalIds
  BY OnProposal DEF Update
<1>2. d1 \in Deadlines \cup {Nil} /\ d2 \in Deadlines \cup {Nil}
  BY <1>1 DEF ElectionInv, Tables, Rulings, ProposalRows
<1> DEFINE row == [proposals[p] EXCEPT !.d1 = d1, !.d2 = d2]
<1> HIDE DEF d1, d2
<1>a. proposals \in [ProposalIds -> ProposalRows] /\ proposals[p] \in ProposalRows
  BY <1>1, SMTT(20) DEF ElectionInv, Tables
<1>b. proposals' = [proposals EXCEPT ![p] = row]
  BY <1>1, <1>a
<1>c. /\ row \in ProposalRows /\ row.d1 = d1 /\ row.d2 = d2
      /\ row.status = proposals[p].status /\ row.seat = proposals[p].seat
      /\ row.appointed = proposals[p].appointed
  BY <1>2, <1>a DEF ProposalRows
<1> HIDE DEF row
<1>3. /\ (proposals \in [ProposalIds -> ProposalRows])'
      /\ \A q \in ProposalIds :
           /\ proposals'[q].status = proposals[q].status
           /\ proposals'[q].seat = proposals[q].seat
           /\ proposals'[q].appointed = proposals[q].appointed
           /\ q # p => proposals'[q] = proposals[q]
      /\ proposals'[p].d1 = d1 /\ proposals'[p].d2 = d2
  <2>1. \A q \in ProposalIds : proposals'[q] = IF q = p THEN row ELSE proposals[q]
    BY <1>a, <1>b
  <2>2. (proposals \in [ProposalIds -> ProposalRows])'
    BY <1>a, <1>b, <1>c
  <2>3. QED
    BY <1>1, <1>c, <2>1, <2>2
<1>4. NoBallotsUnused' /\ StaysUsed
  <2>1. StaysUsed
    BY <1>3 DEF StaysUsed, Used
  <2>2. NoBallotsUnused /\ ballots' = ballots
    BY <1>1 DEF ElectionInv, Tables
  <2>3. \A q \in ProposalIds : Used(q)' <=> Used(q)
    BY <1>3 DEF Used
  <2>4. NoBallotsUnused'
    BY <2>2, <2>3 DEF NoBallotsUnused
  <2> QED  BY <2>1, <2>4
<1>5. OpenAlone'
  BY <1>3 DEF ElectionInv, Tables, OpenAlone
<1>6. ScoresAreOfTheRoll'
  BY <1>1, <1>3 DEF ElectionInv, Tables, ScoresAreOfTheRoll
<1>7. AppointedWasNominated'
  BY <1>1, <1>3 DEF ElectionInv, Tables, AppointedWasNominated
<1>8. Tables'
  BY <1>1, <1>3, <1>4, <1>5, <1>6, <1>7 DEF ElectionInv, Tables
<1>9. QED
  BY <1>1, <1>4, <1>8, CommitInv

\* A nomination adds a name nobody has scored yet.
LEMMA AddCandidateInv ==
    ASSUME ElectionInv, NEW s \in ElectionSessions, AddCandidate(s) PROVE ElectionInv'
<1> DEFINE p == ruling[s].proposal
           c == ruling[s].who
<1>1. /\ candidates' = [candidates EXCEPT ![p] = @ \cup {c}]
      /\ CommitRuling(s) /\ UNCHANGED <<today, proposals, voters, ballots, role>>
      /\ p \in ProposalIds /\ c \in People
  BY OnProposal DEF AddCandidate
<1>2. /\ (candidates \in [ProposalIds -> SUBSET People])'
      /\ \A q \in ProposalIds : candidates[q] \subseteq candidates'[q]
  BY <1>1 DEF ElectionInv, Tables
<1>3. Tables' /\ StaysUsed
  BY <1>1, <1>2 DEF ElectionInv, Tables, StaysUsed, Used, NoBallotsUnused,
                    OpenAlone, ScoresAreOfTheRoll, AppointedWasNominated
<1>4. QED
  BY <1>1, <1>3, CommitInv

\* A seat on the roll is one more, with no score yet.
LEMMA AddVoterInv ==
    ASSUME ElectionInv, NEW s \in ElectionSessions, AddVoter(s) PROVE ElectionInv'
<1> DEFINE p == ruling[s].proposal
           v == ruling[s].who
<1>1. /\ voters' = [voters EXCEPT ![p] = @ \cup {v}]
      /\ CommitRuling(s) /\ UNCHANGED <<today, proposals, candidates, ballots, role>>
      /\ p \in ProposalIds /\ v \in People
  BY OnProposal DEF AddVoter
<1>2. /\ (voters \in [ProposalIds -> SUBSET People])'
      /\ \A q \in ProposalIds : voters[q] \subseteq voters'[q]
  BY <1>1 DEF ElectionInv, Tables
<1>3. Tables' /\ StaysUsed
  BY <1>1, <1>2 DEF ElectionInv, Tables, StaysUsed, Used, NoBallotsUnused,
                    OpenAlone, ScoresAreOfTheRoll, AppointedWasNominated
<1>4. QED
  BY <1>1, <1>3, CommitInv

\* The cascade empties the pairs that are gone and leaves the rest.
LEMMA DroppedBallots ==
    ASSUME ElectionInv, NEW p \in ProposalIds, NEW gone, DropBallots(p, gone)
    PROVE  /\ (ballots \in [ProposalIds -> Ballots])'
           /\ \A q \in ProposalIds \ {p} : ballots'[q] = ballots[q]
           /\ \A v, c \in People :
                ballots'[p][<<v, c>>] = IF <<v, c>> \in gone THEN Nil
                                    ELSE ballots[p][<<v, c>>]
<1> DEFINE left == [vc \in People \X People |->
                      IF vc \in gone THEN Nil ELSE ballots[p][vc]]
<1>1. ballots \in [ProposalIds -> Ballots]
  BY DEF ElectionInv, Tables
<1>2. ballots' = [ballots EXCEPT ![p] = left]
  BY <1>1 DEF DropBallots
<1>3. left \in Ballots
  BY <1>1 DEF Ballots
<1>4. \A v, c \in People :
        left[<<v, c>>] = IF <<v, c>> \in gone THEN Nil ELSE ballots[p][<<v, c>>]
  OBVIOUS
<1> HIDE DEF left
<1>5. QED
  BY <1>1, <1>2, <1>3, <1>4

\* A withdrawal takes the scores and the appointment of the name with it.
LEMMA RemoveCandidateInv ==
    ASSUME ElectionInv, NEW s \in ElectionSessions, RemoveCandidate(s) PROVE ElectionInv'
<1> DEFINE p == ruling[s].proposal
           c == ruling[s].who
<1>1. /\ candidates' = [candidates EXCEPT ![p] = @ \ {c}]
      /\ proposals' = [proposals EXCEPT
                         ![p].appointed = IF @ = c THEN Nil ELSE @]
      /\ DropBallots(p, People \X {c})
      /\ CommitRuling(s) /\ UNCHANGED <<today, voters, role>>
      /\ p \in ProposalIds /\ c \in People /\ Used(p)
  BY OnProposal DEF RemoveCandidate
<1>2. /\ (candidates \in [ProposalIds -> SUBSET People])'
      /\ \A q \in ProposalIds \ {p} : candidates'[q] = candidates[q]
      /\ candidates'[p] = candidates[p] \ {c}
  BY <1>1 DEF ElectionInv, Tables
<1>3. /\ (proposals \in [ProposalIds -> ProposalRows])'
      /\ \A q \in ProposalIds :
           /\ proposals'[q].status = proposals[q].status
           /\ proposals'[q].seat = proposals[q].seat
           /\ proposals'[q].d1 = proposals[q].d1 /\ proposals'[q].d2 = proposals[q].d2
           /\ q # p => proposals'[q].appointed = proposals[q].appointed
      /\ proposals'[p].appointed \in {proposals[p].appointed, Nil} \ {c}
  <2> DEFINE named == IF proposals[p].appointed = c THEN Nil
                      ELSE proposals[p].appointed
  <2>1. proposals' = [proposals EXCEPT ![p].appointed = named]
    BY <1>1 DEF ElectionInv, Tables
  <2>2. /\ named \in People \cup {Nil}
        /\ named \in {proposals[p].appointed, Nil} \ {c}
    BY <1>1, ElectionsAssumption DEF ElectionInv, Tables, ProposalRows
  <2> DEFINE row == [proposals[p] EXCEPT !.appointed = named]
  <2>3. proposals \in [ProposalIds -> ProposalRows] /\ proposals[p] \in ProposalRows
    BY <1>1 DEF ElectionInv, Tables
  <2>4. proposals' = [proposals EXCEPT ![p] = row]
    BY <2>1, <2>3
  <2> HIDE DEF named
  <2>5. /\ row \in ProposalRows /\ row.appointed = named
        /\ row.status = proposals[p].status /\ row.seat = proposals[p].seat
        /\ row.d1 = proposals[p].d1 /\ row.d2 = proposals[p].d2
    BY <2>2, <2>3 DEF ProposalRows
  <2> HIDE DEF row
  <2>6. /\ proposals' \in [ProposalIds -> ProposalRows]
        /\ \A q \in ProposalIds :
             proposals'[q] = IF q = p THEN row ELSE proposals[q]
    BY <1>1, <2>3, <2>4, <2>5
  <2> QED  BY <1>1, <2>2, <2>5, <2>6
<1>4. /\ (ballots \in [ProposalIds -> Ballots])'
      /\ \A q \in ProposalIds \ {p} : ballots'[q] = ballots[q]
      /\ \A v, d \in People :
           ballots'[p][<<v, d>>] = IF d = c THEN Nil ELSE ballots[p][<<v, d>>]
  BY <1>1, DroppedBallots
<1>5. ScoresAreOfTheRoll'
  <2>1. ASSUME NEW q \in ProposalIds, NEW v \in People, NEW d \in People,
               ballots'[q][<<v, d>>] # Nil
        PROVE  v \in voters[q] /\ d \in candidates'[q]
    <3>1. ballots[q][<<v, d>>] # Nil /\ (q = p => d # c)
      BY <1>4, <2>1
    <3>2. v \in voters[q] /\ d \in candidates[q]
      BY <3>1 DEF ElectionInv, Tables, ScoresAreOfTheRoll
    <3>3. QED
      BY <1>2, <3>1, <3>2
  <2>2. \A q \in ProposalIds :
          proposals'[q].status # "unused" => proposals'[q].d1 < proposals'[q].d2
    BY <1>3 DEF ElectionInv, Tables, ScoresAreOfTheRoll
  <2>3. QED
    BY <1>1, <2>1, <2>2 DEF ScoresAreOfTheRoll
<1>6. AppointedWasNominated'
  BY <1>2, <1>3 DEF ElectionInv, Tables, AppointedWasNominated
<1>7. OpenAlone' /\ StaysUsed
  BY <1>3 DEF ElectionInv, Tables, OpenAlone, StaysUsed, Used
<1>a. NoBallotsUnused'
  <2>1. ASSUME NEW q \in ProposalIds, ~Used(q)', NEW v \in People, NEW d \in People
        PROVE  ballots'[q][<<v, d>>] = Nil
    <3>1. ~Used(q)
      BY <1>3, <2>1 DEF Used
    <3>2. ballots[q][<<v, d>>] = Nil
      BY <3>1 DEF ElectionInv, Tables, NoBallotsUnused
    <3>3. QED
      BY <1>1, <1>4, <3>2
  <2>2. QED
    BY <2>1 DEF NoBallotsUnused
<1>8. Tables'
  BY <1>1, <1>2, <1>3, <1>4, <1>5, <1>6, <1>7, <1>a DEF ElectionInv, Tables
<1>9. QED
  BY <1>1, <1>7, <1>8, CommitInv

\* Leaving the roll takes the ballot along.
LEMMA RemoveVoterInv ==
    ASSUME ElectionInv, NEW s \in ElectionSessions, RemoveVoter(s) PROVE ElectionInv'
<1> DEFINE p == ruling[s].proposal
           v == ruling[s].who
<1>1. /\ voters' = [voters EXCEPT ![p] = @ \ {v}]
      /\ DropBallots(p, {v} \X People)
      /\ CommitRuling(s) /\ UNCHANGED <<today, proposals, candidates, role>>
      /\ p \in ProposalIds /\ v \in People /\ Used(p)
  BY OnProposal DEF RemoveVoter
<1>2. /\ (voters \in [ProposalIds -> SUBSET People])'
      /\ \A q \in ProposalIds \ {p} : voters'[q] = voters[q]
      /\ voters'[p] = voters[p] \ {v}
  BY <1>1 DEF ElectionInv, Tables
<1>3. /\ (ballots \in [ProposalIds -> Ballots])'
      /\ \A q \in ProposalIds \ {p} : ballots'[q] = ballots[q]
      /\ \A w, c \in People :
           ballots'[p][<<w, c>>] = IF w = v THEN Nil ELSE ballots[p][<<w, c>>]
  BY <1>1, DroppedBallots
<1>4. ScoresAreOfTheRoll'
  BY <1>1, <1>2, <1>3 DEF ElectionInv, Tables, ScoresAreOfTheRoll
<1>5. NoBallotsUnused' /\ OpenAlone' /\ StaysUsed /\ AppointedWasNominated'
  BY <1>1, <1>3 DEF ElectionInv, Tables, NoBallotsUnused, OpenAlone,
                    StaysUsed, Used, AppointedWasNominated
<1>6. Tables'
  BY <1>1, <1>2, <1>3, <1>4, <1>5 DEF ElectionInv, Tables
<1>7. QED
  BY <1>1, <1>5, <1>6, CommitInv

\* A vote scores candidates only, by somebody on the roll when it is written.
LEMMA CastInv ==
    ASSUME ElectionInv, NEW s \in ElectionSessions, Cast(s) PROVE ElectionInv'
<1> DEFINE p == ruling[s].proposal
           v == ruling[s].who
<1>1. /\ v \in voters[p]
      /\ CommitRuling(s) /\ UNCHANGED <<today, proposals, candidates, voters, role>>
      /\ p \in ProposalIds /\ Used(p)
  BY OnProposal DEF Cast
<1>2. PICK score \in [candidates[p] -> Scores] :
        ballots' = [ballots EXCEPT ![p] =
                      [vc \in People \X People |->
                         IF vc[1] = v /\ vc[2] \in candidates[p]
                         THEN score[vc[2]] ELSE @[vc]]]
  BY DEF Cast
<1> DEFINE sheet == [vc \in People \X People |->
                       IF vc[1] = v /\ vc[2] \in candidates[p]
                       THEN score[vc[2]] ELSE ballots[p][vc]]
<1>3. ballots \in [ProposalIds -> Ballots]
  BY DEF ElectionInv, Tables
<1>4. ballots' = [ballots EXCEPT ![p] = sheet]
  BY <1>1, <1>2, <1>3
<1>5. sheet \in Ballots
  BY <1>1, <1>3 DEF Ballots
<1>6. \A w, c \in People :
        sheet[<<w, c>>] # Nil => \/ w = v /\ c \in candidates[p]
                             \/ ballots[p][<<w, c>>] # Nil
  OBVIOUS
<1> HIDE DEF sheet
<1>7. /\ (ballots \in [ProposalIds -> Ballots])'
      /\ \A q \in ProposalIds \ {p} : ballots'[q] = ballots[q]
      /\ ballots'[p] = sheet
  BY <1>1, <1>3, <1>4, <1>5
<1>8. ScoresAreOfTheRoll'
  BY <1>1, <1>6, <1>7 DEF ElectionInv, Tables, ScoresAreOfTheRoll
<1>9. NoBallotsUnused' /\ OpenAlone' /\ StaysUsed /\ AppointedWasNominated'
  BY <1>1, <1>7 DEF ElectionInv, Tables, NoBallotsUnused, OpenAlone,
                    StaysUsed, Used, AppointedWasNominated
<1>10. Tables'
  BY <1>1, <1>7, <1>8, <1>9 DEF ElectionInv, Tables
<1>11. QED
  BY <1>1, <1>9, <1>10, CommitInv

\* The appointed person is still a candidate when the appointment is written.
LEMMA AppointInv ==
    ASSUME ElectionInv, NEW s \in ElectionSessions, Appoint(s) PROVE ElectionInv'
<1> DEFINE p == ruling[s].proposal
           c == ruling[s].who
<1>1. /\ c \in candidates[p]
      /\ proposals' = [proposals EXCEPT ![p].status = "appointed", ![p].appointed = c]
      /\ role' = [role EXCEPT ![c] = proposals[p].seat]
      /\ CommitRuling(s) /\ UNCHANGED <<today, candidates, voters, ballots>>
      /\ p \in ProposalIds /\ c \in People /\ Used(p)
  BY OnProposal DEF Appoint
<1>2. (role \in [People -> TeamRoles \cup {Nil}])'
  BY <1>1, ElectionsAssumption DEF ElectionInv, Tables, ProposalRows
<1> DEFINE row == [proposals[p] EXCEPT !.status = "appointed", !.appointed = c]
<1>a. proposals \in [ProposalIds -> ProposalRows] /\ proposals[p] \in ProposalRows
  BY <1>1 DEF ElectionInv, Tables
<1>b. proposals' = [proposals EXCEPT ![p] = row]
  BY <1>1, <1>a
<1>c. /\ row \in ProposalRows /\ row.status = "appointed" /\ row.appointed = c
      /\ row.d1 = proposals[p].d1 /\ row.d2 = proposals[p].d2
  BY <1>1, <1>a DEF ProposalRows
<1> HIDE DEF row
<1>3. /\ (proposals \in [ProposalIds -> ProposalRows])'
      /\ \A q \in ProposalIds \ {p} : proposals'[q] = proposals[q]
      /\ proposals'[p].status = "appointed" /\ proposals'[p].appointed = c
      /\ proposals'[p].d1 = proposals[p].d1 /\ proposals'[p].d2 = proposals[p].d2
  <2>1. \A q \in ProposalIds : proposals'[q] = IF q = p THEN row ELSE proposals[q]
    BY <1>a, <1>b
  <2>2. (proposals \in [ProposalIds -> ProposalRows])'
    BY <1>a, <1>b, <1>c
  <2>3. QED
    BY <1>1, <1>c, <2>1, <2>2
<1>4. NoBallotsUnused' /\ StaysUsed
  <2>1. StaysUsed
    BY <1>1, <1>3 DEF StaysUsed, Used
  <2>2. QED
    BY <1>1, <2>1 DEF ElectionInv, Tables, NoBallotsUnused, StaysUsed
<1>5. OpenAlone'
  BY <1>3 DEF ElectionInv, Tables, OpenAlone
<1>6. ScoresAreOfTheRoll'
  BY <1>1, <1>3 DEF ElectionInv, Tables, ScoresAreOfTheRoll, Used
<1>7. AppointedWasNominated'
  BY <1>1, <1>3 DEF ElectionInv, Tables, AppointedWasNominated
<1>8. Tables'
  BY <1>1, <1>2, <1>3, <1>4, <1>5, <1>6, <1>7 DEF ElectionInv, Tables
<1>9. QED
  BY <1>1, <1>4, <1>8, CommitInv

\* A cancellation only closes.
LEMMA CancelInv ==
    ASSUME ElectionInv, NEW s \in ElectionSessions, Cancel(s) PROVE ElectionInv'
<1> DEFINE p == ruling[s].proposal
<1>1. /\ proposals' = [proposals EXCEPT ![p].status = "cancelled"]
      /\ CommitRuling(s) /\ UNCHANGED <<today, candidates, voters, ballots, role>>
      /\ p \in ProposalIds /\ Used(p)
  BY OnProposal DEF Cancel
<1> DEFINE row == [proposals[p] EXCEPT !.status = "cancelled"]
<1>a. proposals \in [ProposalIds -> ProposalRows] /\ proposals[p] \in ProposalRows
  BY <1>1 DEF ElectionInv, Tables
<1>b. row \in ProposalRows
  BY <1>a DEF ProposalRows
<1>2. /\ (proposals \in [ProposalIds -> ProposalRows])'
      /\ \A q \in ProposalIds \ {p} : proposals'[q] = proposals[q]
      /\ proposals'[p] = [proposals[p] EXCEPT !.status = "cancelled"]
  BY <1>1, <1>a, <1>b
<1>3. Tables' /\ StaysUsed
  <2>1. /\ \A q \in ProposalIds : proposals'[q].seat = proposals[q].seat
        /\ \A q \in ProposalIds : proposals'[q].appointed = proposals[q].appointed
        /\ \A q \in ProposalIds : proposals'[q].status = IF q = p THEN "cancelled"
                                                        ELSE proposals[q].status
    BY <1>a, <1>2 DEF ProposalRows
  <2>2. NoBallotsUnused' /\ StaysUsed
    <3>1. NoBallotsUnused /\ ballots' = ballots
      BY <1>1 DEF ElectionInv, Tables
    <3>2. \A q \in ProposalIds : Used(q)' <=> Used(q)
      BY <1>1, <2>1 DEF Used
    <3>3. NoBallotsUnused'
      BY <3>1, <3>2 DEF NoBallotsUnused
    <3> QED  BY <3>2, <3>3 DEF StaysUsed
  <2>o. OpenAlone /\ ScoresAreOfTheRoll /\ AppointedWasNominated
    BY DEF ElectionInv, Tables
  <2>3. OpenAlone'
    BY <2>1, <2>o DEF OpenAlone
  <2>c. UNCHANGED <<candidates, voters, ballots>>
    BY <1>1
  <2>d. \A q \in ProposalIds :
          /\ proposals'[q].d1 = proposals[q].d1 /\ proposals'[q].d2 = proposals[q].d2
          /\ proposals'[q].status # "unused" => proposals[q].status # "unused"
    BY <1>1, <1>a, <1>2, <2>1 DEF ProposalRows, Used
  <2>4. ScoresAreOfTheRoll'
    BY <2>c, <2>d, <2>o DEF ScoresAreOfTheRoll
  <2>5. AppointedWasNominated'
    BY <2>1, <2>c, <2>o DEF AppointedWasNominated
  <2> QED  BY <1>1, <1>2, <2>2, <2>3, <2>4, <2>5 DEF ElectionInv, Tables
<1>4. QED
  BY <1>1, <1>3, CommitInv

\* Midnight and a roll-back touch no table.
LEMMA NoTableChanges ==
    ASSUME ElectionInv, UNCHANGED <<proposals, candidates, voters, ballots, role>>
    PROVE  Tables' /\ StaysUsed
  BY DEF ElectionInv, Tables, StaysUsed, Used, NoBallotsUnused, OpenAlone,
         ScoresAreOfTheRoll, AppointedWasNominated

\* So every step keeps the invariant.
LEMMA StepInv == ElectionInv /\ [ElectionsNext]_electionVars => ElectionInv'
<1> SUFFICES ASSUME ElectionInv, [ElectionsNext]_electionVars PROVE ElectionInv'
  OBVIOUS
<1>1. ASSUME NEW s \in ElectionSessions, Start(s) PROVE ElectionInv'
  BY <1>1, StartInv
<1>2. ASSUME NEW s \in ElectionSessions, ContinueRuling(s) PROVE ElectionInv'
  <2>1. CASE GiveUpRuling(s)
    BY <2>1, NoTableChanges, CommitInv DEF GiveUpRuling
  <2>2. QED
    BY <1>2, <2>1, CreateInv, UpdateInv, AddCandidateInv, RemoveCandidateInv,
       AddVoterInv, RemoveVoterInv, CastInv, AppointInv, CancelInv, NewRoundInv
    DEF ContinueRuling
<1>3. CASE DayPasses
  <2>1. (today \in Days)'
    BY <1>3, ElectionsAssumption DEF DayPasses, Days, ElectionInv
  <2>2. /\ (ruling \in [ElectionSessions -> Rulings])'
        /\ \A s \in ElectionSessions : WellFormed(ruling[s])'
    BY <1>3 DEF DayPasses, ElectionInv, WellFormed, Used
  <2>3. QED
    BY <1>3, <2>1, <2>2, NoTableChanges DEF DayPasses, ElectionInv
<1>4. CASE UNCHANGED electionVars
  BY <1>4, NoTableChanges DEF electionVars, ElectionInv, Days, WellFormed, Used
<1>5. QED
  BY <1>1, <1>2, <1>3, <1>4 DEF ElectionsNext

\* Before the first proposal nothing is on record.
LEMMA InitInv == ElectionsInit => ElectionInv
<1> SUFFICES ASSUME ElectionsInit PROVE ElectionInv
  OBVIOUS
<1> USE ElectionsAssumption DEF ElectionsInit
<1>1. NoBallots \in Ballots
  BY DEF NoBallots, Ballots
<1>2. Tables
  BY <1>1 DEF Tables, ProposalRows, NoBallotsUnused, OpenAlone, Used, NoBallots,
              ScoresAreOfTheRoll, AppointedWasNominated, TeamRoles
<1>3. today \in Days /\ ruling \in [ElectionSessions -> Rulings]
  BY IdleIsWellFormed DEF Days
<1>4. \A s \in ElectionSessions : WellFormed(ruling[s])
  BY IdleIsWellFormed
<1>5. QED
  BY <1>2, <1>3, <1>4 DEF ElectionInv

-----------------------------------------------------------------------------
(* The theorems.                                                           *)

\* The inductive invariant holds of every execution.
THEOREM ElectionInvariance == ElectionsSpec => []ElectionInv
  BY InitInv, StepInv, PTL DEF ElectionsSpec

\* Every row and every request in flight has its type.
THEOREM TypeCorrect == ElectionsSpec => []ElectionsTypeOK
<1>1. ElectionInv => ElectionsTypeOK
  BY DEF ElectionInv, Tables, ElectionsTypeOK
<1>2. QED
  BY <1>1, ElectionInvariance, PTL

\* However requests interleave, a seat has at most one open proposal.
THEOREM OneOpen == ElectionsSpec => []OneOpenPerSeat
<1>1. ASSUME OpenAlone, NEW seat \in Seats PROVE Cardinality(OpenFor(seat)) <= 1
  <2>1. CASE OpenFor(seat) = {}
    BY <2>1, FS_EmptySet
  <2>2. CASE OpenFor(seat) # {}
    <3>1. PICK p : p \in OpenFor(seat)
      BY <2>2
    <3>2. OpenFor(seat) = {p}
      BY <1>1, <3>1 DEF OpenFor, OpenAlone
    <3>3. QED
      BY <3>2, FS_Singleton
  <2>3. QED
    BY <2>1, <2>2
<1>2. ElectionInv => OneOpenPerSeat
  BY <1>1 DEF ElectionInv, Tables, OneOpenPerSeat
<1>3. QED
  BY <1>2, ElectionInvariance, PTL

\* Every score on record is by a voter on the roll and for a candidate, and
\* deadlines are in order, whatever edits and votes commit around each other.
THEOREM ScoresOfTheRoll == ElectionsSpec => []ScoresAreOfTheRoll
<1>1. ElectionInv => ScoresAreOfTheRoll
  BY DEF ElectionInv, Tables
<1>2. QED
  BY <1>1, ElectionInvariance, PTL

\* Whoever a proposal names as appointed is one of its candidates.
THEOREM AppointedIsCandidate == ElectionsSpec => []AppointedWasNominated
<1>1. ElectionInv => AppointedWasNominated
  BY DEF ElectionInv, Tables
<1>2. QED
  BY <1>1, ElectionInvariance, PTL

-----------------------------------------------------------------------------
(* Requests that do not overlap, and no request at work at midnight.       *)

\* One session: a request begins when the one before it has ended.
OneAtATime == \A s, t \in ElectionSessions : s = t

MidnightApart ==
    [][today' # today => \A s \in ElectionSessions : ruling[s].op = "idle"]_electionVars

Edits == {"add_candidate", "remove_candidate", "add_voter", "remove_voter"}

NewD1(r) == IF r.d1 = Nil THEN proposals[r.proposal].d1 ELSE r.d1

\* Then what a request checked still holds when it writes.
StillHolds(r) ==
    /\ r.op \notin {"idle", "create"} => proposals[r.proposal].status = "open"
    /\ r.op \in Edits => today <= proposals[r.proposal].d1
    /\ r.op = "cast" => /\ today > proposals[r.proposal].d1
                        /\ today <= proposals[r.proposal].d2
    /\ r.op = "update" => NewD1(r) < today \/ ~HasBallots(r.proposal)

\* Of one proposal: it has its dates; nominations are over if somebody has voted
\* on it, whatever was done to the dates since; whoever voted scored everybody;
\* and only an appointed one names an appointed candidate.
OrderlyAt(p) ==
    /\ Used(p) => proposals[p].d1 \in Deadlines /\ proposals[p].d2 \in Deadlines
    /\ HasBallots(p) => proposals[p].d1 < today
    /\ \A v \in Voted(p) : {c \in People : ballots[p][<<v, c>>] # Nil} = candidates[p]
    /\ proposals[p].appointed # Nil => proposals[p].status = "appointed"

Orderly == \A p \in ProposalIds : OrderlyAt(p)

SerialInv ==
    /\ ElectionInv
    /\ Orderly
    /\ \A s \in ElectionSessions : StillHolds(ruling[s])

\* A proposal whose row, candidates and ballots stay is as orderly as it was.
LEMMA Untouched ==
    ASSUME NEW p, OrderlyAt(p), UNCHANGED today, proposals'[p] = proposals[p],
           candidates'[p] = candidates[p], ballots'[p] = ballots[p]
    PROVE  OrderlyAt(p)'
<1>1. Voted(p)' = Voted(p) /\ (HasBallots(p)' <=> HasBallots(p))
  BY DEF Voted, HasBallots
<1>2. QED
  BY <1>1 DEF OrderlyAt, Used

\* So is one that keeps its ballots and candidates, is dated, has its
\* nominations over if it has ballots, and names nobody unless appointed.
LEMMA Rewritten ==
    ASSUME NEW p, OrderlyAt(p), UNCHANGED today, candidates'[p] = candidates[p],
           ballots'[p] = ballots[p],
           proposals'[p].d1 \in Deadlines, proposals'[p].d2 \in Deadlines,
           HasBallots(p) => proposals'[p].d1 < today,
           proposals'[p].appointed # Nil => proposals'[p].status = "appointed"
    PROVE  OrderlyAt(p)'
<1>1. Voted(p)' = Voted(p) /\ (HasBallots(p)' <=> HasBallots(p))
  BY DEF Voted, HasBallots
<1>2. QED
  BY <1>1 DEF OrderlyAt, Used

\* And one nobody has voted on.
LEMMA Unvoted ==
    ASSUME NEW p, ~HasBallots(p), ballots'[p] = ballots[p],
           proposals'[p].d1 \in Deadlines, proposals'[p].d2 \in Deadlines,
           proposals'[p].appointed # Nil => proposals'[p].status = "appointed"
    PROVE  OrderlyAt(p)'
<1>1. Voted(p)' = {}
  BY DEF Voted, HasBallots
<1>2. QED
  BY <1>1 DEF OrderlyAt, HasBallots

\* The phase a request found the proposal in says where today is.
LEMMA PhaseMeans ==
    ASSUME SerialInv, NEW p \in ProposalIds, NEW phase, InPhase(p, phase)
    PROVE  /\ proposals[p].status = "open"
           /\ phase = "nominating" => today <= proposals[p].d1
           /\ phase = "voting" => today > proposals[p].d1 /\ today <= proposals[p].d2
<1>1. proposals[p].status = "open"
  BY DEF InPhase
<1>2. /\ proposals[p].d1 \in Nat /\ proposals[p].d2 \in Nat /\ today \in Nat
      /\ proposals[p].d1 < proposals[p].d2
  BY <1>1, ElectionsAssumption
  DEF SerialInv, Orderly, OrderlyAt, Used, Deadlines, Days, ElectionInv, Tables,
      ScoresAreOfTheRoll
<1>3. PhaseOfDates(proposals[p].d1, proposals[p].d2) = phase
  BY DEF InPhase
<1>4. QED
  BY <1>1, <1>2, <1>3 DEF PhaseOfDates

\* A proposal never opened has no ballots.
LEMMA UnusedUnvoted ==
    ASSUME ElectionInv, NEW p \in ProposalIds, ~Used(p) PROVE ~HasBallots(p)
  BY DEF ElectionInv, Tables, NoBallotsUnused, HasBallots, Voted

\* While nominations are open nobody has voted.
LEMMA NominatingUnvoted ==
    ASSUME SerialInv, NEW p \in ProposalIds, Used(p), today <= proposals[p].d1
    PROVE  ~HasBallots(p)
  BY ElectionsAssumption
  DEF SerialInv, Orderly, OrderlyAt, ElectionInv, Days, Deadlines

\* Removing somebody's ballots where there are none changes nothing.
LEMMA DroppingNothing ==
    ASSUME ElectionInv, NEW p \in ProposalIds, NEW gone, DropBallots(p, gone),
           ~HasBallots(p)
    PROVE  ballots' = ballots
<1>1. ballots \in [ProposalIds -> Ballots]
  BY DEF ElectionInv, Tables
<1>2. \A vc \in People \X People : ballots[p][vc] = Nil
  BY DEF HasBallots, Voted
<1>3. ballots[p] = [vc \in People \X People |->
                      IF vc \in gone THEN Nil ELSE ballots[p][vc]]
  BY <1>1, <1>2 DEF Ballots
<1>4. ballots' = [ballots EXCEPT ![p] = ballots[p]]
  BY <1>1, <1>3 DEF DropBallots
<1>5. QED
  BY <1>1, <1>4

\* What the request at work on a proposal knows of it.
LEMMA OnOpenProposal ==
    ASSUME SerialInv, NEW s \in ElectionSessions, ruling[s].op \notin {"idle", "create"}
    PROVE  /\ ruling[s].proposal \in ProposalIds /\ Used(ruling[s].proposal)
           /\ proposals[ruling[s].proposal].status = "open"
           /\ proposals[ruling[s].proposal].appointed = Nil
           /\ proposals[ruling[s].proposal].d1 \in Deadlines
           /\ proposals[ruling[s].proposal].d2 \in Deadlines
           /\ ruling[s].op \in Edits => ~HasBallots(ruling[s].proposal)
<1>1. ruling[s].proposal \in ProposalIds /\ Used(ruling[s].proposal)
  BY OnProposal DEF SerialInv
<1>2. /\ proposals[ruling[s].proposal].status = "open"
      /\ ruling[s].op \in Edits => today <= proposals[ruling[s].proposal].d1
  BY DEF SerialInv, StillHolds
<1>3. OrderlyAt(ruling[s].proposal)
  BY <1>1 DEF SerialInv, Orderly
<1>4. QED
  BY <1>1, <1>2, <1>3, NominatingUnvoted DEF OrderlyAt

-----------------------------------------------------------------------------
(* Each finishing request keeps every proposal orderly.                    *)

\* Opening a proposal, over rows that are as before or closed from open.
LEMMA InsertOrderly ==
    ASSUME SerialInv, UNCHANGED <<today, ballots>>,
           NEW kept \in [ProposalIds -> ProposalRows], NEW p \in ProposalIds,
           \A q \in ProposalIds :
               \/ kept[q] = proposals[q]
               \/ /\ kept[q] = [proposals[q] EXCEPT !.status = "cancelled"]
                  /\ Used(q) /\ proposals[q].appointed = Nil,
           NEW seat, NEW d1 \in Deadlines, NEW d2 \in Deadlines,
           NEW names, NEW roll,
           InsertProposal(kept, p, seat, d1, d2, names, roll)
    PROVE  Orderly'
<1> DEFINE row == [status |-> "open", seat |-> seat, d1 |-> d1, d2 |-> d2,
                   appointed |-> Nil]
<1>1. /\ ~Used(p) /\ proposals' = [kept EXCEPT ![p] = row]
      /\ candidates' = [candidates EXCEPT ![p] = names]
  BY DEF InsertProposal, IsNextProposal, Used
<1>2. \A q \in ProposalIds : proposals'[q] = IF q = p THEN row ELSE kept[q]
  BY <1>1
<1>3. \A q \in ProposalIds \ {p} : candidates'[q] = candidates[q]
  BY <1>1 DEF SerialInv, ElectionInv, Tables
<1>4. OrderlyAt(p)'
  <2>1. ~HasBallots(p)
    BY <1>1, UnusedUnvoted DEF SerialInv
  <2>2. /\ proposals'[p].d1 = d1 /\ proposals'[p].d2 = d2
        /\ proposals'[p].appointed = Nil
    BY <1>2
  <2>3. QED
    BY <2>1, <2>2, Unvoted
<1>5. ASSUME NEW q \in ProposalIds \ {p} PROVE OrderlyAt(q)'
  <2>1. OrderlyAt(q)
    BY DEF SerialInv, Orderly
  <2>2. CASE kept[q] = proposals[q]
    BY <1>2, <1>3, <2>1, <2>2, Untouched
  <2>3. CASE /\ kept[q] = [proposals[q] EXCEPT !.status = "cancelled"]
             /\ Used(q) /\ proposals[q].appointed = Nil
    <3>1. proposals[q] \in ProposalRows
      BY DEF SerialInv, ElectionInv, Tables
    <3>2. /\ proposals'[q].d1 = proposals[q].d1 /\ proposals'[q].d2 = proposals[q].d2
          /\ proposals'[q].appointed = Nil
      BY <1>2, <2>3, <3>1 DEF ProposalRows
    <3>3. QED
      BY <1>3, <2>1, <2>3, <3>2, Rewritten DEF OrderlyAt
  <2>4. QED
    BY <2>2, <2>3
<1>6. QED
  BY <1>4, <1>5 DEF Orderly

\* create_proposal.
LEMMA CreateOrderly ==
    ASSUME SerialInv, NEW s \in ElectionSessions, Create(s) PROVE Orderly'
<1> DEFINE t == ruling[s]
<1>1. PICK p \in ProposalIds :
        InsertProposal(proposals, p, t.seat, t.d1, t.d2, t.names, DefaultRoll)
  BY DEF Create
<1>2. t.op = "create" /\ UNCHANGED <<today, ballots>>
  BY DEF Create
<1>3. /\ t.d1 \in Deadlines /\ t.d2 \in Deadlines
      /\ proposals \in [ProposalIds -> ProposalRows]
  BY <1>2 DEF SerialInv, ElectionInv, WellFormed, Tables
<1>4. QED
  BY <1>1, <1>2, <1>3, InsertOrderly

\* new_round.
LEMMA NewRoundOrderly ==
    ASSUME SerialInv, NEW s \in ElectionSessions, NewRound(s) PROVE Orderly'
<1> DEFINE t == ruling[s]
           p == t.proposal
           closed == [proposals EXCEPT ![p].status = "cancelled"]
<1>1. PICK q \in ProposalIds :
        InsertProposal(closed, q, proposals[p].seat, t.d1, t.d2,
                       candidates[p], voters[p])
  BY DEF NewRound
<1>2. t.op = "new_round" /\ UNCHANGED <<today, ballots>>
  BY DEF NewRound
<1>3. t.d1 \in Deadlines /\ t.d2 \in Deadlines
  BY <1>2 DEF SerialInv, ElectionInv, WellFormed
<1>4. p \in ProposalIds /\ Used(p) /\ proposals[p].appointed = Nil
  BY <1>2, OnOpenProposal
<1>5. proposals \in [ProposalIds -> ProposalRows]
  BY DEF SerialInv, ElectionInv, Tables
<1>6. closed \in [ProposalIds -> ProposalRows]
  BY <1>4, <1>5 DEF ProposalRows
<1>7. \A o \in ProposalIds :
        \/ closed[o] = proposals[o]
        \/ /\ closed[o] = [proposals[o] EXCEPT !.status = "cancelled"]
           /\ Used(o) /\ proposals[o].appointed = Nil
  BY <1>4, <1>5
<1> HIDE DEF closed
<1>8. QED
  BY <1>1, <1>2, <1>3, <1>6, <1>7, InsertOrderly

\* New dates leave nominations over where somebody has voted.
LEMMA UpdateOrderly ==
    ASSUME SerialInv, NEW s \in ElectionSessions, Update(s) PROVE Orderly'
<1>0. PICK p \in ProposalIds :
        /\ p = ruling[s].proposal /\ proposals[p].appointed = Nil
        /\ proposals[p].d1 \in Deadlines /\ proposals[p].d2 \in Deadlines
  BY OnOpenProposal DEF Update
<1>1. PICK d1, d2 :
        /\ d1 = NewD1(ruling[s])
        /\ d2 = IF ruling[s].d2 = Nil THEN proposals[p].d2 ELSE ruling[s].d2
        /\ proposals' = [proposals EXCEPT ![p].d1 = d1, ![p].d2 = d2]
  BY <1>0 DEF Update, NewD1
<1>2. UNCHANGED <<today, candidates, ballots>>
  BY DEF Update
<1>3. d1 \in Deadlines /\ d2 \in Deadlines
  BY <1>0, <1>1 DEF NewD1, SerialInv, ElectionInv, Rulings
<1>4. HasBallots(p) => d1 < today
  BY <1>0, <1>1 DEF Update, SerialInv, StillHolds
<1>5. proposals \in [ProposalIds -> ProposalRows] /\ proposals[p] \in ProposalRows
  BY DEF SerialInv, ElectionInv, Tables
<1>6. /\ proposals'[p].d1 = d1 /\ proposals'[p].d2 = d2
      /\ proposals'[p].appointed = Nil
  BY <1>0, <1>1, <1>5 DEF ProposalRows
<1>7. \A q \in ProposalIds \ {p} : proposals'[q] = proposals[q]
  BY <1>1, <1>5
<1>8. OrderlyAt(p)'
  BY <1>2, <1>3, <1>4, <1>6, Rewritten DEF SerialInv, Orderly
<1>9. ASSUME NEW q \in ProposalIds \ {p} PROVE OrderlyAt(q)'
  BY <1>2, <1>7, Untouched DEF SerialInv, Orderly
<1>10. QED
  BY <1>8, <1>9 DEF Orderly

\* Candidates and roll change only where nobody has voted.
LEMMA EditOrderly ==
    ASSUME SerialInv, NEW s \in ElectionSessions, ruling[s].op \in Edits,
           AddCandidate(s) \/ RemoveCandidate(s) \/ AddVoter(s) \/ RemoveVoter(s)
    PROVE  Orderly' /\ ballots' = ballots
<1>1. PICK p \in ProposalIds :
        /\ p = ruling[s].proposal /\ ~HasBallots(p) /\ proposals[p].appointed = Nil
        /\ proposals[p].d1 \in Deadlines /\ proposals[p].d2 \in Deadlines
  BY OnOpenProposal DEF Edits
<1>2. /\ ballots' = ballots \/ \E gone : DropBallots(p, gone)
      /\ UNCHANGED today
  BY <1>1 DEF AddCandidate, RemoveCandidate, AddVoter, RemoveVoter
<1>3. ballots' = ballots
  BY <1>1, <1>2, DroppingNothing DEF SerialInv
<1>4. \A q \in ProposalIds \ {p} : candidates'[q] = candidates[q]
  BY <1>1 DEF AddCandidate, RemoveCandidate, AddVoter, RemoveVoter,
              SerialInv, ElectionInv, Tables
<1>5. proposals \in [ProposalIds -> ProposalRows] /\ proposals[p] \in ProposalRows
  BY DEF SerialInv, ElectionInv, Tables
<1>6. \/ proposals' = proposals
      \/ proposals' = [proposals EXCEPT ![p].appointed = Nil]
  BY <1>1, <1>5 DEF AddCandidate, RemoveCandidate, AddVoter, RemoveVoter
<1>7. /\ \A q \in ProposalIds \ {p} : proposals'[q] = proposals[q]
      /\ proposals'[p].d1 = proposals[p].d1 /\ proposals'[p].d2 = proposals[p].d2
      /\ proposals'[p].appointed = Nil
  BY <1>1, <1>5, <1>6 DEF ProposalRows
<1>8. OrderlyAt(p)'
  BY <1>1, <1>3, <1>7, Unvoted
<1>9. ASSUME NEW q \in ProposalIds \ {p} PROVE OrderlyAt(q)'
  BY <1>2, <1>3, <1>4, <1>7, Untouched DEF SerialInv, Orderly
<1>10. QED
  BY <1>3, <1>8, <1>9 DEF Orderly

\* A vote scores every candidate, in the voting phase.
LEMMA VoteOrderly ==
    ASSUME SerialInv, NEW p \in ProposalIds, NEW v \in voters[p],
           proposals[p].appointed = Nil, proposals[p].d1 < today,
           proposals[p].d1 \in Deadlines, proposals[p].d2 \in Deadlines,
           UNCHANGED <<today, proposals, candidates>>,
           NEW score \in [candidates[p] -> Scores],
           \A q \in ProposalIds \ {p} : ballots'[q] = ballots[q],
           \A w, c \in People :
               ballots'[p][<<w, c>>] = IF w = v /\ c \in candidates[p] THEN score[c]
                                       ELSE ballots[p][<<w, c>>]
    PROVE  Orderly'
<1>1. candidates[p] \subseteq People
  BY DEF SerialInv, ElectionInv, Tables
<1>2. \A x \in Scores : x # Nil
  BY ONLY ElectionsAssumption
<1>3. \A c \in candidates[p] : score[c] # Nil
  BY ONLY <1>2, score \in [candidates[p] -> Scores]
<1>4. ASSUME NEW w \in People, NEW c \in People
      PROVE  ballots'[p][<<w, c>>] # Nil
               <=> IF w = v THEN c \in candidates[p] ELSE ballots[p][<<w, c>>] # Nil
  <2>1. ballots[p][<<w, c>>] # Nil => c \in candidates[p]
    BY DEF SerialInv, ElectionInv, Tables, ScoresAreOfTheRoll
  <2>2. QED
    BY <1>3, <2>1
<1>5. ASSUME NEW w \in Voted(p)'
      PROVE  {c \in People : ballots'[p][<<w, c>>] # Nil} = candidates[p]
  <2>1. w \in People
    BY DEF Voted
  <2>2. CASE w = v
    BY <1>1, <1>4, <2>1, <2>2
  <2>3. CASE w # v
    <3>1. \A c \in People : ballots'[p][<<w, c>>] # Nil <=> ballots[p][<<w, c>>] # Nil
      BY <1>4, <2>1, <2>3
    <3>2. w \in Voted(p)
      BY <3>1 DEF Voted
    <3>3. {c \in People : ballots[p][<<w, c>>] # Nil} = candidates[p]
      BY <3>2 DEF SerialInv, Orderly, OrderlyAt
    <3>4. QED
      BY <3>1, <3>3
  <2>4. QED
    BY <2>2, <2>3
<1>6. OrderlyAt(p)'
  BY <1>5 DEF OrderlyAt
<1>7. ASSUME NEW q \in ProposalIds \ {p} PROVE OrderlyAt(q)'
  BY Untouched DEF SerialInv, Orderly
<1>8. QED
  BY <1>6, <1>7 DEF Orderly

\* cast_ballot.
LEMMA CastOrderly ==
    ASSUME SerialInv, NEW s \in ElectionSessions, Cast(s) PROVE Orderly'
<1> DEFINE p == ruling[s].proposal
           v == ruling[s].who
<1>1. /\ p \in ProposalIds /\ proposals[p].appointed = Nil /\ v \in voters[p]
      /\ proposals[p].d1 \in Deadlines /\ proposals[p].d2 \in Deadlines
  BY OnOpenProposal DEF Cast
<1>2. /\ proposals[p].d1 < today
      /\ UNCHANGED <<today, proposals, candidates>>
  BY <1>1, ElectionsAssumption
  DEF Cast, SerialInv, StillHolds, ElectionInv, Days, Deadlines
<1>3. PICK score \in [candidates[p] -> Scores] :
        ballots' = [ballots EXCEPT ![p] =
                      [vc \in People \X People |->
                         IF vc[1] = v /\ vc[2] \in candidates[p]
                         THEN score[vc[2]] ELSE @[vc]]]
  BY DEF Cast
<1> DEFINE sheet == [vc \in People \X People |->
                       IF vc[1] = v /\ vc[2] \in candidates[p]
                       THEN score[vc[2]] ELSE ballots[p][vc]]
<1>4. ballots \in [ProposalIds -> Ballots]
  BY DEF SerialInv, ElectionInv, Tables
<1>5. ballots' = [ballots EXCEPT ![p] = sheet]
  BY <1>1, <1>3, <1>4
<1>6. \A w, c \in People :
        sheet[<<w, c>>] = IF w = v /\ c \in candidates[p] THEN score[c]
                          ELSE ballots[p][<<w, c>>]
  OBVIOUS
<1> HIDE DEF sheet
<1>7. \A q \in ProposalIds \ {p} : ballots'[q] = ballots[q]
  BY <1>4, <1>5
<1>8. ballots'[p] = sheet
  BY <1>1, <1>4, <1>5
<1>9. \A w, c \in People :
        ballots'[p][<<w, c>>] = IF w = v /\ c \in candidates[p] THEN score[c]
                                ELSE ballots[p][<<w, c>>]
  BY <1>6, <1>8
<1> HIDE DEF p, v
<1>10. QED
  BY <1>1, <1>2, <1>7, <1>9, VoteOrderly

\* A decision is made on an open proposal: an appointment names its candidate,
\* a cancellation nobody.
LEMMA DecisionOrderly ==
    ASSUME SerialInv, NEW s \in ElectionSessions, Appoint(s) \/ Cancel(s) PROVE Orderly'
<1>0. PICK c : c = ruling[s].who
  OBVIOUS
<1>1. PICK p \in ProposalIds :
        /\ p = ruling[s].proposal /\ proposals[p].appointed = Nil
        /\ proposals[p].d1 \in Deadlines /\ proposals[p].d2 \in Deadlines
  BY OnOpenProposal DEF Appoint, Cancel
<1>2. UNCHANGED <<today, candidates, ballots>>
  BY DEF Appoint, Cancel
<1>3. proposals \in [ProposalIds -> ProposalRows] /\ proposals[p] \in ProposalRows
  BY DEF SerialInv, ElectionInv, Tables
<1>4. \/ proposals' = [proposals EXCEPT ![p].status = "appointed", ![p].appointed = c]
      \/ proposals' = [proposals EXCEPT ![p].status = "cancelled"]
  BY <1>0, <1>1 DEF Appoint, Cancel
<1>5. \A q \in ProposalIds \ {p} : proposals'[q] = proposals[q]
  BY <1>3, <1>4
<1>6. /\ proposals'[p].d1 = proposals[p].d1 /\ proposals'[p].d2 = proposals[p].d2
      /\ proposals'[p].appointed # Nil => proposals'[p].status = "appointed"
  <2>1. proposals[p] \in ProposalRows
    BY <1>1, <1>3
  <2>2. \/ proposals'[p] = [proposals[p] EXCEPT !.status = "appointed", !.appointed = c]
        \/ proposals'[p] = [proposals[p] EXCEPT !.status = "cancelled"]
    BY <1>1, <1>3, <1>4
  <2>3. CASE proposals'[p] = [proposals[p] EXCEPT !.status = "appointed", !.appointed = c]
    BY <2>1, <2>3 DEF ProposalRows
  <2>4. CASE proposals'[p] = [proposals[p] EXCEPT !.status = "cancelled"]
    BY <1>1, <2>1, <2>4 DEF ProposalRows
  <2> QED  BY <2>2, <2>3, <2>4
<1>7. OrderlyAt(p)'
  BY <1>1, <1>2, <1>6, Rewritten DEF SerialInv, Orderly, OrderlyAt
<1>8. ASSUME NEW q \in ProposalIds \ {p} PROVE OrderlyAt(q)'
  BY <1>2, <1>5, Untouched DEF SerialInv, Orderly
<1>9. QED
  BY <1>7, <1>8 DEF Orderly

\* A request alone at work ends: nothing is left to rely on anything.
LEMMA AloneEnds ==
    ASSUME OneAtATime, SerialInv, NEW s \in ElectionSessions, CommitRuling(s),
           ElectionInv', Orderly'
    PROVE  SerialInv'
<1>1. \A t \in ElectionSessions : ruling'[t] = NoRuling
  BY DEF OneAtATime, CommitRuling, SerialInv, ElectionInv
<1>2. \A t \in ElectionSessions : StillHolds(ruling[t])'
  BY <1>1 DEF StillHolds, NoRuling, Edits
<1>3. QED
  BY <1>2 DEF SerialInv

\* The requests' last steps, together.
LEMMA ContinueSerial ==
    ASSUME OneAtATime, SerialInv, ElectionInv', NEW s \in ElectionSessions, ContinueRuling(s)
    PROVE  SerialInv'
<1>1. CommitRuling(s)
  BY DEF ContinueRuling, Create, Update, AddCandidate, RemoveCandidate, AddVoter,
         RemoveVoter, Cast, Appoint, Cancel, NewRound, GiveUpRuling
<1>2. CASE AddCandidate(s) \/ RemoveCandidate(s) \/ AddVoter(s) \/ RemoveVoter(s)
  <2>1. ruling[s].op \in Edits
    BY <1>2 DEF AddCandidate, RemoveCandidate, AddVoter, RemoveVoter, Edits
  <2>2. QED
    BY <1>1, <1>2, <2>1, EditOrderly, AloneEnds
<1>3. CASE GiveUpRuling(s)
  <2>1. Orderly'
    BY <1>3, Untouched DEF GiveUpRuling, SerialInv, Orderly
  <2>2. QED
    BY <1>1, <2>1, AloneEnds
<1>4. CASE Create(s) \/ NewRound(s)
  BY <1>1, <1>4, CreateOrderly, NewRoundOrderly, AloneEnds
<1>5. CASE Update(s) \/ Cast(s)
  BY <1>1, <1>5, UpdateOrderly, CastOrderly, AloneEnds
<1>6. CASE Appoint(s) \/ Cancel(s)
  BY <1>1, <1>6, DecisionOrderly, AloneEnds
<1>7. QED
  BY <1>2, <1>3, <1>4, <1>5, <1>6 DEF ContinueRuling

\* What a request checks as it begins holds then.
LEMMA BeginsOnTrueFacts ==
    ASSUME SerialInv, NEW s \in ElectionSessions, Start(s)
    PROVE  /\ StillHolds(ruling'[s])
           /\ UNCHANGED <<today, proposals, candidates, voters, ballots, role>>
<1> DEFINE Goal == /\ StillHolds(ruling'[s])
                   /\ UNCHANGED <<today, proposals, candidates, voters, ballots, role>>
<1>0. ruling \in [ElectionSessions -> Rulings]
  BY DEF SerialInv, ElectionInv
<1> USE DEF BeginRuling, StillHolds, Edits
<1>1. CASE BeginCreate(s)
  <2>1. PICK seat \in Seats, names \in (SUBSET People) \ {{}},
             d1 \in Deadlines, d2 \in Deadlines :
          BeginRuling(s, [NoRuling EXCEPT !.op = "create", !.names = names, !.seat = seat,
                                          !.d1 = d1, !.d2 = d2])
    BY <1>1 DEF BeginCreate
  <2>2. ruling'[s].op = "create"
    BY <1>0, <2>1 DEF NoRuling
  <2>3. QED
    BY <2>1, <2>2
<1>2. ASSUME NEW p \in ProposalIds, BeginUpdate(s, p) PROVE Goal
  <2>1. PICK d1 \in Deadlines, d2 \in Deadlines :
          /\ d1 >= today => ~HasBallots(p)
          /\ BeginRuling(s, [NoRuling EXCEPT
                                   !.op = "update", !.proposal = p,
                                   !.d1 = IF d1 = proposals[p].d1 THEN Nil ELSE d1,
                                   !.d2 = IF d2 = proposals[p].d2 THEN Nil ELSE d2])
    BY <1>2 DEF BeginUpdate
  <2>2. /\ ruling'[s].op = "update" /\ ruling'[s].proposal = p
        /\ ruling'[s].d1 = IF d1 = proposals[p].d1 THEN Nil ELSE d1
    BY <1>0, <2>1 DEF NoRuling
  <2>3. NewD1(ruling'[s]) = d1 /\ d1 \in Nat /\ today \in Nat
    BY <2>2, ElectionsAssumption DEF NewD1, Deadlines, SerialInv, ElectionInv, Days
  <2>4. proposals[p].status = "open"
    BY <1>2 DEF BeginUpdate
  <2>5. StillHolds(ruling'[s])
    BY <2>1, <2>2, <2>3, <2>4
  <2>6. QED
    BY <2>1, <2>5
<1>3. ASSUME NEW p \in ProposalIds, NEW v \in People, NEW phase, NEW op,
             BeginInPhase(s, op, p, phase, v),
             \/ op \in Edits /\ phase = "nominating"
             \/ op = "cast" /\ phase = "voting"
             \/ op = "appoint"
      PROVE  Goal
  <2>1. BeginRuling(s, [NoRuling EXCEPT !.op = op, !.proposal = p, !.who = v])
        /\ InPhase(p, phase)
    BY <1>3 DEF BeginInPhase
  <2>2. ruling'[s].op = op /\ ruling'[s].proposal = p
    BY <1>0, <2>1 DEF NoRuling
  <2>3. /\ proposals[p].status = "open"
        /\ phase = "nominating" => today <= proposals[p].d1
        /\ phase = "voting" => today > proposals[p].d1 /\ today <= proposals[p].d2
    BY <2>1, PhaseMeans
  <2>4. QED
    BY <1>3, <2>1, <2>2, <2>3
<1>4. ASSUME NEW p \in ProposalIds, BeginCancel(s, p) PROVE Goal
  BY <1>0, <1>4 DEF BeginCancel, NoRuling
<1>5. ASSUME NEW p \in ProposalIds, BeginNewRound(s, p) PROVE Goal
  <2>1. PICK d1 \in Deadlines, d2 \in Deadlines :
          BeginRuling(s, [NoRuling EXCEPT !.op = "new_round", !.proposal = p,
                                          !.d1 = d1, !.d2 = d2])
    BY <1>5 DEF BeginNewRound
  <2>2. ruling'[s].op = "new_round" /\ ruling'[s].proposal = p
    BY <1>0, <2>1 DEF NoRuling
  <2>3. proposals[p].status = "open"
    BY <1>5 DEF BeginNewRound, InPhase
  <2>4. QED
    BY <2>1, <2>2, <2>3
<1>6. ASSUME NEW p \in ProposalIds, BeginEditNames(s, p) PROVE Goal
  <2>1. PICK op \in Edits, v \in People : BeginInPhase(s, op, p, "nominating", v)
    BY <1>6 DEF BeginEditNames
  <2>2. QED
    BY <1>3, <2>1
<1>7. QED
  BY <1>1, <1>2, <1>3, <1>4, <1>5, <1>6 DEF Start, BeginCast, BeginAppoint

\* Every step keeps the invariant, if requests do not overlap and none is at
\* work at midnight.
LEMMA SerialStepInv ==
    ASSUME OneAtATime, SerialInv, [ElectionsNext]_electionVars,
           [today' # today => \A s \in ElectionSessions : ruling[s].op = "idle"]_electionVars
    PROVE  SerialInv'
<1>0. ElectionInv'
  BY StepInv DEF SerialInv
<1>1. ASSUME NEW s \in ElectionSessions, ContinueRuling(s) PROVE SerialInv'
  BY <1>0, <1>1, ContinueSerial
<1>2. ASSUME NEW s \in ElectionSessions, Start(s) PROVE SerialInv'
  <2>1. /\ StillHolds(ruling'[s])
        /\ UNCHANGED <<today, proposals, candidates, voters, ballots, role>>
    BY <1>2, BeginsOnTrueFacts
  <2>2. StillHolds(ruling[s])'
    BY <2>1 DEF StillHolds, NewD1, HasBallots, Voted
  <2>3. \A t \in ElectionSessions : StillHolds(ruling[t])'
    BY <2>2 DEF OneAtATime
  <2>4. Orderly'
    BY <2>1, Untouched DEF SerialInv, Orderly
  <2>5. QED
    BY <1>0, <2>3, <2>4 DEF SerialInv
<1>3. CASE DayPasses
  <2>1. /\ today' = today + 1 /\ today \in Nat
        /\ UNCHANGED <<proposals, candidates, ballots, ruling>>
    BY <1>3, ElectionsAssumption DEF DayPasses, SerialInv, ElectionInv, Days
  <2>2. \A s \in ElectionSessions : ruling'[s].op = "idle"
    BY <2>1 DEF electionVars
  <2>3. \A s \in ElectionSessions : StillHolds(ruling[s])'
    BY <2>2 DEF StillHolds, Edits
  <2>4. ASSUME NEW p \in ProposalIds PROVE OrderlyAt(p)'
    <3>1. OrderlyAt(p)
      BY DEF SerialInv, Orderly
    <3>2. Voted(p)' = Voted(p) /\ (HasBallots(p)' <=> HasBallots(p))
      BY <2>1 DEF Voted, HasBallots
    <3>3. HasBallots(p) => proposals[p].d1 \in Nat
      BY <3>1, UnusedUnvoted, ElectionsAssumption
      DEF OrderlyAt, SerialInv, Deadlines
    <3>4. QED
      BY <2>1, <3>1, <3>2, <3>3 DEF OrderlyAt, Used
  <2>5. QED
    BY <1>0, <2>3, <2>4 DEF SerialInv, Orderly
<1>4. CASE UNCHANGED electionVars
  <2>1. Orderly'
    BY <1>4, Untouched DEF electionVars, SerialInv, Orderly
  <2>2. \A s \in ElectionSessions : StillHolds(ruling[s])'
    BY <1>4 DEF electionVars, SerialInv, StillHolds, NewD1, HasBallots, Voted
  <2>3. QED
    BY <1>0, <2>1, <2>2 DEF SerialInv
<1>5. QED
  BY <1>1, <1>2, <1>3, <1>4 DEF ElectionsNext

\* Nothing is on record at the start.
LEMMA InitSerial == ElectionsInit => SerialInv
<1> SUFFICES ASSUME ElectionsInit PROVE SerialInv
  OBVIOUS
<1>1. ElectionInv
  BY InitInv
<1>2. ASSUME NEW p \in ProposalIds PROVE OrderlyAt(p)
  <2>1. ~Used(p) /\ proposals[p].appointed = Nil
    BY DEF ElectionsInit, Used
  <2>2. ~HasBallots(p) /\ Voted(p) = {}
    BY <1>1, <2>1, UnusedUnvoted DEF HasBallots
  <2>3. QED
    BY <2>1, <2>2 DEF OrderlyAt
<1>3. \A s \in ElectionSessions : StillHolds(ruling[s])
  BY DEF ElectionsInit, StillHolds, NoRuling, Edits
<1>4. QED
  BY <1>1, <1>2, <1>3 DEF SerialInv, Orderly

\* With one request at a time, none of them spanning midnight, every request
\* finds, when it writes, what it checked when it began.
THEOREM SerialInvariance ==
    ASSUME OneAtATime PROVE ElectionsSpec /\ MidnightApart => []SerialInv
<1>1. SerialInv /\ [ElectionsNext]_electionVars
        /\ [today' # today => \A s \in ElectionSessions : ruling[s].op = "idle"]_electionVars
        => SerialInv'
  BY SerialStepInv
<1>2. QED
  BY <1>1, InitSerial, PTL DEF ElectionsSpec, MidnightApart

\* Then whoever voted has a score for every candidate: cast_ballot writes whole
\* ballots, and candidates cannot change under them.
THEOREM WholeBallots ==
    ASSUME OneAtATime PROVE ElectionsSpec /\ MidnightApart => []BallotsAreWhole
<1>1. SerialInv => BallotsAreWhole
  BY DEF SerialInv, Orderly, OrderlyAt, BallotsAreWhole
<1>2. QED
  BY <1>1, SerialInvariance, PTL

\* Then only an appointed proposal names an appointed candidate: the double
\* decision needs two requests at once.
THEOREM NamesOnlyOnAppointed ==
    ASSUME OneAtATime PROVE ElectionsSpec /\ MidnightApart => []AppointedOnlyOnAppointed
<1>1. SerialInv => AppointedOnlyOnAppointed
  BY DEF SerialInv, Orderly, OrderlyAt, AppointedOnlyOnAppointed
<1>2. QED
  BY <1>1, SerialInvariance, PTL

\* Where somebody has voted, no step changes candidates or roll.
LEMMA VotedFreezes ==
    ASSUME SerialInv, ElectionsNext, NEW p \in ProposalIds, HasBallots(p)
    PROVE  candidates'[p] = candidates[p] /\ voters'[p] = voters[p]
<1>1. Used(p)
  BY UnusedUnvoted DEF SerialInv
<1>2. /\ candidates \in [ProposalIds -> SUBSET People]
      /\ voters \in [ProposalIds -> SUBSET People]
  BY DEF SerialInv, ElectionInv, Tables
<1>3. CASE DayPasses
  BY <1>3 DEF DayPasses
<1>4. ASSUME NEW s \in ElectionSessions, Start(s)
      PROVE  candidates' = candidates /\ voters' = voters
  BY <1>4, BeginsOnTrueFacts
<1>5. ASSUME NEW s \in ElectionSessions, Create(s) \/ NewRound(s)
      PROVE  candidates'[p] = candidates[p] /\ voters'[p] = voters[p]
  <2>1. ASSUME NEW kept, NEW q \in ProposalIds, NEW seat, NEW d1, NEW d2, NEW names,
               NEW roll, InsertProposal(kept, q, seat, d1, d2, names, roll)
        PROVE  candidates'[p] = candidates[p] /\ voters'[p] = voters[p]
    BY <1>1, <1>2, <2>1 DEF InsertProposal, IsNextProposal, Used
  <2>2. CASE Create(s)
    BY <2>1, <2>2 DEF Create
  <2>3. CASE NewRound(s)
    BY <2>1, <2>3 DEF NewRound
  <2>4. QED
    BY <1>5, <2>2, <2>3
<1>6. ASSUME NEW s \in ElectionSessions,
             AddCandidate(s) \/ RemoveCandidate(s) \/ AddVoter(s) \/ RemoveVoter(s)
      PROVE  candidates'[p] = candidates[p] /\ voters'[p] = voters[p]
  <2>1. ~HasBallots(ruling[s].proposal)
    BY <1>6, OnOpenProposal
    DEF AddCandidate, RemoveCandidate, AddVoter, RemoveVoter, Edits
  <2>2. p # ruling[s].proposal
    BY <2>1
  <2>3. QED
    BY <1>2, <1>6, <2>2 DEF AddCandidate, RemoveCandidate, AddVoter, RemoveVoter
<1>7. ASSUME NEW s \in ElectionSessions,
             Update(s) \/ Cast(s) \/ Appoint(s) \/ Cancel(s) \/ GiveUpRuling(s)
      PROVE  candidates' = candidates /\ voters' = voters
  BY <1>7 DEF Update, Cast, Appoint, Cancel, GiveUpRuling
<1>8. QED
  BY <1>3, <1>4, <1>5, <1>6, <1>7 DEF ElectionsNext, ContinueRuling

\* Then candidates and roll are frozen under cast ballots, through every legal
\* move of the deadlines.
THEOREM VotesFreeze ==
    ASSUME OneAtATime PROVE ElectionsSpec /\ MidnightApart => FrozenOnceVoted
<1> DEFINE Kept == \A p \in ProposalIds :
                     HasBallots(p) => /\ candidates'[p] = candidates[p]
                                      /\ voters'[p] = voters[p]
<1>1. SerialInv /\ [ElectionsNext]_electionVars => [Kept]_electionVars
  BY VotedFreezes
<1>2. QED
  BY <1>1, SerialInvariance, PTL DEF ElectionsSpec, FrozenOnceVoted

\* Where the tally is shown, no step changes a score.
LEMMA ShownStays ==
    ASSUME SerialInv, ElectionsNext, NEW p \in ProposalIds, TallyVisible(p)
    PROVE  ballots'[p] = ballots[p]
<1>1. CASE DayPasses
  BY <1>1 DEF DayPasses
<1>2. ASSUME NEW s \in ElectionSessions, Start(s) PROVE ballots' = ballots
  BY <1>2, BeginsOnTrueFacts
<1>3. ASSUME NEW s \in ElectionSessions, Cast(s) PROVE ballots'[p] = ballots[p]
  <2>1. /\ proposals[ruling[s].proposal].status = "open"
        /\ today <= proposals[ruling[s].proposal].d2
        /\ proposals[ruling[s].proposal].d2 \in Deadlines
    BY <1>3, OnOpenProposal DEF Cast, SerialInv, StillHolds
  <2>2. p # ruling[s].proposal
    BY <2>1, ElectionsAssumption
    DEF TallyVisible, Deadlines, SerialInv, ElectionInv, Days
  <2>3. QED
    BY <1>3, <2>2 DEF Cast, SerialInv, ElectionInv, Tables
<1>4. ASSUME NEW s \in ElectionSessions,
             AddCandidate(s) \/ RemoveCandidate(s) \/ AddVoter(s) \/ RemoveVoter(s)
      PROVE  ballots' = ballots
  <2>1. ruling[s].op \in Edits
    BY <1>4 DEF AddCandidate, RemoveCandidate, AddVoter, RemoveVoter, Edits
  <2>2. QED
    BY <1>4, <2>1, EditOrderly
<1>5. ASSUME NEW s \in ElectionSessions,
             Create(s) \/ NewRound(s) \/ Update(s) \/ Appoint(s) \/ Cancel(s) \/ GiveUpRuling(s)
      PROVE  ballots' = ballots
  BY <1>5 DEF Create, NewRound, Update, Appoint, Cancel, GiveUpRuling
<1>6. QED
  BY <1>1, <1>2, <1>3, <1>4, <1>5 DEF ElectionsNext, ContinueRuling

\* Then a tally that is shown does not change until a manager reopens voting.
THEOREM ShownIsFinal ==
    ASSUME OneAtATime PROVE ElectionsSpec /\ MidnightApart => ShownTallyIsFinal
<1> DEFINE Kept == \A p \in ProposalIds : TallyVisible(p) => ballots'[p] = ballots[p]
<1>1. SerialInv /\ [ElectionsNext]_electionVars => [Kept]_electionVars
  BY ShownStays
<1>2. QED
  BY <1>1, SerialInvariance, PTL DEF ElectionsSpec, ShownTallyIsFinal

-----------------------------------------------------------------------------
(* The STAR count.  Totals are recursive sums; the library's induction     *)
(* cannot be used, so the steps by number take the smallest counterexample *)
(* instead.                                                                *)

LEMMA SmallestNumber ==
    ASSUME NEW T, T \subseteq Nat, T # {}
    PROVE  \E x \in T : \A y \in T : x <= y
<1>1. PICK x \in T : \A y \in T : ~(<<y, x>> \in OpToRel(<, Nat))
  BY NatLessThanWellFounded, WFMin, Zenon
<1>2. \A y \in T : ~(y < x)
  BY <1>1 DEF OpToRel
<1> QED  BY <1>2

\* The running sums of the numbers g, up to the n-th.
Sums(f, g, n) == f = [i \in 0..n |-> IF i = 0 THEN 0 ELSE f[i - 1] + g[i]]

LEMMA SumsExist ==
    ASSUME NEW n \in Nat, NEW g \in [1..n -> Nat]
    PROVE  \E f \in [0..n -> Nat] : Sums(f, g, n)
<1> DEFINE Missing == {m \in 0..n : ~ \E f \in [0..m -> Nat] : Sums(f, g, m)}
<1> SUFFICES ASSUME Missing # {} PROVE FALSE
  <2>1. n \in 0..n
    OBVIOUS
  <2> QED  BY <2>1
<1>1. PICK m \in Missing : \A k \in Missing : m <= k
  <2>1. Missing \subseteq Nat
    OBVIOUS
  <2> QED  BY <2>1, SmallestNumber
<1>2. CASE m = 0
  <2> DEFINE f == [i \in 0..0 |-> 0]
  <2>1. f \in [0..m -> Nat]
    BY <1>2
  <2>2. Sums(f, g, m)
    BY <1>2 DEF Sums
  <2> HIDE DEF f
  <2> QED  BY <2>1, <2>2
<1>3. CASE m # 0
  <2>1. m \in 1..n /\ m - 1 \in 0..n /\ ~(m <= m - 1)
    BY <1>3
  <2>2. m - 1 \notin Missing
    BY <1>1, <2>1
  <2>3. PICK f \in [0..(m - 1) -> Nat] : Sums(f, g, m - 1)
    BY <2>1, <2>2
  <2> DEFINE h == [i \in 0..m |-> IF i = m THEN f[m - 1] + g[m] ELSE f[i]]
  <2>4. f[m - 1] \in Nat /\ g[m] \in Nat
    BY <2>1, <2>3
  <2>5. h \in [0..m -> Nat]
    BY <2>1, <2>3, <2>4
  <2>6. \A i \in 0..(m - 1) : f[i] = IF i = 0 THEN 0 ELSE f[i - 1] + g[i]
    BY <2>3 DEF Sums
  <2>7. \A i \in 0..m : h[i] = IF i = 0 THEN 0 ELSE h[i - 1] + g[i]
    <3> TAKE i \in 0..m
    <3>1. CASE i = m
      BY <2>1, <3>1
    <3>2. CASE i # m
      <4>1. i \in 0..(m - 1) /\ h[i] = f[i]
        BY <2>1, <3>2
      <4>2. i # 0 => i - 1 \in 0..m /\ i - 1 # m /\ h[i - 1] = f[i - 1]
        BY <2>1, <3>2
      <4> QED  BY <2>6, <4>1, <4>2
    <3> QED  BY <3>1, <3>2
  <2> HIDE DEF h
  <2>8. Sums(h, g, m)
    BY <2>5, <2>7 DEF Sums
  <2> QED  BY <2>5, <2>8
<1> QED  BY <1>2, <1>3

LEMMA SumsAreUnique ==
    ASSUME NEW n \in Nat, NEW g, NEW f, NEW h, Sums(f, g, n), Sums(h, g, n)
    PROVE  f = h
<1> DEFINE Differ == {i \in 0..n : f[i] # h[i]}
<1>1. \A i \in 0..n : /\ f[i] = IF i = 0 THEN 0 ELSE f[i - 1] + g[i]
                      /\ h[i] = IF i = 0 THEN 0 ELSE h[i - 1] + g[i]
  BY DEF Sums
<1>2. Differ = {}
  <2> SUFFICES ASSUME Differ # {} PROVE FALSE
    OBVIOUS
  <2>1. PICK i \in Differ : \A k \in Differ : i <= k
    <3>1. Differ \subseteq Nat
      OBVIOUS
    <3> QED  BY <3>1, SmallestNumber
  <2>2. i # 0
    BY <1>1
  <2>3. i - 1 \in 0..n /\ ~(i <= i - 1)
    BY <2>2
  <2>4. f[i - 1] = h[i - 1]
    BY <2>1, <2>3
  <2> QED  BY <1>1, <2>2, <2>4
<1>3. \A i \in 0..n : f[i] = h[i]
  BY <1>2
<1>4. DOMAIN f = 0..n /\ DOMAIN h = 0..n /\ f = [i \in 0..n |-> f[i]] /\ h = [i \in 0..n |-> h[i]]
  BY DEF Sums
<1> QED  BY <1>3, <1>4

\* What one ballot paper after another gives c, and only that, is c's total.
LEMMA TotalIsTheSum ==
    ASSUME NEW c, NEW bs, Len(bs) \in Nat, NEW g \in [1..Len(bs) -> Nat],
           \A i \in 1..Len(bs) : bs[i][c] = g[i],
           NEW f \in [0..Len(bs) -> Nat], Sums(f, g, Len(bs))
    PROVE  Total(c, bs) = f[Len(bs)]
<1> DEFINE n == Len(bs)
           Is(h) == h = [i \in 0..n |-> IF i = 0 THEN 0 ELSE h[i - 1] + bs[i][c]]
<1>1. \A h : Is(h) <=> Sums(h, g, n)
  <2> TAKE h
  <2>1. \A i \in 0..n : (IF i = 0 THEN 0 ELSE h[i - 1] + bs[i][c])
                          = (IF i = 0 THEN 0 ELSE h[i - 1] + g[i])
    OBVIOUS
  <2> DEFINE ofBallots == [i \in 0..n |-> IF i = 0 THEN 0 ELSE h[i - 1] + bs[i][c]]
             ofNumbers == [i \in 0..n |-> IF i = 0 THEN 0 ELSE h[i - 1] + g[i]]
  <2>2. ofBallots = ofNumbers
    BY <2>1, Zenon
  <2>3. (Is(h) <=> h = ofBallots) /\ (Sums(h, g, n) <=> h = ofNumbers)
    BY Zenon DEF Sums
  <2> HIDE DEF ofBallots, ofNumbers, Is
  <2> QED  BY <2>2, <2>3
<1>2. Is(f)
  BY <1>1
<1>3. Is(CHOOSE h : Is(h))
  BY <1>2
<1>4. (CHOOSE h : Is(h)) = f
  BY <1>1, <1>3, SumsAreUnique
<1> QED  BY <1>4 DEF Total

\* Totals are numbers.
LEMMA TotalType ==
    ASSUME NEW c, NEW bs, Len(bs) \in Nat, \A i \in 1..Len(bs) : bs[i][c] \in Nat
    PROVE  Total(c, bs) \in Nat
<1> DEFINE g == [i \in 1..Len(bs) |-> bs[i][c]]
<1>1. g \in [1..Len(bs) -> Nat] /\ \A i \in 1..Len(bs) : bs[i][c] = g[i]
  OBVIOUS
<1> HIDE DEF g
<1>2. PICK f \in [0..Len(bs) -> Nat] : Sums(f, g, Len(bs))
  BY <1>1, SumsExist
<1>3. Total(c, bs) = f[Len(bs)]
  BY <1>1, <1>2, TotalIsTheSum
<1> QED  BY <1>2, <1>3

\* Two candidates scored alike, ballot by ballot, have the same total.
LEMMA SameScoresSameTotal ==
    ASSUME NEW c, NEW d, NEW bs, NEW cs, Len(bs) \in Nat, Len(cs) = Len(bs),
           \A i \in 1..Len(bs) : bs[i][c] \in Nat /\ cs[i][d] = bs[i][c]
    PROVE  Total(d, cs) = Total(c, bs)
<1> DEFINE g == [i \in 1..Len(bs) |-> bs[i][c]]
<1>1. /\ g \in [1..Len(bs) -> Nat]
      /\ \A i \in 1..Len(bs) : bs[i][c] = g[i] /\ cs[i][d] = g[i]
  OBVIOUS
<1> HIDE DEF g
<1>2. PICK f \in [0..Len(bs) -> Nat] : Sums(f, g, Len(bs))
  BY <1>1, SumsExist
<1>3. Total(c, bs) = f[Len(bs)]
  BY <1>1, <1>2, TotalIsTheSum
<1>4. Total(d, cs) = f[Len(bs)]
  BY <1>1, <1>2, TotalIsTheSum
<1> QED  BY <1>3, <1>4

-----------------------------------------------------------------------------
(* Ballots and head-to-head results.                                       *)

\* Ballots on the candidates cs.
Profile(cs, bs) ==
    /\ IsFiniteSet(cs) /\ cs \subseteq Nat
    /\ Len(bs) \in Nat /\ DOMAIN bs = 1..Len(bs)
    /\ \A i \in DOMAIN bs, c \in cs : bs[i][c] \in Nat

LEMMA TotalsType ==
    ASSUME NEW cs, NEW bs, Profile(cs, bs)
    PROVE  Totals(cs, bs) \in [cs -> Nat]
  BY TotalType DEF Profile, Totals

LEMMA PreferType ==
    ASSUME NEW cs, NEW bs, Profile(cs, bs), NEW a, NEW b
    PROVE  Prefer(bs, a, b) \in Nat
<1>1. {i \in DOMAIN bs : bs[i][a] > bs[i][b]} \in SUBSET (1..Len(bs))
  BY DEF Profile
<1>2. IsFiniteSet(1..Len(bs))
  BY FS_Interval DEF Profile
<1> QED  BY <1>1, <1>2, FS_Subset, FS_CardinalityType DEF Prefer

LEMMA WinsType ==
    ASSUME NEW cs, NEW bs, Profile(cs, bs), NEW tier \in SUBSET cs
    PROVE  Wins(tier, bs) \in [tier -> Nat]
<1> DEFINE beaten(a) == {b \in tier \ {a} : Prefer(bs, a, b) > Prefer(bs, b, a)}
           drawn(a) == {b \in tier \ {a} : Prefer(bs, a, b) = Prefer(bs, b, a)}
<1>1. IsFiniteSet(tier)
  BY FS_Subset DEF Profile
<1>2. ASSUME NEW a \in tier
      PROVE  2 * Cardinality(beaten(a)) + Cardinality(drawn(a)) \in Nat
  <2>1. beaten(a) \in SUBSET tier /\ drawn(a) \in SUBSET tier
    OBVIOUS
  <2>2. Cardinality(beaten(a)) \in Nat /\ Cardinality(drawn(a)) \in Nat
    BY <1>1, <2>1, FS_Subset, FS_CardinalityType
  <2> HIDE DEF beaten, drawn
  <2> QED  BY <2>2
<1> QED  BY <1>2 DEF Wins

-----------------------------------------------------------------------------
(* The places in a tier.                                                   *)

\* Those of S whose result in w is n or better; better; and just that.
AtLeast(S, w, n) == {x \in S : w[x] >= n}
MoreThan(S, w, n) == {x \in S : w[x] > n}
Level(S, w, n) == {x \in S : w[x] = n}

\* A place is a rank: nobody shares one, and all from 1 on are taken.
LEMMA PlacesAreRanks ==
    ASSUME NEW tier \in SUBSET Nat, IsFiniteSet(tier), NEW w \in [tier -> Nat]
    PROVE  LET place == Places(tier, w) IN
           /\ place \in [tier -> 1..Cardinality(tier)]
           /\ \A c, d \in tier : place[c] = place[d] => c = d
           /\ \A c, d \in tier : w[c] > w[d] => place[c] < place[d]
           /\ \A i \in 1..Cardinality(tier) : \E c \in tier : place[c] = i
<1> DEFINE place == Places(tier, w)
           upTo(c) == {x \in tier : \/ w[x] > w[c]
                                    \/ w[x] = w[c] /\ x <= c}
           N == Cardinality(tier)
<1>1. \A c \in tier : w[c] \in Nat /\ c \in Nat
  OBVIOUS
<1>2. \A c \in tier : place[c] = Cardinality(upTo(c))
  BY DEF Places
<1>3. \A c \in tier : /\ c \in upTo(c) /\ upTo(c) \in SUBSET tier
                      /\ IsFiniteSet(upTo(c))
  <2> TAKE c \in tier
  <2>1. c \in upTo(c) /\ upTo(c) \in SUBSET tier
    BY <1>1
  <2> QED  BY <2>1, FS_Subset
<1>4. \A c, d \in tier : d \notin upTo(c) =>
        upTo(c) \subseteq upTo(d) /\ upTo(c) # upTo(d) /\ c \in upTo(d)
  <2> SUFFICES ASSUME NEW c \in tier, NEW d \in tier, d \notin upTo(c)
               PROVE  upTo(c) \subseteq upTo(d) /\ upTo(c) # upTo(d) /\ c \in upTo(d)
    OBVIOUS
  <2>1. w[c] > w[d] \/ (w[c] = w[d] /\ c < d)
    BY <1>1
  <2>2. upTo(c) \subseteq upTo(d)
    <3> SUFFICES ASSUME NEW x \in tier, w[x] > w[c] \/ (w[x] = w[c] /\ x <= c)
                 PROVE  w[x] > w[d] \/ (w[x] = w[d] /\ x <= d)
      OBVIOUS
    <3> QED  BY <1>1, <2>1
  <2>3. d \in upTo(d) /\ c \in upTo(c)
    BY <1>3
  <2> QED  BY <2>2, <2>3
<1>5. \A c \in tier : Cardinality(upTo(c)) \in 1..N
  <2> TAKE c \in tier
  <2>1. Cardinality(upTo(c)) \in Nat /\ Cardinality(upTo(c)) <= N /\ N \in Nat
    BY <1>3, FS_Subset, FS_CardinalityType
  <2>2. Cardinality(upTo(c)) # 0
    BY <1>3, FS_EmptySet
  <2> QED  BY <2>1, <2>2
<1>6. \A c, d \in tier : d \notin upTo(c) => Cardinality(upTo(c)) < Cardinality(upTo(d))
  <2> SUFFICES ASSUME NEW c \in tier, NEW d \in tier, d \notin upTo(c)
               PROVE  Cardinality(upTo(c)) < Cardinality(upTo(d))
    OBVIOUS
  <2>1. upTo(c) \in SUBSET upTo(d) /\ upTo(c) # upTo(d) /\ IsFiniteSet(upTo(d))
    BY <1>3, <1>4
  <2>2. Cardinality(upTo(c)) <= Cardinality(upTo(d)) /\ Cardinality(upTo(c)) # Cardinality(upTo(d))
    <3> HIDE DEF upTo
    <3> QED  BY <2>1, FS_Subset
  <2>3. Cardinality(upTo(c)) \in 1..N /\ Cardinality(upTo(d)) \in 1..N /\ N \in Nat
    BY <1>5, FS_CardinalityType
  <2> HIDE DEF upTo, N
  <2> QED  BY <2>2, <2>3
<1>7. \A c, d \in tier : c # d => c \notin upTo(d) \/ d \notin upTo(c)
  BY <1>1
<1>8. \A c, d \in tier : w[c] > w[d] => d \notin upTo(c)
  BY <1>1
<1> HIDE DEF upTo
<1>9. place \in [tier -> 1..N]
  BY <1>2, <1>5 DEF Places
<1>10. \A c, d \in tier : place[c] = place[d] => c = d
  <2> SUFFICES ASSUME NEW c \in tier, NEW d \in tier, c # d PROVE place[c] # place[d]
    OBVIOUS
  <2>1. place[c] < place[d] \/ place[d] < place[c]
    BY <1>2, <1>6, <1>7
  <2>2. place[c] \in 1..N /\ place[d] \in 1..N
    BY <1>9
  <2> HIDE DEF place, N
  <2> QED  BY <2>1, <2>2
<1>11. \A c, d \in tier : w[c] > w[d] => place[c] < place[d]
  BY <1>2, <1>6, <1>8
<1> HIDE DEF place
<1>12. \A i \in 1..N : \E c \in tier : place[c] = i
  <2> DEFINE taken == {place[c] : c \in tier}
  <2>1. N \in Nat /\ IsFiniteSet(1..N) /\ Cardinality(1..N) = N
    BY FS_CardinalityType, FS_Interval
  <2>2. taken \in SUBSET (1..N)
    BY <1>9
  <2>3. ExistsBijection(tier, taken)
    <3>1. place \in [tier -> taken]
      BY <1>9
    <3>2. place \in Bijection(tier, taken)
      BY <1>10, <3>1 DEF Bijection, Injection, Surjection, IsInjective
    <3> QED  BY <3>2 DEF ExistsBijection
  <2>4. Cardinality(taken) = N
    BY <2>3, FS_Bijection
  <2>5. taken = 1..N
    <3> HIDE DEF taken
    <3> QED  BY <2>1, <2>2, <2>4, FS_Subset
  <2> QED  BY <2>5
<1> QED  BY <1>9, <1>10, <1>11, <1>12 DEF place

\* Who stands on the first k places; there are as many as there are places.
First(tier, place, k) == {c \in tier : place[c] <= k}

LEMMA FirstPlaces ==
    ASSUME NEW tier, NEW N \in Nat, NEW place \in [tier -> 1..N],
           \A c, d \in tier : place[c] = place[d] => c = d,
           \A i \in 1..N : \E c \in tier : place[c] = i,
           NEW k \in 0..N
    PROVE  IsFiniteSet(First(tier, place, k)) /\ Cardinality(First(tier, place, k)) = k
<1> DEFINE first == First(tier, place, k)
           on == [i \in 1..k |-> CHOOSE c \in tier : place[c] = i]
<1>1. \A i \in 1..k : on[i] \in tier /\ place[on[i]] = i
  <2> TAKE i \in 1..k
  <2>1. i \in 1..N
    OBVIOUS
  <2>2. PICK c \in tier : place[c] = i
    BY <2>1
  <2> QED  BY <2>2
<1>2. on \in [1..k -> first]
  BY <1>1 DEF First
<1>3. \A i, j \in 1..k : on[i] = on[j] => i = j
  BY <1>1
<1>4. \A c \in first : \E i \in 1..k : on[i] = c
  <2> TAKE c \in first
  <2>1. c \in tier /\ place[c] \in 1..k
    BY DEF First
  <2>2. on[place[c]] = c
    BY <1>1, <2>1
  <2> QED  BY <2>1, <2>2
<1> HIDE DEF on, first
<1>5. on \in Bijection(1..k, first)
  BY <1>2, <1>3, <1>4 DEF Bijection, Injection, Surjection, IsInjective
<1>6. IsFiniteSet(1..k) /\ Cardinality(1..k) = k
  BY FS_Interval
<1>7. IsFiniteSet(first) /\ Cardinality(first) = Cardinality(1..k)
  BY <1>5, <1>6, FS_Bijection DEF ExistsBijection
<1> QED  BY <1>6, <1>7 DEF first

\* The names-free account of _fill_from_tier: b is the result on the last
\* seat, and the seat is filled when just as many as there are seats have it or
\* better.
FillsBy(tier, w, need, b, r) ==
    /\ Cardinality(MoreThan(tier, w, b)) < need
    /\ need <= Cardinality(AtLeast(tier, w, b))
    /\ r = IF Cardinality(AtLeast(tier, w, b)) = need
           THEN [chosen |-> AtLeast(tier, w, b), tied |-> {}]
           ELSE [chosen |-> {}, tied |-> Level(tier, w, b)]

LEMMA FillIsNameless ==
    ASSUME NEW cs, NEW bs, Profile(cs, bs), NEW tier \in SUBSET cs,
           NEW need \in Nat \ {0}, need < Cardinality(tier)
    PROVE  \E b \in Nat : FillsBy(tier, Wins(tier, bs), need, b, FillFromTier(tier, bs, need))
<1> DEFINE w == Wins(tier, bs)
           place == Places(tier, w)
           N == Cardinality(tier)
           first(k) == First(tier, place, k)
           At(i) == CHOOSE c \in tier : place[c] = i
<1>1. tier \in SUBSET Nat /\ IsFiniteSet(tier) /\ N \in Nat
  BY FS_Subset, FS_CardinalityType DEF Profile
<1>2. w \in [tier -> Nat]
  BY WinsType
<1>3. FillFromTier(tier, bs, need) =
        IF w[At(need + 1)] = w[At(need)]
        THEN [chosen |-> {}, tied |-> {c \in tier : w[c] = w[At(need)]}]
        ELSE [chosen |-> {c \in tier : place[c] <= need}, tied |-> {}]
  BY DEF FillFromTier
<1> HIDE DEF w
<1>4. /\ place \in [tier -> 1..N]
      /\ \A c, d \in tier : place[c] = place[d] => c = d
      /\ \A c, d \in tier : w[c] > w[d] => place[c] < place[d]
      /\ \A i \in 1..N : \E c \in tier : place[c] = i
  BY <1>1, <1>2, PlacesAreRanks
<1> HIDE DEF place, N
<1>5. \A k \in 0..N : IsFiniteSet(first(k)) /\ Cardinality(first(k)) = k
  <2> TAKE k \in 0..N
  <2>1. place \in [tier -> 1..N] /\ N \in Nat
    BY <1>1, <1>4
  <2>2. \A c, d \in tier : place[c] = place[d] => c = d
    BY <1>4
  <2>3. \A i \in 1..N : \E c \in tier : place[c] = i
    BY <1>4
  <2> QED  BY <2>1, <2>2, <2>3, FirstPlaces
<1>6. need \in 1..N /\ need + 1 \in 1..N /\ need - 1 \in 0..N
  BY <1>1 DEF N
<1>7. \A i \in 1..N : At(i) \in tier /\ place[At(i)] = i
  BY <1>4
<1> DEFINE p == At(need)
           q == At(need + 1)
<1>8. p \in tier /\ place[p] = need /\ q \in tier /\ place[q] = need + 1
  BY <1>6, <1>7
<1> HIDE DEF At, p, q
<1> DEFINE b == w[p]
           above == MoreThan(tier, w, b)
           upTo == AtLeast(tier, w, b)
<1>9. /\ \A c \in tier : w[c] \in Nat /\ place[c] \in Nat
      /\ \A c, d \in tier : place[c] <= place[d] => w[c] >= w[d]
  <2>1. \A c \in tier : w[c] \in Nat /\ place[c] \in 1..N
    BY <1>2, <1>4
  <2>2. \A c, d \in tier : place[c] <= place[d] => ~(w[d] > w[c])
    BY <1>4, <2>1
  <2> QED  BY <2>1, <2>2
<1>10. b \in Nat
  BY <1>2, <1>8
<1>11. above \in SUBSET first(need - 1)
  <2> SUFFICES ASSUME NEW c \in tier, w[c] > w[p] PROVE place[c] <= need - 1
    BY DEF MoreThan, First
  <2>1. place[c] < need /\ place[c] \in Nat
    BY <1>4, <1>8, <1>9
  <2> QED  BY <2>1
<1>12. first(need) \in SUBSET upTo
  <2> SUFFICES ASSUME NEW c \in tier, place[c] <= need PROVE w[c] >= w[p]
    BY DEF AtLeast, First
  <2> QED  BY <1>8, <1>9
<1>13. IsFiniteSet(upTo) /\ Cardinality(upTo) \in Nat
  <2>1. upTo \in SUBSET tier
    BY DEF AtLeast
  <2> QED  BY <1>1, <2>1, FS_Subset, FS_CardinalityType
<1>14. Cardinality(above) < need
  <2>1. IsFiniteSet(first(need - 1)) /\ Cardinality(first(need - 1)) = need - 1
    BY <1>5, <1>6
  <2> HIDE DEF first, above
  <2>2. Cardinality(above) <= need - 1 /\ Cardinality(above) \in Nat
    BY <1>11, <2>1, FS_Subset, FS_CardinalityType
  <2> QED  BY <2>2
<1>15. need <= Cardinality(upTo)
  <2>1. Cardinality(first(need)) = need
    BY <1>5, <1>6
  <2> HIDE DEF first, upTo
  <2> QED  BY <1>12, <1>13, <2>1, FS_Subset
<1>16. CASE w[q] = b
  <2>1. first(need + 1) \in SUBSET upTo
    <3> SUFFICES ASSUME NEW c \in tier, place[c] <= need + 1 PROVE w[c] >= w[p]
      BY DEF AtLeast, First
    <3> QED  BY <1>8, <1>9, <1>16
  <2>2. Cardinality(first(need + 1)) = need + 1
    BY <1>5, <1>6
  <2>3. Cardinality(upTo) # need
    <3> HIDE DEF first, upTo
    <3>1. need + 1 <= Cardinality(upTo)
      BY <1>13, <2>1, <2>2, FS_Subset
    <3> QED  BY <1>13, <3>1
  <2>4. FillFromTier(tier, bs, need) = [chosen |-> {}, tied |-> {x \in tier : w[x] = b}]
    BY <1>3, <1>16 DEF p, q
  <2>5. FillsBy(tier, w, need, b, FillFromTier(tier, bs, need))
    BY <1>14, <1>15, <2>3, <2>4 DEF FillsBy, Level
  <2> QED  BY <1>10, <2>5 DEF w
<1>17. CASE w[q] # b
  <2>1. w[q] < b
    <3>1. w[p] >= w[q]
      BY <1>8, <1>9
    <3>2. w[p] \in Nat /\ w[q] \in Nat
      BY <1>8, <1>9
    <3> QED  BY <1>17, <3>1, <3>2
  <2>2. upTo = first(need)
    <3>1. ASSUME NEW c \in tier, w[c] >= w[p], ~(place[c] <= need) PROVE FALSE
      <4>1. place[q] <= place[c]
        BY <1>8, <1>9, <3>1
      <4>2. w[q] >= w[c]
        BY <1>8, <1>9, <4>1
      <4> QED  BY <1>8, <1>9, <2>1, <3>1, <4>2
    <3> QED  BY <1>12, <3>1 DEF AtLeast, First
  <2>3. Cardinality(upTo) = need
    BY <1>5, <1>6, <2>2
  <2>4. FillFromTier(tier, bs, need) = [chosen |-> upTo, tied |-> {}]
    BY <1>3, <1>17, <2>2 DEF p, q, First
  <2>5. FillsBy(tier, w, need, b, FillFromTier(tier, bs, need))
    BY <1>14, <1>15, <2>3, <2>4 DEF FillsBy, Level
  <2> QED  BY <1>10, <2>5 DEF w
<1> QED  BY <1>16, <1>17

\* A tier bigger than the seats fills them, or at least two stay tied.
LEMMA FillFacts ==
    ASSUME NEW cs, NEW bs, Profile(cs, bs), NEW tier \in SUBSET cs,
           NEW need \in Nat \ {0}, need < Cardinality(tier)
    PROVE  LET r == FillFromTier(tier, bs, need) IN
           /\ r = [chosen |-> r.chosen, tied |-> r.tied]
           /\ r.chosen \subseteq tier /\ r.tied \subseteq tier
           /\ \/ r.tied = {} /\ Cardinality(r.chosen) = need
              \/ r.chosen = {} /\ Cardinality(r.tied) >= 2
<1> DEFINE w == Wins(tier, bs)
           r == FillFromTier(tier, bs, need)
<1>1. PICK b \in Nat : FillsBy(tier, w, need, b, r)
  BY FillIsNameless
<1>2. w \in [tier -> Nat] /\ IsFiniteSet(tier)
  BY WinsType, FS_Subset DEF Profile
<1> HIDE DEF w, r
<1> DEFINE above == MoreThan(tier, w, b)
           upTo == AtLeast(tier, w, b)
           level == {x \in tier : w[x] = b}
<1>3. CASE Cardinality(upTo) = need
  <2>1. r = [chosen |-> upTo, tied |-> {}]
    BY <1>1, <1>3 DEF FillsBy, Level
  <2>2. upTo \subseteq tier
    BY DEF AtLeast
  <2> QED  BY <1>3, <2>1, <2>2 DEF r
<1>4. CASE Cardinality(upTo) # need
  <2>1. r = [chosen |-> {}, tied |-> level]
    BY <1>1, <1>4 DEF FillsBy, Level
  <2>2. above \in SUBSET tier /\ upTo \in SUBSET tier /\ level \in SUBSET tier
    BY DEF MoreThan, AtLeast
  <2>3. \A x \in tier : w[x] \in Nat
    BY <1>2
  <2>4. upTo = above \cup level /\ above \cap level = {}
    BY <2>3 DEF MoreThan, AtLeast
  <2>5. Cardinality(above) < need /\ need <= Cardinality(upTo)
    BY <1>1 DEF FillsBy, Level
  <2> HIDE DEF above, upTo, level
  <2>6. IsFiniteSet(above) /\ IsFiniteSet(upTo) /\ IsFiniteSet(level)
    BY <1>2, <2>2, FS_Subset
  <2>7. /\ Cardinality(above) \in Nat /\ Cardinality(upTo) \in Nat
        /\ Cardinality(level) \in Nat
    BY <2>6, FS_CardinalityType
  <2>8. Cardinality(above \cap level) = 0
    BY <2>4, FS_EmptySet
  <2>9. Cardinality(upTo) = Cardinality(above) + Cardinality(level)
    <3>1. Cardinality(above \cup level)
            = Cardinality(above) + Cardinality(level) - Cardinality(above \cap level)
      BY <2>6, FS_Union
    <3> QED  BY <2>4, <2>7, <2>8, <3>1
  <2>10. Cardinality(level) >= 2
    BY <1>4, <2>5, <2>7, <2>9
  <2> QED  BY <2>1, <2>2, <2>10 DEF r
<1> QED  BY <1>3, <1>4

-----------------------------------------------------------------------------
(* The scoring round.                                                      *)

LEMMA SomebodyLeads ==
    ASSUME NEW S, IsFiniteSet(S), S # {}, NEW w, \A c \in S : w[c] \in Nat
    PROVE  /\ Leaders(S, w) \in SUBSET S
           /\ IsFiniteSet(Leaders(S, w))
           /\ Cardinality(Leaders(S, w)) \in Nat \ {0}
<1> DEFINE better(c) == MoreThan(S, w, w[c])
           counts == {Cardinality(better(c)) : c \in S}
<1>1. \A c \in S : IsFiniteSet(better(c)) /\ Cardinality(better(c)) \in Nat
  <2> TAKE c \in S
  <2>1. better(c) \in SUBSET S
    BY DEF MoreThan
  <2> QED  BY <2>1, FS_Subset, FS_CardinalityType
<1>2. \A c, d \in S : w[d] > w[c] => Cardinality(better(d)) < Cardinality(better(c))
  <2> SUFFICES ASSUME NEW c \in S, NEW d \in S, w[d] > w[c]
               PROVE  Cardinality(better(d)) < Cardinality(better(c))
    OBVIOUS
  <2>1. better(d) \in SUBSET better(c)
    BY DEF MoreThan
  <2>2. d \in better(c) /\ d \notin better(d)
    BY DEF MoreThan
  <2> HIDE DEF better
  <2>3. /\ Cardinality(better(d)) <= Cardinality(better(c))
        /\ Cardinality(better(d)) # Cardinality(better(c))
    BY <1>1, <2>1, <2>2, FS_Subset
  <2> QED  BY <1>1, <2>3
<1> HIDE DEF better
<1>3. counts \subseteq Nat /\ counts # {}
  BY <1>1
<1>4. PICK n \in counts : \A m \in counts : n <= m
  BY <1>3, SmallestNumber
<1>5. PICK c \in S : n = Cardinality(better(c))
  BY <1>4
<1>6. \A x \in S : ~(w[x] > w[c])
  <2> SUFFICES ASSUME NEW x \in S, w[x] > w[c] PROVE FALSE
    OBVIOUS
  <2>1. Cardinality(better(x)) < Cardinality(better(c))
    BY <1>2
  <2>2. Cardinality(better(c)) <= Cardinality(better(x))
    BY <1>4, <1>5
  <2> QED  BY <1>1, <2>1, <2>2
<1>7. c \in Leaders(S, w)
  BY <1>6 DEF Leaders
<1>8. Leaders(S, w) \in SUBSET S
  BY DEF Leaders
<1>9. IsFiniteSet(Leaders(S, w)) /\ Cardinality(Leaders(S, w)) \in Nat
  BY <1>8, FS_Subset, FS_CardinalityType
<1> QED  BY <1>7, <1>8, <1>9, FS_EmptySet

\* The four ways the scoring round goes: two share the highest total; more do,
\* and two of them are picked; or one has it, and there is one next, or more of
\* whom one is picked.
RoundGoes(cs, bs, found) ==
    LET w == Totals(cs, bs)
        top == Leaders(cs, w)
        next == Leaders(cs \ top, w)
        one == FillFromTier(next, bs, 1)
    IN  \/ Cardinality(top) = 2 /\ found = [chosen |-> top, tied |-> {}]
        \/ Cardinality(top) > 2 /\ found = FillFromTier(top, bs, 2)
        \/ /\ Cardinality(top) = 1 /\ Cardinality(next) = 1
           /\ found = [chosen |-> top \cup next, tied |-> {}]
        \/ /\ Cardinality(top) = 1 /\ Cardinality(next) > 1
           /\ found = [chosen |-> top \cup one.chosen, tied |-> one.tied]

\* With two candidates or more somebody has the highest total, and if nobody
\* shares it somebody has the next.
LEMMA TwoTiers ==
    ASSUME NEW cs, NEW bs, Profile(cs, bs), Cardinality(cs) > 1
    PROVE  LET w == Totals(cs, bs)
               top == Leaders(cs, w)
               next == Leaders(cs \ top, w)
           IN  /\ top \in SUBSET cs /\ IsFiniteSet(top) /\ Cardinality(top) \in Nat \ {0}
               /\ Cardinality(top) = 1 =>
                    /\ next \in SUBSET (cs \ top) /\ IsFiniteSet(next)
                    /\ Cardinality(next) \in Nat \ {0}
<1> DEFINE w == Totals(cs, bs)
           top == Leaders(cs, w)
           next == Leaders(cs \ top, w)
<1>1. \A c \in cs : w[c] \in Nat
  BY TotalsType
<1>2. IsFiniteSet(cs) /\ cs # {}
  BY FS_EmptySet DEF Profile
<1> HIDE DEF w
<1>3. top \in SUBSET cs /\ IsFiniteSet(top) /\ Cardinality(top) \in Nat \ {0}
  BY <1>1, <1>2, SomebodyLeads
<1> HIDE DEF top
<1>4. ASSUME Cardinality(top) = 1
      PROVE  /\ next \in SUBSET (cs \ top) /\ IsFiniteSet(next)
             /\ Cardinality(next) \in Nat \ {0}
  <2>1. cs # top
    BY <1>4
  <2>2. cs \ top # {} /\ IsFiniteSet(cs \ top)
    BY <1>2, <1>3, <2>1, FS_Difference
  <2> QED  BY <1>1, <2>2, SomebodyLeads
<1> QED  BY <1>3, <1>4 DEF top, w

LEMMA TheRoundGoes ==
    ASSUME NEW cs, NEW bs, Profile(cs, bs), Cardinality(cs) > 1
    PROVE  RoundGoes(cs, bs, Finalists(cs, bs))
<1> DEFINE w == Totals(cs, bs)
           top == Leaders(cs, w)
           next == Leaders(cs \ top, w)
           one == FillFromTier(next, bs, 1)
           found == Finalists(cs, bs)
<1>1. found = IF Cardinality(top) = 2 THEN [chosen |-> top, tied |-> {}]
              ELSE IF Cardinality(top) > 2 THEN FillFromTier(top, bs, 2)
              ELSE IF Cardinality(next) = 1 THEN [chosen |-> top \cup next, tied |-> {}]
              ELSE [chosen |-> top \cup one.chosen, tied |-> one.tied]
  BY DEF Finalists
<1>2. /\ Cardinality(top) \in Nat \ {0}
      /\ Cardinality(top) = 1 => Cardinality(next) \in Nat \ {0}
  BY TwoTiers
<1> HIDE DEF top, next, one, found
<1>3. \/ Cardinality(top) = 2 /\ found = [chosen |-> top, tied |-> {}]
      \/ Cardinality(top) > 2 /\ found = FillFromTier(top, bs, 2)
      \/ /\ Cardinality(top) = 1 /\ Cardinality(next) = 1
         /\ found = [chosen |-> top \cup next, tied |-> {}]
      \/ /\ Cardinality(top) = 1 /\ Cardinality(next) > 1
         /\ found = [chosen |-> top \cup one.chosen, tied |-> one.tied]
  BY <1>1, <1>2
<1> QED  BY <1>3 DEF RoundGoes, top, next, one, found

LEMMA LeadersLead ==
    ASSUME NEW S, NEW w, \A c \in S : w[c] \in Nat
    PROVE  /\ \A c \in Leaders(S, w), x \in S : w[c] >= w[x]
           /\ \A a, b \in Leaders(S, w) : w[a] = w[b]
<1>1. \A c \in Leaders(S, w), x \in S : c \in S /\ w[x] <= w[c]
  BY DEF Leaders
<1>2. \A c \in Leaders(S, w), x \in S : w[c] >= w[x]
  BY <1>1
<1>3. ASSUME NEW a \in Leaders(S, w), NEW b \in Leaders(S, w) PROVE w[a] = w[b]
  <2>1. a \in S /\ b \in S
    BY DEF Leaders
  <2> QED  BY <1>1, <2>1
<1> QED  BY <1>2, <1>3

LEMMA PairOf ==
    ASSUME NEW S, IsFiniteSet(S), Cardinality(S) = 2
    PROVE  \E a, b \in S : a # b /\ S = {a, b}
<1>1. PICK a \in S : TRUE
  BY FS_EmptySet
<1>2. IsFiniteSet(S \ {a}) /\ Cardinality(S \ {a}) = 1
  BY FS_RemoveElement
<1>3. PICK b : S \ {a} = {b}
  BY <1>2, FS_Singleton
<1> QED  BY <1>1, <1>3

\* Two are found, and nobody left out has more than they; or two or more of
\* the same total stay tied.
LEMMA RoundOutcome ==
    ASSUME NEW cs, NEW bs, Profile(cs, bs), Cardinality(cs) > 1
    PROVE  LET found == Finalists(cs, bs)
               w == Totals(cs, bs)
           IN  /\ found.chosen \subseteq cs /\ found.tied \subseteq cs
               /\ \/ /\ found.tied = {} /\ Cardinality(found.chosen) = 2
                     /\ \A f \in found.chosen, c \in cs \ found.chosen : w[f] >= w[c]
                  \/ /\ Cardinality(found.tied) >= 2
                     /\ \A a, b \in found.tied : w[a] = w[b]
<1> DEFINE found == Finalists(cs, bs)
           w == Totals(cs, bs)
           top == Leaders(cs, w)
           next == Leaders(cs \ top, w)
           Good(r) ==
               /\ r.chosen \subseteq cs /\ r.tied \subseteq cs
               /\ \/ /\ r.tied = {} /\ Cardinality(r.chosen) = 2
                     /\ \A f \in r.chosen, c \in cs \ r.chosen : w[f] >= w[c]
                  \/ /\ Cardinality(r.tied) >= 2
                     /\ \A a, b \in r.tied : w[a] = w[b]
<1>1. \A c \in cs : w[c] \in Nat
  BY TotalsType
<1>2. RoundGoes(cs, bs, found)
  BY TheRoundGoes
<1>3. top \in SUBSET cs /\ IsFiniteSet(top) /\ Cardinality(top) \in Nat \ {0}
  BY TwoTiers
<1>4. Cardinality(top) = 1 =>
        /\ next \in SUBSET (cs \ top) /\ IsFiniteSet(next)
        /\ Cardinality(next) \in Nat \ {0}
  BY TwoTiers
<1> DEFINE fill == FillFromTier(top, bs, 2)
           one == FillFromTier(next, bs, 1)
<1>5. \/ Cardinality(top) = 2 /\ found = [chosen |-> top, tied |-> {}]
      \/ Cardinality(top) > 2 /\ found = fill
      \/ /\ Cardinality(top) = 1 /\ Cardinality(next) = 1
         /\ found = [chosen |-> top \cup next, tied |-> {}]
      \/ /\ Cardinality(top) = 1 /\ Cardinality(next) > 1
         /\ found = [chosen |-> top \cup one.chosen, tied |-> one.tied]
  BY <1>2 DEF RoundGoes
<1> HIDE DEF w, found
<1>6. /\ \A f \in top, c \in cs : w[f] >= w[c]
      /\ \A a, b \in top : w[a] = w[b]
  BY <1>1, LeadersLead
<1> HIDE DEF top
<1>7. /\ \A f \in next, c \in cs \ top : w[f] >= w[c]
      /\ \A a, b \in next : w[a] = w[b]
  BY <1>1, LeadersLead
<1> HIDE DEF next
<1> SUFFICES Good(found)
  BY DEF found, w
<1>8. CASE Cardinality(top) = 2 /\ found = [chosen |-> top, tied |-> {}]
  BY <1>3, <1>6, <1>8
<1>9. CASE Cardinality(top) > 2 /\ found = fill
  <2>1. /\ fill.chosen \subseteq top /\ fill.tied \subseteq top
        /\ \/ fill.tied = {} /\ Cardinality(fill.chosen) = 2
           \/ fill.chosen = {} /\ Cardinality(fill.tied) >= 2
    BY <1>3, <1>9, FillFacts
  <2> HIDE DEF fill
  <2> QED  BY <1>3, <1>6, <1>9, <2>1
<1>10. CASE /\ Cardinality(top) = 1 /\ Cardinality(next) = 1
            /\ found = [chosen |-> top \cup next, tied |-> {}]
  <2>1. Cardinality(top \cup next) = 2
    <3>1. top \cap next = {} /\ Cardinality(top \cap next) = 0
      BY <1>4, <1>10, FS_EmptySet
    <3>2. Cardinality(top \cup next)
            = Cardinality(top) + Cardinality(next) - Cardinality(top \cap next)
      BY <1>3, <1>4, <1>10, FS_Union
    <3> QED  BY <1>10, <3>1, <3>2
  <2>2. \A f \in top \cup next, c \in cs \ (top \cup next) : w[f] >= w[c]
    BY <1>3, <1>6, <1>7
  <2> QED  BY <1>3, <1>4, <1>10, <2>1, <2>2
<1>11. CASE /\ Cardinality(top) = 1 /\ Cardinality(next) > 1
            /\ found = [chosen |-> top \cup one.chosen, tied |-> one.tied]
  <2>1. /\ one.chosen \subseteq next /\ one.tied \subseteq next
        /\ \/ one.tied = {} /\ Cardinality(one.chosen) = 1
           \/ one.chosen = {} /\ Cardinality(one.tied) >= 2
    BY <1>4, <1>11, FillFacts
  <2> HIDE DEF one
  <2>2. next \subseteq cs /\ top \cap one.chosen = {}
    BY <1>4, <1>11, <2>1
  <2>3. CASE one.tied = {} /\ Cardinality(one.chosen) = 1
    <3>1. IsFiniteSet(one.chosen) /\ Cardinality(top \cap one.chosen) = 0
      BY <1>4, <1>11, <2>1, <2>2, FS_Subset, FS_EmptySet
    <3>2. Cardinality(top \cup one.chosen)
            = Cardinality(top) + Cardinality(one.chosen) - Cardinality(top \cap one.chosen)
      BY <1>3, <3>1, FS_Union
    <3>3. Cardinality(top \cup one.chosen) = 2
      BY <1>11, <2>3, <3>1, <3>2
    <3>4. \A f \in top \cup one.chosen, c \in cs \ (top \cup one.chosen) : w[f] >= w[c]
      BY <1>3, <1>6, <1>7, <2>1
    <3> QED  BY <1>3, <1>11, <2>1, <2>2, <2>3, <3>3, <3>4
  <2>4. CASE one.chosen = {} /\ Cardinality(one.tied) >= 2
    BY <1>3, <1>7, <1>11, <2>1, <2>2, <2>4
  <2> QED  BY <2>1, <2>3, <2>4
<1> QED  BY <1>5, <1>8, <1>9, <1>10, <1>11

-----------------------------------------------------------------------------
(* The runoff.                                                             *)

\* One of two wins, and is not beaten by the other; or nobody does, and the two
\* have the same total.
LEMMA RunoffOutcome ==
    ASSUME NEW cs, NEW bs, Profile(cs, bs), NEW a \in cs, NEW b \in cs, a # b
    PROVE  LET won == Runoff({a, b}, cs, bs)
               w == Totals(cs, bs)
           IN  \/ won = {a} /\ Prefer(bs, b, a) <= Prefer(bs, a, b)
               \/ won = {b} /\ Prefer(bs, a, b) <= Prefer(bs, b, a)
               \/ won = {} /\ w[a] = w[b]
<1> DEFINE won == Runoff({a, b}, cs, bs)
           w == Totals(cs, bs)
           Beats(x, y) ==
               \/ Prefer(bs, x, y) > Prefer(bs, y, x)
               \/ Prefer(bs, x, y) = Prefer(bs, y, x) /\ w[x] > w[y]
<1>1. w[a] \in Nat /\ w[b] \in Nat
  BY TotalsType
<1>2. Prefer(bs, a, b) \in Nat /\ Prefer(bs, b, a) \in Nat
  BY PreferType
<1>3. won = {x \in {a, b} : \A y \in {a, b} \ {x} : Beats(x, y)}
  BY DEF Runoff
<1> HIDE DEF Beats, w, won
<1>4. (a \in won <=> Beats(a, b)) /\ (b \in won <=> Beats(b, a)) /\ won \subseteq {a, b}
  BY <1>3
<1>5. /\ ~(Beats(a, b) /\ Beats(b, a))
      /\ Beats(a, b) => Prefer(bs, b, a) <= Prefer(bs, a, b)
      /\ Beats(b, a) => Prefer(bs, a, b) <= Prefer(bs, b, a)
      /\ ~Beats(a, b) /\ ~Beats(b, a) => w[a] = w[b]
  BY <1>1, <1>2 DEF Beats
<1>6. CASE a \in won
  <2>1. won = {a}
    BY <1>4, <1>5, <1>6
  <2> QED  BY <1>4, <1>5, <1>6, <2>1 DEF won
<1>7. CASE b \in won
  <2>1. won = {b}
    BY <1>4, <1>5, <1>7
  <2> QED  BY <1>4, <1>5, <1>7, <2>1 DEF won
<1>8. CASE a \notin won /\ b \notin won
  <2>1. won = {}
    BY <1>4, <1>8
  <2> QED  BY <1>4, <1>5, <1>8, <2>1 DEF won, w
<1> QED  BY <1>6, <1>7, <1>8

-----------------------------------------------------------------------------
(* The properties of the count, for every profile.                         *)

Decided(cs, bs) ==
    LET r == StarResult(cs, bs)
        w == Totals(cs, bs)
    IN  /\ \/ cs = {} /\ r.winners = {} /\ r.tied = {}
           \/ Cardinality(r.winners) = 1 /\ r.tied = {}
           \/ /\ r.winners = {} /\ Cardinality(r.tied) >= 2
              /\ \A a, b \in r.tied : w[a] = w[b]
        /\ r.finalists # {} =>
             /\ Cardinality(r.finalists) = 2
             /\ \A f \in r.finalists, c \in cs \ r.finalists : w[f] >= w[c]
        /\ \A x \in r.winners :
             cs = {x} \/ \E c \in cs \ {x} : Prefer(bs, c, x) <= Prefer(bs, x, c)

LEMMA EveryCountDecides ==
    ASSUME NEW cs, NEW bs, Profile(cs, bs)
    PROVE  Decided(cs, bs)
<1> DEFINE r == StarResult(cs, bs)
           w == Totals(cs, bs)
           found == Finalists(cs, bs)
           won == Runoff(found.chosen, cs, bs)
<1>1. IsFiniteSet(cs) /\ Cardinality(cs) \in Nat
  BY FS_CardinalityType DEF Profile
<1>2. CASE Cardinality(cs) <= 1
  <2>1. r = [winners |-> cs, finalists |-> {}, tied |-> {}]
    BY <1>2 DEF StarResult
  <2>2. CASE cs = {}
    <3> HIDE DEF r
    <3> QED  BY <2>1, <2>2 DEF Decided, r
  <2>3. CASE cs # {}
    <3>1. Cardinality(cs) = 1
      BY <1>1, <1>2, <2>3, FS_EmptySet
    <3>2. PICK x : cs = {x}
      BY <1>1, <3>1, FS_Singleton
    <3> HIDE DEF r
    <3> QED  BY <2>1, <3>1, <3>2 DEF Decided, r
  <2> QED  BY <2>2, <2>3
<1>3. CASE Cardinality(cs) > 1
  <2>1. r = IF found.tied # {}
            THEN [winners |-> {}, finalists |-> {}, tied |-> found.tied]
            ELSE [winners |-> won, finalists |-> found.chosen,
                  tied |-> IF won = {} THEN found.chosen ELSE {}]
    BY <1>1, <1>3 DEF StarResult
  <2>2. /\ found.chosen \subseteq cs /\ found.tied \subseteq cs
        /\ \/ /\ found.tied = {} /\ Cardinality(found.chosen) = 2
              /\ \A f \in found.chosen, c \in cs \ found.chosen : w[f] >= w[c]
           \/ /\ Cardinality(found.tied) >= 2
              /\ \A a, b \in found.tied : w[a] = w[b]
    BY <1>3, RoundOutcome
  <2> HIDE DEF r, w, found
  <2>3. CASE found.tied # {}
    <3>1. /\ Cardinality(found.tied) >= 2
          /\ \A a, b \in found.tied : w[a] = w[b]
      BY <2>2, <2>3
    <3> QED  BY <2>1, <2>3, <3>1 DEF Decided, r, w
  <2>4. CASE found.tied = {}
    <3>1. /\ Cardinality(found.chosen) = 2
          /\ \A f \in found.chosen, c \in cs \ found.chosen : w[f] >= w[c]
      BY <2>2, <2>4, FS_EmptySet
    <3>2. PICK a, b \in found.chosen : a # b /\ found.chosen = {a, b}
      BY <1>1, <2>2, <3>1, FS_Subset, PairOf
    <3>3. a \in cs /\ b \in cs
      BY <2>2
    <3>4. \/ won = {a} /\ Prefer(bs, b, a) <= Prefer(bs, a, b)
          \/ won = {b} /\ Prefer(bs, a, b) <= Prefer(bs, b, a)
          \/ won = {} /\ w[a] = w[b]
      BY <3>2, <3>3, RunoffOutcome DEF w
    <3>5. r.finalists = found.chosen /\ r.winners = won
          /\ r.tied = IF won = {} THEN found.chosen ELSE {}
      BY <2>1, <2>4
    <3> HIDE DEF won
    <3>6. \/ Cardinality(r.winners) = 1 /\ r.tied = {}
          \/ /\ r.winners = {} /\ Cardinality(r.tied) >= 2
             /\ \A x, y \in r.tied : w[x] = w[y]
      <4>1. CASE won = {}
        <5>1. \A x, y \in found.chosen : w[x] = w[y]
          BY <3>2, <3>4, <4>1
        <5> QED  BY <3>1, <3>5, <4>1, <5>1
      <4>2. CASE won # {}
        <5>1. Cardinality(won) = 1
          BY <3>4, <4>2, FS_Singleton
        <5> QED  BY <3>5, <4>2, <5>1
      <4> QED  BY <4>1, <4>2
    <3>7. \A x \in r.winners :
            cs = {x} \/ \E c \in cs \ {x} : Prefer(bs, c, x) <= Prefer(bs, x, c)
      <4> SUFFICES ASSUME NEW x \in won
                   PROVE  \E c \in cs \ {x} : Prefer(bs, c, x) <= Prefer(bs, x, c)
        BY <3>5
      <4>1. CASE x = a
        BY <3>2, <3>3, <3>4, <4>1
      <4>2. CASE x = b
        BY <3>2, <3>3, <3>4, <4>2
      <4> QED  BY <3>4, <4>1, <4>2
    <3> QED  BY <3>1, <3>5, <3>6, <3>7 DEF Decided, r, w
  <2> QED  BY <2>3, <2>4
<1> QED  BY <1>1, <1>2, <1>3

-----------------------------------------------------------------------------
(* Names.                                                                  *)

\* The profile cb is the profile bs with the names exchanged by P.
Mirrors(cs, P, bs, cb) ==
    /\ Profile(cs, bs) /\ Profile(cs, cb)
    /\ P \in [cs -> cs] /\ \A c \in cs : P[P[c]] = c
    /\ Len(cb) = Len(bs)
    /\ \A i \in 1..Len(bs), c \in cs : cb[i][c] = bs[i][P[c]]

Img(P, S) == {P[c] : c \in S}

LEMMA ImageFacts ==
    ASSUME NEW cs, IsFiniteSet(cs), NEW P \in [cs -> cs], \A c \in cs : P[P[c]] = c,
           NEW S \in SUBSET cs
    PROVE  /\ Img(P, S) \in SUBSET cs
           /\ \A c \in cs : c \in Img(P, S) <=> P[c] \in S
           /\ IsFiniteSet(S) /\ IsFiniteSet(Img(P, S))
           /\ Cardinality(Img(P, S)) = Cardinality(S)
<1>1. Img(P, S) \in SUBSET cs
  BY DEF Img
<1>2. \A c \in cs : c \in Img(P, S) <=> P[c] \in S
  <2> TAKE c \in cs
  <2>1. ASSUME c \in Img(P, S) PROVE P[c] \in S
    <3>1. PICK d \in S : c = P[d]
      BY <2>1 DEF Img
    <3> QED  BY <3>1
  <2>2. ASSUME P[c] \in S PROVE c \in Img(P, S)
    <3>1. c = P[P[c]]
      OBVIOUS
    <3> QED  BY <2>2, <3>1 DEF Img
  <2> QED  BY <2>1, <2>2
<1>3. IsFiniteSet(S)
  BY FS_Subset
<1>4. ExistsBijection(S, Img(P, S))
  <2> DEFINE f == [c \in S |-> P[c]]
  <2>1. f \in [S -> Img(P, S)]
    BY DEF Img
  <2>2. \A c, d \in S : f[c] = f[d] => c = d
    <3> SUFFICES ASSUME NEW c \in S, NEW d \in S, P[c] = P[d] PROVE c = d
      OBVIOUS
    <3>1. P[P[c]] = c /\ P[P[d]] = d
      OBVIOUS
    <3> QED  BY <3>1
  <2>3. \A d \in Img(P, S) : \E c \in S : f[c] = d
    BY DEF Img
  <2> HIDE DEF f
  <2>4. f \in Bijection(S, Img(P, S))
    BY <2>1, <2>2, <2>3 DEF Bijection, Injection, Surjection, IsInjective
  <2> QED  BY <2>4 DEF ExistsBijection
<1> QED  BY <1>1, <1>2, <1>3, <1>4, FS_Bijection

LEMMA MirrorFacts ==
    ASSUME NEW cs, NEW P, NEW bs, NEW cb, Mirrors(cs, P, bs, cb)
    PROVE  /\ \A c \in cs : P[c] \in cs /\ Totals(cs, cb)[c] = Totals(cs, bs)[P[c]]
           /\ \A c, d \in cs : Prefer(cb, c, d) = Prefer(bs, P[c], P[d])
<1>1. \A c \in cs : P[c] \in cs
  BY DEF Mirrors
<1>2. \A c \in cs : Totals(cs, cb)[c] = Totals(cs, bs)[P[c]]
  <2> TAKE c \in cs
  <2>1. Total(c, cb) = Total(P[c], bs)
    <3>1. \A i \in 1..Len(bs) : bs[i][P[c]] \in Nat /\ cb[i][c] = bs[i][P[c]]
      BY <1>1 DEF Mirrors, Profile
    <3>2. Len(bs) \in Nat /\ Len(cb) = Len(bs)
      BY DEF Mirrors, Profile
    <3> QED  BY <3>1, <3>2, SameScoresSameTotal
  <2> QED  BY <1>1, <2>1 DEF Totals
<1>3. \A c, d \in cs : Prefer(cb, c, d) = Prefer(bs, P[c], P[d])
  <2> TAKE c, d \in cs
  <2>1. DOMAIN cb = 1..Len(bs) /\ DOMAIN bs = 1..Len(bs)
    BY DEF Mirrors, Profile
  <2>2. \A i \in 1..Len(bs) : cb[i][c] = bs[i][P[c]] /\ cb[i][d] = bs[i][P[d]]
    BY DEF Mirrors
  <2>3. {i \in DOMAIN cb : cb[i][c] > cb[i][d]} = {i \in DOMAIN bs : bs[i][P[c]] > bs[i][P[d]]}
    BY <2>1, <2>2
  <2> QED  BY <2>3 DEF Prefer
<1> QED  BY <1>1, <1>2, <1>3

\* Numbers that follow the names are shared by as many as before.
LEMMA CountsMirror ==
    ASSUME NEW cs, IsFiniteSet(cs), NEW P \in [cs -> cs], \A c \in cs : P[P[c]] = c,
           NEW S \in SUBSET cs, NEW w, NEW v, \A c \in Img(P, S) : v[c] = w[P[c]], NEW n
    PROVE  /\ MoreThan(Img(P, S), v, n) = Img(P, MoreThan(S, w, n))
           /\ AtLeast(Img(P, S), v, n) = Img(P, AtLeast(S, w, n))
           /\ Level(Img(P, S), v, n) = Img(P, Level(S, w, n))
<1>1. \A T \in SUBSET cs : Img(P, T) \in SUBSET cs /\ \A c \in cs : c \in Img(P, T) <=> P[c] \in T
  BY ImageFacts
<1>2. ASSUME NEW T \in SUBSET S, NEW U \in SUBSET Img(P, S),
             \A c \in Img(P, S) : c \in U <=> P[c] \in T
      PROVE  U = Img(P, T)
  BY <1>1, <1>2
<1>3. MoreThan(Img(P, S), v, n) = Img(P, MoreThan(S, w, n))
  <2>1. \A c \in Img(P, S) : c \in MoreThan(Img(P, S), v, n) <=> P[c] \in MoreThan(S, w, n)
    BY <1>1 DEF MoreThan
  <2>2. MoreThan(Img(P, S), v, n) \in SUBSET Img(P, S) /\ MoreThan(S, w, n) \in SUBSET S
    BY DEF MoreThan
  <2> QED  BY <1>2, <2>1, <2>2
<1>4. AtLeast(Img(P, S), v, n) = Img(P, AtLeast(S, w, n))
  <2>1. \A c \in Img(P, S) : c \in AtLeast(Img(P, S), v, n) <=> P[c] \in AtLeast(S, w, n)
    BY <1>1 DEF AtLeast
  <2>2. AtLeast(Img(P, S), v, n) \in SUBSET Img(P, S) /\ AtLeast(S, w, n) \in SUBSET S
    BY DEF AtLeast
  <2> QED  BY <1>2, <2>1, <2>2
<1>5. Level(Img(P, S), v, n) = Img(P, Level(S, w, n))
  <2>1. \A c \in Img(P, S) : c \in Level(Img(P, S), v, n) <=> P[c] \in Level(S, w, n)
    BY <1>1 DEF Level
  <2>2. Level(Img(P, S), v, n) \in SUBSET Img(P, S) /\ Level(S, w, n) \in SUBSET S
    BY DEF Level
  <2> QED  BY <1>2, <2>1, <2>2
<1> QED  BY <1>3, <1>4, <1>5

\* So are the highest ones.
LEMMA LeadersMirror ==
    ASSUME NEW cs, IsFiniteSet(cs), NEW P \in [cs -> cs], \A c \in cs : P[P[c]] = c,
           NEW S \in SUBSET cs, NEW w, NEW v, \A c \in Img(P, S) : v[c] = w[P[c]]
    PROVE  Leaders(Img(P, S), v) = Img(P, Leaders(S, w))
<1>1. \A T \in SUBSET cs : Img(P, T) \in SUBSET cs /\ \A c \in cs : c \in Img(P, T) <=> P[c] \in T
  BY ImageFacts
<1>2. ASSUME NEW T \in SUBSET S, NEW U \in SUBSET Img(P, S),
             \A c \in Img(P, S) : c \in U <=> P[c] \in T
      PROVE  U = Img(P, T)
  BY <1>1, <1>2
<1>3. Leaders(Img(P, S), v) = Img(P, Leaders(S, w))
  <2>1. ASSUME NEW c \in Img(P, S)
        PROVE  c \in Leaders(Img(P, S), v) <=> P[c] \in Leaders(S, w)
    <3>1. P[c] \in S /\ v[c] = w[P[c]] /\ c \in cs
      BY <1>1
    <3>2. ASSUME \A d \in Img(P, S) : v[d] <= v[c], NEW x \in S PROVE w[x] <= w[P[c]]
      <4>1. P[x] \in Img(P, S) /\ P[P[x]] = x
        BY DEF Img
      <4>2. v[P[x]] = w[x]
        BY <4>1
      <4> QED  BY <3>1, <3>2, <4>1, <4>2
    <3>3. ASSUME \A x \in S : w[x] <= w[P[c]], NEW d \in Img(P, S) PROVE v[d] <= v[c]
      <4>1. P[d] \in S /\ v[d] = w[P[d]]
        BY <1>1
      <4> QED  BY <3>1, <3>3, <4>1
    <3> QED  BY <3>1, <3>2, <3>3 DEF Leaders
  <2>2. Leaders(Img(P, S), v) \in SUBSET Img(P, S) /\ Leaders(S, w) \in SUBSET S
    BY DEF Leaders
  <2> QED  BY <1>2, <2>1, <2>2
<1> QED  BY <1>3

LEMMA WinsMirror ==
    ASSUME NEW cs, NEW P, NEW bs, NEW cb, Mirrors(cs, P, bs, cb), NEW tier \in SUBSET cs
    PROVE  \A c \in Img(P, tier) : Wins(Img(P, tier), cb)[c] = Wins(tier, bs)[P[c]]
<1> DEFINE beaten(S, v, a) == {b \in S \ {a} : Prefer(v, a, b) > Prefer(v, b, a)}
           drawn(S, v, a) == {b \in S \ {a} : Prefer(v, a, b) = Prefer(v, b, a)}
<1>1. IsFiniteSet(cs) /\ P \in [cs -> cs] /\ \A c \in cs : P[P[c]] = c
  BY DEF Mirrors, Profile
<1>2. Img(P, tier) \in SUBSET cs /\ \A c \in cs : c \in Img(P, tier) <=> P[c] \in tier
  BY <1>1, ImageFacts
<1>3. \A T \in SUBSET cs : /\ \A c \in cs : c \in Img(P, T) <=> P[c] \in T
                           /\ Img(P, T) \in SUBSET cs
                           /\ Cardinality(Img(P, T)) = Cardinality(T)
  BY <1>1, ImageFacts
<1> TAKE c \in Img(P, tier)
<1>4. c \in cs /\ P[c] \in tier
  BY <1>2
<1>5. \A d \in cs : /\ Prefer(cb, c, d) = Prefer(bs, P[c], P[d])
                    /\ Prefer(cb, d, c) = Prefer(bs, P[d], P[c])
                    /\ P[d] \in cs /\ (d = c <=> P[d] = P[c])
  BY <1>1, <1>4, MirrorFacts
<1>6. \A d \in cs : /\ d \in beaten(Img(P, tier), cb, c) <=> P[d] \in beaten(tier, bs, P[c])
                    /\ d \in drawn(Img(P, tier), cb, c) <=> P[d] \in drawn(tier, bs, P[c])
  BY <1>2, <1>5
<1>7. /\ beaten(Img(P, tier), cb, c) \in SUBSET cs /\ beaten(tier, bs, P[c]) \in SUBSET cs
      /\ drawn(Img(P, tier), cb, c) \in SUBSET cs /\ drawn(tier, bs, P[c]) \in SUBSET cs
  BY <1>2
<1>8. /\ Wins(Img(P, tier), cb)[c] = 2 * Cardinality(beaten(Img(P, tier), cb, c))
                                       + Cardinality(drawn(Img(P, tier), cb, c))
      /\ Wins(tier, bs)[P[c]] = 2 * Cardinality(beaten(tier, bs, P[c]))
                                  + Cardinality(drawn(tier, bs, P[c]))
  BY <1>4 DEF Wins
<1> HIDE DEF beaten, drawn
<1>9. /\ beaten(Img(P, tier), cb, c) = Img(P, beaten(tier, bs, P[c]))
      /\ drawn(Img(P, tier), cb, c) = Img(P, drawn(tier, bs, P[c]))
  BY <1>3, <1>6, <1>7
<1> QED  BY <1>3, <1>7, <1>8, <1>9

\* Only one result can be the one on the last seat.
LEMMA OneBoundary ==
    ASSUME NEW tier, IsFiniteSet(tier), NEW w, \A c \in tier : w[c] \in Nat,
           NEW need \in Nat, NEW b \in Nat, NEW d \in Nat,
           Cardinality(MoreThan(tier, w, b)) < need,
           need <= Cardinality(AtLeast(tier, w, d))
    PROVE  d <= b
<1> SUFFICES ASSUME b < d PROVE FALSE
  OBVIOUS
<1>1. AtLeast(tier, w, d) \in SUBSET MoreThan(tier, w, b)
  BY DEF AtLeast, MoreThan
<1>2. MoreThan(tier, w, b) \in SUBSET tier
  BY DEF MoreThan
<1>3. IsFiniteSet(MoreThan(tier, w, b))
  BY <1>2, FS_Subset
<1>4. /\ Cardinality(AtLeast(tier, w, d)) <= Cardinality(MoreThan(tier, w, b))
      /\ IsFiniteSet(AtLeast(tier, w, d))
  BY <1>1, <1>3, FS_Subset
<1>5. /\ Cardinality(AtLeast(tier, w, d)) \in Nat
      /\ Cardinality(MoreThan(tier, w, b)) \in Nat
  BY <1>3, <1>4, FS_CardinalityType
<1> QED  BY <1>4, <1>5

LEMMA FillMirrors ==
    ASSUME NEW cs, NEW P, NEW bs, NEW cb, Mirrors(cs, P, bs, cb), NEW tier \in SUBSET cs,
           NEW need \in Nat \ {0}, need < Cardinality(tier)
    PROVE  LET r == FillFromTier(tier, bs, need)
           IN  FillFromTier(Img(P, tier), cb, need) =
                 [chosen |-> Img(P, r.chosen), tied |-> Img(P, r.tied)]
<1> DEFINE image == Img(P, tier)
           w == Wins(tier, bs)
           v == Wins(image, cb)
           r == FillFromTier(tier, bs, need)
           t == FillFromTier(image, cb, need)
<1>1. /\ IsFiniteSet(cs) /\ P \in [cs -> cs] /\ \A c \in cs : P[P[c]] = c
      /\ Profile(cs, bs) /\ Profile(cs, cb)
  BY DEF Mirrors, Profile
<1>2. /\ image \in SUBSET cs /\ IsFiniteSet(tier) /\ IsFiniteSet(image)
      /\ Cardinality(image) = Cardinality(tier)
  BY <1>1, ImageFacts
<1>3. \A c \in image : v[c] = w[P[c]]
  BY WinsMirror
<1>4. w \in [tier -> Nat]
  BY <1>1, WinsType
<1>5. PICK b \in Nat : FillsBy(tier, w, need, b, r)
  BY <1>1, FillIsNameless
<1>6. PICK d \in Nat : FillsBy(image, v, need, d, t)
  BY <1>1, <1>2, FillIsNameless
<1> HIDE DEF w, v, r, t
<1>7. \A n : /\ MoreThan(image, v, n) = Img(P, MoreThan(tier, w, n))
             /\ AtLeast(image, v, n) = Img(P, AtLeast(tier, w, n))
             /\ Level(image, v, n) = Img(P, Level(tier, w, n))
  BY <1>1, <1>3, CountsMirror
<1> HIDE DEF image
<1>8. \A n : MoreThan(tier, w, n) \in SUBSET cs /\ AtLeast(tier, w, n) \in SUBSET cs
  BY DEF MoreThan, AtLeast
<1>9. \A n : /\ Cardinality(MoreThan(image, v, n)) = Cardinality(MoreThan(tier, w, n))
             /\ Cardinality(AtLeast(image, v, n)) = Cardinality(AtLeast(tier, w, n))
  <2>1. \A S \in SUBSET cs : Cardinality(Img(P, S)) = Cardinality(S)
    BY <1>1, ImageFacts
  <2> QED  BY <1>7, <1>8, <2>1
<1>10. /\ Cardinality(MoreThan(tier, w, b)) < need /\ need <= Cardinality(AtLeast(tier, w, b))
       /\ Cardinality(MoreThan(tier, w, d)) < need /\ need <= Cardinality(AtLeast(tier, w, d))
  BY <1>5, <1>6, <1>9 DEF FillsBy
<1>11. \A c \in tier : w[c] \in Nat
  BY <1>4
<1>12. d <= b /\ b <= d
  BY <1>2, <1>10, <1>11, OneBoundary
<1>13. b = d
  BY <1>12
<1>14. Img(P, {}) = {}
  BY DEF Img
<1>15. /\ r = IF Cardinality(AtLeast(tier, w, b)) = need
              THEN [chosen |-> AtLeast(tier, w, b), tied |-> {}]
              ELSE [chosen |-> {}, tied |-> Level(tier, w, b)]
       /\ t = IF Cardinality(AtLeast(tier, w, b)) = need
              THEN [chosen |-> Img(P, AtLeast(tier, w, b)), tied |-> {}]
              ELSE [chosen |-> {}, tied |-> Img(P, Level(tier, w, b))]
  <2>1. r = IF Cardinality(AtLeast(tier, w, b)) = need
            THEN [chosen |-> AtLeast(tier, w, b), tied |-> {}]
            ELSE [chosen |-> {}, tied |-> Level(tier, w, b)]
    BY <1>5 DEF FillsBy
  <2>2. t = IF Cardinality(AtLeast(image, v, b)) = need
            THEN [chosen |-> AtLeast(image, v, b), tied |-> {}]
            ELSE [chosen |-> {}, tied |-> Level(image, v, b)]
    BY <1>6, <1>13 DEF FillsBy
  <2> QED  BY <1>7, <1>9, <2>1, <2>2
<1>16. t = [chosen |-> Img(P, r.chosen), tied |-> Img(P, r.tied)]
  <2>1. CASE Cardinality(AtLeast(tier, w, b)) = need
    BY <1>14, <1>15, <2>1
  <2>2. CASE Cardinality(AtLeast(tier, w, b)) # need
    BY <1>14, <1>15, <2>2
  <2> QED  BY <2>1, <2>2
<1> QED  BY <1>16 DEF r, t, image

\* The same scoring round, with the names exchanged.
LEMMA RoundMirrors ==
    ASSUME NEW cs, NEW P, NEW bs, NEW cb, Mirrors(cs, P, bs, cb), Cardinality(cs) > 1
    PROVE  LET r == Finalists(cs, bs)
           IN  Finalists(cs, cb) = [chosen |-> Img(P, r.chosen), tied |-> Img(P, r.tied)]
<1> DEFINE w == Totals(cs, bs)
           v == Totals(cs, cb)
           top == Leaders(cs, w)
           next == Leaders(cs \ top, w)
           top2 == Leaders(cs, v)
           next2 == Leaders(cs \ top2, v)
           fill == FillFromTier(top, bs, 2)
           one == FillFromTier(next, bs, 1)
           fill2 == FillFromTier(top2, cb, 2)
           one2 == FillFromTier(next2, cb, 1)
           r == Finalists(cs, bs)
           t == Finalists(cs, cb)
<1>1. /\ IsFiniteSet(cs) /\ P \in [cs -> cs] /\ \A c \in cs : P[P[c]] = c
      /\ Profile(cs, bs) /\ Profile(cs, cb)
  BY DEF Mirrors, Profile
<1>2. \A c \in cs : v[c] = w[P[c]]
  BY MirrorFacts
<1>3. \A S \in SUBSET cs : /\ Img(P, S) \in SUBSET cs
                           /\ \A c \in cs : c \in Img(P, S) <=> P[c] \in S
                           /\ Cardinality(Img(P, S)) = Cardinality(S)
  BY <1>1, ImageFacts
<1>4. Img(P, cs) = cs
  BY <1>1, <1>3
<1>5. top \in SUBSET cs /\ next \in SUBSET cs
  BY DEF Leaders
<1>6. Cardinality(top) \in Nat \ {0} /\ (Cardinality(top) = 1 => Cardinality(next) \in Nat \ {0})
  BY <1>1, TwoTiers
<1>7. top2 = Img(P, top)
  <2>1. \A c \in Img(P, cs) : v[c] = w[P[c]]
    BY <1>2, <1>4
  <2> HIDE DEF w, v
  <2>2. Leaders(Img(P, cs), v) = Img(P, Leaders(cs, w))
    BY <1>1, <2>1, LeadersMirror
  <2> QED  BY <1>4, <2>2
<1>8. next2 = Img(P, next)
  <2>1. cs \ top2 = Img(P, cs \ top)
    <3> HIDE DEF top, top2
    <3>1. Img(P, cs \ top) \in SUBSET cs /\ \A c \in cs : c \in Img(P, cs \ top) <=> P[c] \in cs \ top
      BY <1>3
    <3>2. \A c \in cs : c \in top2 <=> P[c] \in top
      BY <1>3, <1>5, <1>7
    <3>3. \A c \in cs : P[c] \in cs
      BY <1>1
    <3> QED  BY <3>1, <3>2, <3>3
  <2> DEFINE rest == cs \ top
  <2>2. rest \in SUBSET cs /\ \A c \in Img(P, rest) : v[c] = w[P[c]]
    BY <1>2, <2>1
  <2> HIDE DEF w, v, top2, rest
  <2>3. Leaders(Img(P, rest), v) = Img(P, Leaders(rest, w))
    BY <1>1, <2>2, LeadersMirror
  <2> QED  BY <2>1, <2>3 DEF rest
<1>9. Cardinality(top2) = Cardinality(top) /\ Cardinality(next2) = Cardinality(next)
  <2> HIDE DEF top, next, top2, next2
  <2> QED  BY <1>3, <1>5, <1>7, <1>8
<1>10. \/ Cardinality(top) = 2 /\ r = [chosen |-> top, tied |-> {}]
       \/ Cardinality(top) > 2 /\ r = fill
       \/ /\ Cardinality(top) = 1 /\ Cardinality(next) = 1
          /\ r = [chosen |-> top \cup next, tied |-> {}]
       \/ /\ Cardinality(top) = 1 /\ Cardinality(next) > 1
          /\ r = [chosen |-> top \cup one.chosen, tied |-> one.tied]
  BY <1>1, TheRoundGoes DEF RoundGoes
<1>11. \/ Cardinality(top2) = 2 /\ t = [chosen |-> top2, tied |-> {}]
       \/ Cardinality(top2) > 2 /\ t = fill2
       \/ /\ Cardinality(top2) = 1 /\ Cardinality(next2) = 1
          /\ t = [chosen |-> top2 \cup next2, tied |-> {}]
       \/ /\ Cardinality(top2) = 1 /\ Cardinality(next2) > 1
          /\ t = [chosen |-> top2 \cup one2.chosen, tied |-> one2.tied]
  BY <1>1, TheRoundGoes DEF RoundGoes
<1>12. Cardinality(top) > 2 =>
         fill2 = [chosen |-> Img(P, fill.chosen), tied |-> Img(P, fill.tied)]
  <2> HIDE DEF top, top2
  <2> QED  BY <1>5, <1>7, FillMirrors
<1>13. Cardinality(next) > 1 =>
         one2 = [chosen |-> Img(P, one.chosen), tied |-> Img(P, one.tied)]
  <2> HIDE DEF next, next2
  <2> QED  BY <1>5, <1>8, FillMirrors
<1> HIDE DEF w, v, top, next, top2, next2, fill, one, fill2, one2, r, t
<1>14. /\ Img(P, {}) = {}
       /\ \A S, T : Img(P, S \cup T) = Img(P, S) \cup Img(P, T)
  BY DEF Img
<1> DEFINE Same == t = [chosen |-> Img(P, r.chosen), tied |-> Img(P, r.tied)]
<1> SUFFICES Same
  BY DEF r, t
<1>15. CASE Cardinality(top) = 2
  <2>1. r = [chosen |-> top, tied |-> {}] /\ t = [chosen |-> top2, tied |-> {}]
    BY <1>9, <1>10, <1>11, <1>15
  <2> QED  BY <1>7, <1>14, <2>1
<1>16. CASE Cardinality(top) > 2
  <2>1. r = fill /\ t = fill2
    BY <1>9, <1>10, <1>11, <1>16
  <2> QED  BY <1>12, <1>16, <2>1
<1>17. CASE Cardinality(top) = 1 /\ Cardinality(next) = 1
  <2>1. /\ r = [chosen |-> top \cup next, tied |-> {}]
        /\ t = [chosen |-> top2 \cup next2, tied |-> {}]
    BY <1>9, <1>10, <1>11, <1>17
  <2> QED  BY <1>7, <1>8, <1>14, <2>1
<1>18. CASE Cardinality(top) = 1 /\ Cardinality(next) > 1
  <2>1. /\ r = [chosen |-> top \cup one.chosen, tied |-> one.tied]
        /\ t = [chosen |-> top2 \cup one2.chosen, tied |-> one2.tied]
    BY <1>9, <1>10, <1>11, <1>18
  <2>2. one2.chosen = Img(P, one.chosen) /\ one2.tied = Img(P, one.tied)
    BY <1>13, <1>18
  <2> QED  BY <1>7, <1>14, <2>1, <2>2
<1> QED  BY <1>6, <1>15, <1>16, <1>17, <1>18

LEMMA RunoffMirrors ==
    ASSUME NEW cs, NEW P, NEW bs, NEW cb, Mirrors(cs, P, bs, cb), NEW pair \in SUBSET cs
    PROVE  Runoff(Img(P, pair), cs, cb) = Img(P, Runoff(pair, cs, bs))
<1> DEFINE Beats(v, w, a, b) ==
               \/ Prefer(v, a, b) > Prefer(v, b, a)
               \/ Prefer(v, a, b) = Prefer(v, b, a) /\ w[a] > w[b]
           won == Runoff(pair, cs, bs)
           won2 == Runoff(Img(P, pair), cs, cb)
           w1 == Totals(cs, bs)
           w2 == Totals(cs, cb)
<1>1. IsFiniteSet(cs) /\ P \in [cs -> cs] /\ \A c \in cs : P[P[c]] = c
  BY DEF Mirrors, Profile
<1>2. \A S \in SUBSET cs : Img(P, S) \in SUBSET cs /\ \A c \in cs : c \in Img(P, S) <=> P[c] \in S
  BY <1>1, ImageFacts
<1>3. /\ \A c \in cs : P[c] \in cs /\ w2[c] = w1[P[c]]
      /\ \A c, d \in cs : Prefer(cb, c, d) = Prefer(bs, P[c], P[d])
  BY MirrorFacts
<1>4. /\ won = {a \in pair : \A b \in pair \ {a} : Beats(bs, w1, a, b)}
      /\ won2 = {a \in Img(P, pair) : \A b \in Img(P, pair) \ {a} : Beats(cb, w2, a, b)}
  BY DEF Runoff
<1> HIDE DEF w1, w2, won, won2
<1>5. \A c, d \in cs : Beats(cb, w2, c, d) <=> Beats(bs, w1, P[c], P[d])
  BY <1>3
<1> HIDE DEF Beats
<1>6. \A c \in cs : c \in won2 <=> P[c] \in won
  <2> TAKE c \in cs
  <2>1. ASSUME c \in won2 PROVE P[c] \in won
    <3>1. c \in Img(P, pair) /\ P[c] \in pair
      BY <1>2, <1>4, <2>1
    <3>2. ASSUME NEW b \in pair \ {P[c]} PROVE Beats(bs, w1, P[c], b)
      <4>1. b \in cs /\ P[b] \in cs /\ P[P[b]] = b
        BY <1>1
      <4>2. P[b] \in Img(P, pair) /\ P[b] # c
        BY <1>2, <4>1
      <4>3. Beats(cb, w2, c, P[b])
        BY <1>4, <2>1, <4>2
      <4> QED  BY <1>5, <4>1, <4>3
    <3> QED  BY <1>4, <3>1, <3>2
  <2>2. ASSUME P[c] \in won PROVE c \in won2
    <3>1. c \in Img(P, pair)
      BY <1>2, <1>4, <2>2
    <3>2. ASSUME NEW b \in Img(P, pair) \ {c} PROVE Beats(cb, w2, c, b)
      <4>1. b \in cs /\ P[b] \in pair
        BY <1>2
      <4>2. P[b] # P[c]
        <5>1. P[P[b]] = b /\ P[P[c]] = c
          BY <1>1, <4>1
        <5> QED  BY <5>1
      <4>3. Beats(bs, w1, P[c], P[b])
        BY <1>4, <2>2, <4>1, <4>2
      <4> QED  BY <1>5, <4>1, <4>3
    <3> QED  BY <1>4, <3>1, <3>2
  <2> QED  BY <2>1, <2>2
<1>7. won2 \in SUBSET cs /\ won \in SUBSET cs
  BY <1>2, <1>4
<1>8. won2 = Img(P, won)
  BY <1>2, <1>6, <1>7
<1> QED  BY <1>8 DEF won, won2

\* The outcome with the names exchanged is the outcome, its names exchanged.
LEMMA ResultMirrors ==
    ASSUME NEW cs, NEW P, NEW bs, NEW cb, Mirrors(cs, P, bs, cb)
    PROVE  LET r == StarResult(cs, bs)
               t == StarResult(cs, cb)
           IN  /\ r.winners \in SUBSET cs /\ r.tied \in SUBSET cs
               /\ t.winners = Img(P, r.winners) /\ t.tied = Img(P, r.tied)
<1> DEFINE r == StarResult(cs, bs)
           t == StarResult(cs, cb)
           Same == /\ r.winners \in SUBSET cs /\ r.tied \in SUBSET cs
                   /\ t.winners = Img(P, r.winners) /\ t.tied = Img(P, r.tied)
           found == Finalists(cs, bs)
           found2 == Finalists(cs, cb)
           won == Runoff(found.chosen, cs, bs)
           won2 == Runoff(found2.chosen, cs, cb)
<1> SUFFICES Same
  OBVIOUS
<1>1. /\ IsFiniteSet(cs) /\ P \in [cs -> cs] /\ \A c \in cs : P[P[c]] = c
      /\ Profile(cs, bs) /\ Profile(cs, cb) /\ Cardinality(cs) \in Nat
  BY FS_CardinalityType DEF Mirrors, Profile
<1>2. \A S \in SUBSET cs : /\ Img(P, S) \in SUBSET cs
                           /\ \A c \in cs : c \in Img(P, S) <=> P[c] \in S
  BY <1>1, ImageFacts
<1>3. Img(P, {}) = {}
  BY DEF Img
<1>4. CASE Cardinality(cs) <= 1
  <2>1. /\ r = [winners |-> cs, finalists |-> {}, tied |-> {}]
        /\ t = [winners |-> cs, finalists |-> {}, tied |-> {}]
    BY <1>4 DEF StarResult
  <2>2. Img(P, cs) = cs
    BY <1>1, <1>2
  <2> HIDE DEF r, t
  <2> QED  BY <1>3, <2>1, <2>2
<1>5. CASE Cardinality(cs) > 1
  <2>1. /\ r = IF found.tied # {}
               THEN [winners |-> {}, finalists |-> {}, tied |-> found.tied]
               ELSE [winners |-> won, finalists |-> found.chosen,
                     tied |-> IF won = {} THEN found.chosen ELSE {}]
        /\ t = IF found2.tied # {}
               THEN [winners |-> {}, finalists |-> {}, tied |-> found2.tied]
               ELSE [winners |-> won2, finalists |-> found2.chosen,
                     tied |-> IF won2 = {} THEN found2.chosen ELSE {}]
    BY <1>1, <1>5 DEF StarResult
  <2>2. found.chosen \in SUBSET cs /\ found.tied \in SUBSET cs
    BY <1>1, <1>5, RoundOutcome
  <2>3. found2.chosen = Img(P, found.chosen) /\ found2.tied = Img(P, found.tied)
    BY <1>5, RoundMirrors
  <2>4. won2 = Img(P, won)
    <3> HIDE DEF found, found2
    <3> QED  BY <2>2, <2>3, RunoffMirrors
  <2>5. won \in SUBSET cs
    BY <2>2 DEF Runoff
  <2>6. \A S \in SUBSET cs : Img(P, S) = {} <=> S = {}
    <3> SUFFICES ASSUME NEW S \in SUBSET cs, Img(P, S) = {} PROVE S = {}
      BY <1>3
    <3> QED  BY DEF Img
  <2> HIDE DEF r, t, found, found2, won, won2
  <2>7. /\ found2.tied = {} <=> found.tied = {}
        /\ won2 = {} <=> won = {}
    BY <2>2, <2>3, <2>4, <2>5, <2>6
  <2>8. CASE found.tied # {}
    <3>1. /\ r = [winners |-> {}, finalists |-> {}, tied |-> found.tied]
          /\ t = [winners |-> {}, finalists |-> {}, tied |-> found2.tied]
      BY <2>1, <2>7, <2>8
    <3> QED  BY <1>3, <2>2, <2>3, <3>1
  <2>9. CASE found.tied = {}
    <3>1. /\ r.winners = won /\ t.winners = won2
          /\ r.tied = IF won = {} THEN found.chosen ELSE {}
          /\ t.tied = IF won = {} THEN found2.chosen ELSE {}
      BY <2>1, <2>7, <2>9
    <3> QED  BY <1>3, <2>2, <2>3, <2>4, <2>5, <3>1
  <2> QED  BY <2>8, <2>9
<1> QED  BY <1>1, <1>4, <1>5

\* Exchanging two names.
LEMMA SwapMirrors ==
    ASSUME NEW cs, NEW bs, Profile(cs, bs), NEW a \in cs, NEW b \in cs
    PROVE  LET Swap(c) == IF c = a THEN b ELSE IF c = b THEN a ELSE c
           IN  Mirrors(cs, [c \in cs |-> Swap(c)], bs,
                       [i \in DOMAIN bs |-> [c \in cs |-> bs[i][Swap(c)]]])
<1> DEFINE Swap(c) == IF c = a THEN b ELSE IF c = b THEN a ELSE c
           P == [c \in cs |-> Swap(c)]
           cb == [i \in DOMAIN bs |-> [c \in cs |-> bs[i][Swap(c)]]]
<1>1. /\ IsFiniteSet(cs) /\ cs \subseteq Nat
      /\ Len(bs) \in Nat /\ DOMAIN bs = 1..Len(bs)
      /\ \A i \in DOMAIN bs, c \in cs : bs[i][c] \in Nat
  BY DEF Profile
<1>2. \A c \in cs : Swap(c) \in cs /\ Swap(Swap(c)) = c /\ P[c] = Swap(c)
  OBVIOUS
<1>3. P \in [cs -> cs] /\ \A c \in cs : P[P[c]] = c
  BY <1>2
<1>4. DOMAIN cb = 1..Len(bs) /\ \A i \in 1..Len(bs), c \in cs : cb[i][c] = bs[i][P[c]]
  BY <1>1, <1>2
<1>5. Len(cb) = Len(bs)
  <2> DEFINE n == Len(bs)
             G(i) == [c \in cs |-> bs[i][Swap(c)]]
  <2>1. cb = [i \in 1..n |-> G(i)]
    BY <1>1
  <2> HIDE DEF G, n, cb
  <2>2. n \in Nat
    BY <1>1 DEF n
  <2> QED  BY <2>1, <2>2 DEF n
<1> HIDE DEF P, cb, Swap
<1>6. Profile(cs, cb)
  <2>1. ASSUME NEW i \in DOMAIN cb, NEW c \in cs PROVE cb[i][c] \in Nat
    <3>1. P[c] \in cs /\ i \in DOMAIN bs /\ cb[i][c] = bs[i][P[c]]
      BY <1>1, <1>3, <1>4
    <3> QED  BY <1>1, <3>1
  <2> QED  BY <1>1, <1>4, <1>5, <2>1 DEF Profile
<1>7. Mirrors(cs, P, bs, cb)
  BY <1>3, <1>4, <1>5, <1>6 DEF Mirrors
<1> QED  BY <1>7 DEF P, cb, Swap

-----------------------------------------------------------------------------
(* The ballots that arrive.                                                *)

\* The inductive invariant: candidates by number, and whole papers on them.
TallyInv ==
    /\ contenders \in {1..n : n \in 0..MaxCandidates}
    /\ papers \in Seq([contenders -> Stars])

LEMMA TallyInvariance == TallySpec => []TallyInv
<1>1. TallyInit => TallyInv
  BY DEF TallyInit, TallyInv
<1>2. TallyInv /\ [TallyNext]_tallyVars => TallyInv'
  <2> SUFFICES ASSUME TallyInv, [TallyNext]_tallyVars PROVE TallyInv'
    OBVIOUS
  <2>1. CASE BallotCounted
    <3>1. PICK b \in [contenders -> Stars] : papers' = Append(papers, b)
      BY <2>1 DEF BallotCounted
    <3>2. contenders' = contenders
      BY <2>1 DEF BallotCounted
    <3>3. papers' \in Seq([contenders -> Stars])
      <4> DEFINE B == [contenders -> Stars]
      <4>1. papers \in Seq(B) /\ b \in B
        BY DEF TallyInv
      <4> HIDE DEF B
      <4>2. Append(papers, b) \in Seq(B)
        BY <4>1
      <4> QED  BY <3>1, <4>2 DEF B
    <3> QED  BY <3>2, <3>3 DEF TallyInv
  <2>2. CASE UNCHANGED tallyVars
    BY <2>2 DEF TallyInv, tallyVars
  <2> QED  BY <2>1, <2>2 DEF TallyNext
<1> QED  BY <1>1, <1>2, PTL DEF TallySpec

LEMMA ArrivalsAreAProfile ==
    ASSUME TallyInv
    PROVE  Profile(contenders, papers)
<1>1. PICK n \in Nat : contenders = 1..n
  BY TallyAssumption DEF TallyInv
<1>2. IsFiniteSet(contenders) /\ contenders \subseteq Nat
  BY <1>1, FS_Interval
<1>3. Len(papers) \in Nat /\ DOMAIN papers = 1..Len(papers)
      /\ \A i \in 1..Len(papers) : papers[i] \in [contenders -> Stars]
  <2> DEFINE B == [contenders -> Stars]
  <2>1. papers \in Seq(B)
    BY DEF TallyInv
  <2> HIDE DEF B
  <2>2. Len(papers) \in Nat /\ DOMAIN papers = 1..Len(papers)
        /\ \A i \in 1..Len(papers) : papers[i] \in B
    BY <2>1
  <2> QED  BY <2>2 DEF B
<1>4. \A i \in DOMAIN papers, c \in contenders : papers[i][c] \in Nat
  <2>1. Stars \subseteq Nat
    BY TallyAssumption
  <2> QED  BY <1>3, <2>1
<1> QED  BY <1>2, <1>3, <1>4 DEF Profile

\* However many candidates and ballots: the count ends in one of its three
\* ways, and the two that run off are the best by total.
THEOREM EveryTallyIsDecided == TallySpec => []OneOutcome
<1>1. TallyInv => OneOutcome
  <2> SUFFICES ASSUME TallyInv PROVE OneOutcome
    OBVIOUS
  <2>1. Decided(contenders, papers)
    BY ArrivalsAreAProfile, EveryCountDecides
  <2> QED  BY <2>1 DEF Decided, OneOutcome
<1> QED  BY <1>1, TallyInvariance, PTL

\* However many candidates and ballots: a winner is not somebody whom every
\* other candidate beats.
THEOREM NoCondorcetLoserWins == TallySpec => []BeatenByAllNeverWins
<1>1. TallyInv => BeatenByAllNeverWins
  <2> SUFFICES ASSUME TallyInv PROVE BeatenByAllNeverWins
    OBVIOUS
  <2>1. Decided(contenders, papers)
    BY ArrivalsAreAProfile, EveryCountDecides
  <2> QED  BY <2>1 DEF Decided, BeatenByAllNeverWins
<1> QED  BY <1>1, TallyInvariance, PTL

\* However many candidates and ballots: the lowest id, by which the code orders
\* its lists, never decides who wins or who is tied.
THEOREM IdsNeverDecide == TallySpec => []NamesDoNotMatter
<1>1. TallyInv => NamesDoNotMatter
  <2> SUFFICES ASSUME TallyInv, NEW a \in contenders, NEW b \in contenders
               PROVE  LET r == StarResult(contenders, papers)
                          Swap(c) == IF c = a THEN b ELSE IF c = b THEN a ELSE c
                          other == StarResult(contenders,
                                     [i \in DOMAIN papers |->
                                        [c \in contenders |-> papers[i][Swap(c)]]])
                      IN  /\ {Swap(c) : c \in other.winners} = r.winners
                          /\ {Swap(c) : c \in other.tied} = r.tied
    BY DEF NamesDoNotMatter
  <2> DEFINE Swap(c) == IF c = a THEN b ELSE IF c = b THEN a ELSE c
             P == [c \in contenders |-> Swap(c)]
             cb == [i \in DOMAIN papers |-> [c \in contenders |-> papers[i][Swap(c)]]]
             r == StarResult(contenders, papers)
             other == StarResult(contenders, cb)
  <2>1. Profile(contenders, papers)
    BY ArrivalsAreAProfile
  <2>2. Mirrors(contenders, P, papers, cb)
    BY <2>1, SwapMirrors
  <2>3. /\ r.winners \in SUBSET contenders /\ r.tied \in SUBSET contenders
        /\ other.winners = Img(P, r.winners) /\ other.tied = Img(P, r.tied)
    BY <2>2, ResultMirrors
  <2> HIDE DEF r, other, cb
  <2>4. ASSUME NEW S \in SUBSET contenders
        PROVE  {Swap(c) : c \in Img(P, S)} = S
    <3>1. \A c \in contenders : P[c] = Swap(c) /\ Swap(Swap(c)) = c
      OBVIOUS
    <3> HIDE DEF P, Swap
    <3>2. \A c \in S : P[c] \in Img(P, S) /\ Swap(P[c]) = c
      BY <3>1 DEF Img
    <3>3. \A d \in Img(P, S) : Swap(d) \in S
      BY <3>1 DEF Img
    <3> QED  BY <3>2, <3>3
  <2>5. /\ {Swap(c) : c \in other.winners} = r.winners
        /\ {Swap(c) : c \in other.tied} = r.tied
    BY <2>3, <2>4
  <2> QED  BY <2>5 DEF r, other, cb
<1> QED  BY <1>1, TallyInvariance, PTL
=============================================================================
