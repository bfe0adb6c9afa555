-------------------------- MODULE TaskForcesProofs --------------------------
(***************************************************************************)
(* What TLAPS proves of TaskForces, for any teams, people, events and      *)
(* requests in flight: the locks, keys and cascades of the database are    *)
(* enough for events and task forces not to lose each other.               *)
(***************************************************************************)
EXTENDS TaskForces, FiniteSetTheorems, WellFoundedInduction, TLAPS

States == {"root", "unmade", "deleted"}

\* An event on a task force is on its team, and apart from its owner.
RowsAreSound ==
    \A e \in Occasions :
      LET row == occasion[e] IN
      /\ row.team = Null <=> row.st \in {"none", "deleted"}
      /\ row.team # Null => parent[row.team] # "unmade"
      /\ row.force # Null => row.team = row.force
      /\ row.owner # Null => /\ row.force # Null /\ row.owner # row.force
                             /\ parent[row.owner] # "unmade"

FirstAdding(r) == Adding(r) /\ r.force = Null

\* A first collaborator was read when the event was on its owner.  If another
\* came first, the owner's source row is there, until the event is given back.
FirstIsCurrent(r) ==
    /\ r.owner \in TeamIds
    /\ LET row == occasion[r.event] IN
       \/ row.st = "deleted" \/ parent[r.owner] = "deleted"
       \/ row.force = Null /\ row.team = r.owner
       \/ row.force # Null /\ row.owner = r.owner /\ r.owner \in sources[r.event]

\* What a request goes by, in every state it can find itself in.
Sound(r) ==
    /\ r.op = "delete" => /\ r.team \in TeamIds /\ parent[r.team] # "unmade"
                          /\ \A e \in Occasions : occasion[e].force # r.team
    /\ r.op \in {"add", "copy", "teardown"} => r.event \in Occasions
    /\ r.op = "add" => r.team \in TeamIds
    /\ r.op = "add" /\ r.force = Null => FirstIsCurrent(r)
    /\ r.op = "copy" => r.copies \in Roster /\ r.held \in Roster
    /\ FirstAdding(r) => /\ r.owner \in TeamIds /\ parent[r.owner] # "unmade"
                         /\ occasion[r.event].force = Null
                         /\ occasion[r.event].team = r.owner
    /\ r.op = "teardown" => /\ r.force # Null /\ r.owner # Null
                            /\ occasion[r.event].force = r.force
                            /\ occasion[r.event].owner = r.owner

\* A first collaborator and a teardown have the event to themselves.
Apart(r, o) ==
    /\ FirstAdding(r) /\ o.event = r.event => ~Adding(o) /\ o.op # "teardown"
    /\ FirstAdding(o) /\ o.event = r.event => ~Adding(r) /\ r.op # "teardown"
    /\ r.op = "teardown" => o.op # "teardown"

RequestsAreSound ==
    /\ \A s \in Requesters : Sound(request[s])
    /\ \A s, o \in Requesters : s # o => Apart(request[s], request[o])

\* The inductive invariant.
TeamsInv ==
    /\ TeamsTypeOK
    /\ RowsAreSound
    /\ RequestsAreSound
    /\ TaskForcesHaveTheirEvent

-----------------------------------------------------------------------------
(* Types.                                                                  *)

LEMMA SmallestRank ==
    ASSUME NEW T, T \subseteq Nat, T # {}
    PROVE  \E x \in T : \A y \in T : x <= y
<1>1. PICK x \in T : \A y \in T : ~(<<y, x>> \in OpToRel(<, Nat))
  BY NatLessThanWellFounded, WFMin, Zenon
<1>2. \A y \in T : ~(y < x)
  BY <1>1 DEF OpToRel
<1> QED  BY <1>2

\* The strongest roles of several rosters are a roster.
LEMMA StrongestIsARoster ==
    ASSUME roster \in [TeamIds -> Roster], NEW teams \in SUBSET TeamIds
    PROVE  StrongestIn(teams) \in Roster
<1> SUFFICES ASSUME NEW p \in People
             PROVE  (CHOOSE k \in {roster[t][p] : t \in teams} \cup {Out} :
                       \A t \in teams : k <= roster[t][p]) \in Ranks
  BY DEF StrongestIn, Roster
<1> DEFINE K == {roster[t][p] : t \in teams} \cup {Out}
<1>1. \A t \in teams : roster[t][p] \in Ranks
  BY DEF Roster
<1>2. K \subseteq Ranks /\ K # {} /\ Ranks \subseteq Nat
  BY <1>1 DEF Ranks, Leader, Out
<1>3. PICK k \in K : \A y \in K : k <= y
  BY <1>2, SmallestRank
<1>4. \A t \in teams : k <= roster[t][p]
  BY <1>3
<1> QED  BY <1>2, <1>4

LEMMA TeamFields ==
    ASSUME TeamsTypeOK
    PROVE  /\ parent \in [TeamIds -> TeamIds \cup States]
           /\ occasion \in [Occasions -> EventRows]
           /\ sources \in [Occasions -> SUBSET TeamIds]
           /\ request \in [Requesters -> TeamRequests]
           /\ \A s \in Requesters :
                /\ request[s] \in TeamRequests
                /\ request[s].team \in TeamIds \cup {Null}
                /\ request[s].force \in TeamIds \cup {Null}
                /\ request[s].owner \in TeamIds \cup {Null}
                /\ request[s].event \in Occasions \cup {Null}
           /\ \A e \in Occasions :
                /\ occasion[e] \in EventRows
                /\ occasion[e].team \in TeamIds \cup {Null}
                /\ occasion[e].force \in TeamIds \cup {Null}
                /\ occasion[e].owner \in TeamIds \cup {Null}
                /\ occasion[e].st \in {"none", "open", "ended", "cancelled", "deleted"}
           /\ Null \notin TeamIds /\ Null \notin Occasions
           /\ TeamIds \cap States = {}
<1>1. /\ parent \in [TeamIds -> TeamIds \cup States]
      /\ occasion \in [Occasions -> EventRows]
      /\ sources \in [Occasions -> SUBSET TeamIds]
      /\ request \in [Requesters -> TeamRequests]
  BY DEF TeamsTypeOK, States
<1>2. ASSUME NEW s \in Requesters
      PROVE  /\ request[s].team \in TeamIds \cup {Null}
             /\ request[s].force \in TeamIds \cup {Null}
             /\ request[s].owner \in TeamIds \cup {Null}
             /\ request[s].event \in Occasions \cup {Null}
  <2>1. request[s] \in TeamRequests
    BY <1>1
  <2> QED  BY <2>1 DEF TeamRequests
<1>3. ASSUME NEW e \in Occasions
      PROVE  /\ occasion[e].team \in TeamIds \cup {Null}
             /\ occasion[e].force \in TeamIds \cup {Null}
             /\ occasion[e].owner \in TeamIds \cup {Null}
             /\ occasion[e].st \in {"none", "open", "ended", "cancelled", "deleted"}
  <2>1. occasion[e] \in EventRows
    BY <1>1
  <2> QED  BY <2>1 DEF EventRows
<1> QED  BY <1>1, <1>2, <1>3, TaskForcesAssumption DEF States

LEMMA AtRestIsARequest ==
    AtRest \in TeamRequests /\ AtRest.op = "idle"
  BY DEF AtRest, TeamRequests

\* A request at rest is sound, and apart from any.
LEMMA RestIsSound ==
    ASSUME NEW r, r.op = "idle"
    PROVE  Sound(r) /\ \A o : Apart(r, o) /\ Apart(o, r)
  BY DEF Sound, FirstAdding, Adding, Apart

LEMMA DoneEffect ==
    ASSUME TeamsTypeOK, NEW s \in Requesters, Done(s)
    PROVE  /\ request' \in [Requesters -> TeamRequests]
           /\ request'[s] = AtRest /\ request'[s].op = "idle"
           /\ \A o \in Requesters : o # s => request'[o] = request[o]
  BY TeamFields, AtRestIsARequest DEF Done

-----------------------------------------------------------------------------
(* Steps that write no team and no event.                                  *)

\* One request changes, to a sound one that is apart from the others.
LEMMA RequestChanges ==
    ASSUME TeamsInv, NEW s \in Requesters, NEW r \in TeamRequests,
           request' = [request EXCEPT ![s] = r],
           UNCHANGED <<parent, occasion, sources>>,
           roster' = roster, due' \subseteq Occasions, budget' \in 0..MaxRequests,
           Sound(r), \A o \in Requesters : o # s => Apart(r, request[o])
    PROVE  TeamsInv'
<1>1. TeamsTypeOK
  BY DEF TeamsInv
<1>2. /\ request' \in [Requesters -> TeamRequests] /\ request'[s] = r
      /\ \A o \in Requesters : o # s => request'[o] = request[o]
  BY <1>1, TeamFields
<1>3. TeamsTypeOK'
  BY <1>1, <1>2 DEF TeamsTypeOK
<1>4. RowsAreSound' /\ TaskForcesHaveTheirEvent'
  BY DEF TeamsInv, RowsAreSound, TaskForcesHaveTheirEvent, Existing
<1>5. ASSUME NEW o \in Requesters PROVE Sound(request[o])'
  <2>1. Sound(request'[o])
    BY <1>2 DEF TeamsInv, RequestsAreSound
  <2> QED  BY <2>1 DEF Sound, FirstIsCurrent, FirstAdding, Adding
<1>6. ASSUME NEW o \in Requesters, NEW q \in Requesters, o # q
      PROVE  Apart(request'[o], request'[q])
  BY <1>2, <1>6 DEF TeamsInv, RequestsAreSound, Apart
<1>7. RequestsAreSound'
  BY <1>5, <1>6 DEF RequestsAreSound
<1> QED  BY <1>3, <1>4, <1>7 DEF TeamsInv

\* What has only been asked for is nobody's concern.
LEMMA Asked ==
    ASSUME TeamsInv, NEW s \in Requesters, NEW r \in TeamRequests, Ask(s, r),
           r.op \in {"move", "delete", "add"} \/ (r.op = "copy" /\ r.team = Null),
           Sound(r)
    PROVE  TeamsInv'
<1>1. TeamsTypeOK
  BY DEF TeamsInv
<1>2. /\ request' = [request EXCEPT ![s] = r]
      /\ UNCHANGED <<parent, roster, occasion, sources, due>>
      /\ budget > 0 /\ budget' = budget - 1
  BY DEF Ask
<1>3. budget' \in 0..MaxRequests /\ due' \subseteq Occasions
  BY <1>1, <1>2, TaskForcesAssumption DEF TeamsTypeOK
<1>4. \A o : Apart(r, o)
  BY DEF Apart, FirstAdding, Adding
<1> QED  BY <1>2, <1>3, <1>4, RequestChanges

LEMMA TeamsInvAskMove ==
    ASSUME TeamsInv, NEW s \in Requesters, NEW t \in TeamIds,
           NEW p \in TeamIds \cup {"root"}, AskMove(s, t, p)
    PROVE  TeamsInv'
<1> DEFINE r == [AtRest EXCEPT !.op = "move", !.team = t, !.under = p]
<1>1. r \in TeamRequests /\ r.op = "move"
  BY DEF AtRest, TeamRequests
<1>2. Ask(s, r)
  BY DEF AskMove
<1> HIDE DEF r
<1>3. Sound(r)
  BY <1>1 DEF Sound, FirstAdding, Adding
<1> QED  BY <1>1, <1>2, <1>3, Asked

LEMMA TeamsInvAskDelete ==
    ASSUME TeamsInv, NEW s \in Requesters, NEW t \in TeamIds, AskDelete(s, t)
    PROVE  TeamsInv'
<1> DEFINE r == [AtRest EXCEPT !.op = "delete", !.team = t]
<1>1. r \in TeamRequests /\ r.op = "delete" /\ r.team = t
  BY DEF AtRest, TeamRequests
<1>2. Ask(s, r)
  BY DEF AskDelete
<1>3. parent[t] # "unmade" /\ \A e \in Occasions : occasion[e].force # t
  BY DEF AskDelete, Existing, NotLive
<1> HIDE DEF r
<1>4. Sound(r)
  BY <1>1, <1>3 DEF Sound, FirstAdding, Adding
<1> QED  BY <1>1, <1>2, <1>4, Asked

LEMMA TeamsInvAskAdd ==
    ASSUME TeamsInv, NEW s \in Requesters, NEW e \in Occasions, NEW t \in TeamIds,
           AskAdd(s, e, t)
    PROVE  TeamsInv'
<1> DEFINE row == occasion[e]
           owner == IF row.force = Null THEN row.team ELSE row.owner
           r == [AtRest EXCEPT !.op = "add", !.team = t, !.event = e,
                               !.force = row.force, !.owner = owner]
<1>1. TeamsTypeOK
  BY DEF TeamsInv
<1>2. /\ row.force \in TeamIds \cup {Null} /\ owner \in TeamIds \cup {Null}
      /\ row.st = "open"
  BY <1>1, TeamFields DEF AskAdd
<1>3. row.team # Null /\ (row.force = Null => owner = row.team)
  BY <1>2 DEF TeamsInv, RowsAreSound
<1>4. Ask(s, r)
  BY DEF AskAdd
<1> HIDE DEF owner
<1>5. /\ r \in TeamRequests /\ r.op = "add" /\ r.team = t /\ r.event = e
      /\ r.force = row.force /\ r.owner = owner
  BY <1>2 DEF AtRest, TeamRequests
<1> HIDE DEF r
<1>6. Sound(r)
  BY <1>2, <1>3, <1>5 DEF Sound, FirstIsCurrent, FirstAdding, Adding
<1> QED  BY <1>4, <1>5, <1>6, Asked

LEMMA TeamsInvAskRefresh ==
    ASSUME TeamsInv, NEW s \in Requesters, NEW e \in Occasions, AskRefresh(s, e)
    PROVE  TeamsInv'
<1> DEFINE m == occasion[e].force
           copies == StrongestIn(sources[e])
           held == roster[m]
           r == [AtRest EXCEPT !.op = "copy", !.event = e, !.force = m,
                               !.copies = copies, !.held = held]
<1>1. TeamsTypeOK
  BY DEF TeamsInv
<1>2. m \in TeamIds
  BY <1>1, TeamFields DEF AskRefresh
<1>3. roster \in [TeamIds -> Roster]
  BY <1>1 DEF TeamsTypeOK
<1>4. copies \in Roster /\ held \in Roster
  BY <1>1, <1>2, <1>3, TeamFields, StrongestIsARoster
<1>5. Ask(s, r)
  BY DEF AskRefresh
<1> HIDE DEF m, copies, held
<1>6. /\ r \in TeamRequests /\ r.op = "copy" /\ r.team = Null /\ r.event = e
      /\ r.copies = copies /\ r.held = held
  BY <1>2, <1>4 DEF AtRest, TeamRequests
<1> HIDE DEF r
<1>7. Sound(r)
  BY <1>4, <1>6 DEF Sound, FirstAdding, Adding
<1> QED  BY <1>5, <1>6, <1>7, Asked

LEMMA TeamsInvGiveUp ==
    ASSUME TeamsInv, NEW s \in Requesters, GiveUp(s)
    PROVE  TeamsInv'
<1>1. TeamsTypeOK /\ request' = [request EXCEPT ![s] = AtRest]
      /\ UNCHANGED <<parent, roster, occasion, sources, due, budget>>
  BY DEF TeamsInv, GiveUp, Done
<1>2. due' \subseteq Occasions /\ budget' \in 0..MaxRequests
  BY <1>1 DEF TeamsTypeOK
<1> QED  BY <1>1, <1>2, AtRestIsARequest, RestIsSound, RequestChanges

\* The first collaborator's source rows are in: no other came first.
LEMMA TeamsInvContribute ==
    ASSUME TeamsInv, NEW s \in Requesters, Contribute(s)
    PROVE  TeamsInv'
<1> DEFINE r == request[s]
           e == r.event
           news == {r.team} \cup IF r.force = Null THEN {r.owner} ELSE {}
           copies == StrongestIn(sources[e] \cup news)
           held == IF r.force = Null THEN Nobody ELSE roster[r.force]
           x == [r EXCEPT !.op = "copy", !.copies = copies, !.held = held]
<1>1. /\ TeamsTypeOK /\ Sound(r) /\ r.op = "add" /\ r \in TeamRequests
      /\ UNCHANGED <<parent, roster, occasion, sources, due, budget>>
  BY TeamFields DEF TeamsInv, RequestsAreSound, Contribute
<1>2. /\ r.team \in TeamIds /\ e \in Occasions
      /\ r.force \in TeamIds \cup {Null} /\ r.owner \in TeamIds \cup {Null}
      /\ r.force = Null => r.owner \in TeamIds
  BY <1>1, TeamFields DEF Sound, FirstIsCurrent
<1>3. roster \in [TeamIds -> Roster] /\ sources[e] \subseteq TeamIds /\ Nobody \in Roster
  BY <1>1, <1>2 DEF TeamsTypeOK, Nobody, Roster, Ranks, Leader, Out
<1>4. copies \in Roster /\ held \in Roster
  BY <1>2, <1>3, StrongestIsARoster
<1>5. request' = [request EXCEPT ![s] = x]
  <2>1. request' = [request EXCEPT ![s].op = "copy", ![s].copies = copies, ![s].held = held]
    BY DEF Contribute
  <2> HIDE DEF copies, held
  <2> QED  BY <1>1, <2>1, TeamFields
<1>6. /\ x \in TeamRequests /\ x.op = "copy" /\ x.team = r.team /\ x.event = e
      /\ x.force = r.force /\ x.owner = r.owner
      /\ x.copies = copies /\ x.held = held
  <2> HIDE DEF copies, held
  <2> QED  BY <1>1, <1>4 DEF TeamRequests
<1>7. r.force = Null => /\ parent[r.owner] \notin {"unmade", "deleted"}
                        /\ occasion[e].st # "deleted" /\ r.owner \notin sources[e]
  BY <1>2 DEF Contribute, Existing
<1>8. r.force = Null => occasion[e].force = Null /\ occasion[e].team = r.owner
  BY <1>1, <1>2, <1>7 DEF Sound, FirstIsCurrent
<1>9. IF r.force = Null THEN ~EventReferred(s, e) ELSE ~EventLocked(s, e)
  BY DEF Contribute
<1>10. ASSUME NEW o \in Requesters, o # s PROVE Apart(x, request[o])
  <2>1. CASE r.force = Null
    <3>1. request[o].event = e => request[o].op # "teardown" /\ ~Adding(request[o])
      BY <1>9, <1>10, <2>1 DEF EventReferred, EventLocked
    <3> QED  BY <1>6, <3>1 DEF Apart, FirstAdding
  <2>2. CASE r.force # Null
    <3>1. request[o].event = e =>
            request[o].op # "teardown" /\ ~FirstAdding(request[o])
      BY <1>9, <1>10, <2>2 DEF EventLocked, FirstAdding
    <3> QED  BY <1>6, <2>2, <3>1 DEF Apart, FirstAdding
  <2> QED  BY <2>1, <2>2
<1> HIDE DEF x, r, e, copies, held
<1>11. Sound(x)
  BY <1>2, <1>4, <1>6, <1>7, <1>8 DEF Sound, FirstAdding, Adding
<1>12. due' \subseteq Occasions /\ budget' \in 0..MaxRequests
  BY <1>1 DEF TeamsTypeOK
<1> QED  BY <1>1, <1>5, <1>6, <1>10, <1>11, <1>12, RequestChanges

LEMMA TeamsInvGiveBack ==
    ASSUME TeamsInv, NEW s \in Requesters, NEW e \in Occasions, GiveBack(s, e)
    PROVE  TeamsInv'
<1> DEFINE f == occasion[e].force
           w == occasion[e].owner
           r == [AtRest EXCEPT !.op = "teardown", !.event = e, !.force = f, !.owner = w]
<1>1. /\ TeamsTypeOK /\ request' = [request EXCEPT ![s] = r]
      /\ UNCHANGED <<parent, roster, occasion, sources, budget>>
      /\ f # Null /\ w # Null /\ due' = due \ {e}
      /\ ~EventReferred(s, e)
      /\ \A o \in Requesters : request[o].op # "teardown"
  BY DEF TeamsInv, GiveBack
<1>2. f \in TeamIds /\ w \in TeamIds
  BY <1>1, TeamFields
<1> HIDE DEF f, w
<1>3. /\ r \in TeamRequests /\ r.op = "teardown" /\ r.event = e
      /\ r.force = f /\ r.owner = w
  BY <1>2 DEF AtRest, TeamRequests
<1> HIDE DEF r
<1>4. Sound(r)
  BY <1>1, <1>3 DEF Sound, FirstAdding, Adding, f, w
<1>5. ASSUME NEW o \in Requesters, o # s PROVE Apart(r, request[o])
  BY <1>1, <1>3, <1>5 DEF Apart, FirstAdding, Adding, EventReferred, EventLocked
<1>6. due' \subseteq Occasions /\ budget' \in 0..MaxRequests
  BY <1>1 DEF TeamsTypeOK
<1> QED  BY <1>1, <1>3, <1>4, <1>5, <1>6, RequestChanges

-----------------------------------------------------------------------------
(* Steps that write teams or events.                                       *)

\* Requests stay sound when each is done, or is unchanged and still sound.
LEMMA RequestsStaySound ==
    ASSUME RequestsAreSound,
           \A o \in Requesters : request'[o] = request[o] \/ request'[o].op = "idle",
           \A o \in Requesters : request'[o] = request[o] => Sound(request[o])'
    PROVE  RequestsAreSound'
<1>1. ASSUME NEW o \in Requesters PROVE Sound(request[o])'
  <2>1. CASE request'[o].op = "idle"
    BY <2>1 DEF Sound, FirstAdding, Adding
  <2> QED  BY <2>1
<1>2. ASSUME NEW o \in Requesters, NEW q \in Requesters, o # q
      PROVE  Apart(request[o], request[q])'
  BY <1>2 DEF RequestsAreSound, Apart, FirstAdding, Adding
<1> QED  BY <1>1, <1>2 DEF RequestsAreSound

\* Teams are made and moved; those that were made stay made, those that were
\* deleted stay deleted.
LEMMA TreeChanges ==
    ASSUME TeamsInv, NEW t \in TeamIds, NEW p \in TeamIds \cup {"root"},
           parent' = [parent EXCEPT ![t] = p], parent[t] # "deleted",
           t \in TaskForceIds => t \in Existing,
           UNCHANGED <<roster, occasion, sources, due>>, budget' \in 0..MaxRequests,
           request' \in [Requesters -> TeamRequests],
           \A o \in Requesters : request'[o] = request[o] \/ request'[o].op = "idle"
    PROVE  TeamsInv'
<1>1. TeamsTypeOK
  BY DEF TeamsInv
<1>2. parent' \in [TeamIds -> TeamIds \cup States] /\ p \notin {"unmade", "deleted"}
  BY <1>1, TeamFields DEF States
<1>3. /\ \A u \in TeamIds : parent[u] # "unmade" => parent'[u] # "unmade"
      /\ \A u \in TeamIds : parent[u] = "deleted" => parent'[u] = "deleted"
  BY <1>1, <1>2, TeamFields
<1>4. TeamsTypeOK'
  BY <1>1, <1>2 DEF TeamsTypeOK, States
<1>5. RowsAreSound'
  <2>1. \A e \in Occasions : /\ occasion[e].team \in TeamIds \cup {Null}
                             /\ occasion[e].owner \in TeamIds \cup {Null}
    BY <1>1, TeamFields
  <2> QED  BY <1>3, <2>1 DEF TeamsInv, RowsAreSound
<1>6. ASSUME NEW r, Sound(r) PROVE Sound(r)'
  BY <1>3, <1>6 DEF Sound, FirstIsCurrent, FirstAdding, Adding
<1>7. RequestsAreSound'
  BY <1>6, RequestsStaySound DEF TeamsInv, RequestsAreSound
<1>8. TaskForceIds \cap Existing' \subseteq Existing
  BY <1>1, TeamFields DEF Existing, TeamIds
<1>9. TaskForcesHaveTheirEvent'
  BY <1>8 DEF TeamsInv, TaskForcesHaveTheirEvent
<1> QED  BY <1>4, <1>5, <1>7, <1>9 DEF TeamsInv

LEMMA TeamsInvCreateTeam ==
    ASSUME TeamsInv, NEW t \in Teams, NEW p \in TeamIds \cup {"root"}, CreateTeam(t, p)
    PROVE  TeamsInv'
<1>1. TeamsTypeOK
  BY DEF TeamsInv
<1>2. budget' \in 0..MaxRequests
  BY <1>1, TaskForcesAssumption DEF CreateTeam, TeamsTypeOK
<1>3. t \in TeamIds /\ t \notin TaskForceIds
  BY TaskForcesAssumption DEF TeamIds
<1>4. request' \in [Requesters -> TeamRequests] /\ request' = request
  BY <1>1, TeamFields DEF CreateTeam
<1> QED  BY <1>2, <1>3, <1>4, TreeChanges DEF CreateTeam

LEMMA TeamsInvMove ==
    ASSUME TeamsInv, NEW s \in Requesters, Move(s)
    PROVE  TeamsInv'
<1> DEFINE t == request[s].team
           p == request[s].under
<1>1. TeamsTypeOK
  BY DEF TeamsInv
<1>2. budget' \in 0..MaxRequests
  BY <1>1 DEF Move, TeamsTypeOK
<1>3. /\ t \in TeamIds /\ t \in Existing /\ parent[t] # "deleted"
      /\ p \in TeamIds \cup {"root"}
  BY DEF Move, Existing
<1>4. /\ request' \in [Requesters -> TeamRequests]
      /\ \A o \in Requesters : request'[o] = request[o] \/ request'[o].op = "idle"
  BY <1>1, DoneEffect DEF Move
<1>5. parent' = [parent EXCEPT ![t] = p] /\ UNCHANGED <<roster, occasion, sources, due>>
  BY DEF Move
<1> HIDE DEF t, p
<1> QED  BY <1>2, <1>3, <1>4, <1>5, TreeChanges

\* One event is made, or changes its status.
LEMMA RowChanges ==
    ASSUME TeamsInv, NEW e \in Occasions, NEW x \in EventRows,
           occasion' = [occasion EXCEPT ![e] = x],
           x.force = occasion[e].force, x.owner = occasion[e].owner,
           x.team = occasion[e].team \/ occasion[e].team = Null,
           x.team # Null, parent[x.team] # "unmade",
           x.st \notin {"none", "deleted"}, occasion[e].st # "deleted",
           UNCHANGED <<parent, roster, sources, request, due>>,
           budget' \in 0..MaxRequests
    PROVE  TeamsInv'
<1>1. TeamsTypeOK
  BY DEF TeamsInv
<1>2. /\ occasion' \in [Occasions -> EventRows] /\ occasion'[e] = x
      /\ \A o \in Occasions : o # e => occasion'[o] = occasion[o]
  BY <1>1, TeamFields
<1>3. TeamsTypeOK'
  BY <1>1, <1>2 DEF TeamsTypeOK
<1>4. RowsAreSound'
  BY <1>2 DEF TeamsInv, RowsAreSound
<1>5. ASSUME NEW r, Sound(r) PROVE Sound(r)'
  BY <1>1, <1>2, <1>5, TeamFields
     DEF TeamsInv, RowsAreSound, Sound, FirstIsCurrent, FirstAdding, Adding
<1>6. RequestsAreSound'
  BY <1>5, RequestsStaySound DEF TeamsInv, RequestsAreSound
<1>7. TaskForcesHaveTheirEvent'
  <2>1. \A m \in TaskForceIds : m # Null
    BY TaskForcesAssumption DEF TeamIds
  <2> QED  BY <1>2, <2>1 DEF TeamsInv, TaskForcesHaveTheirEvent, Existing, RowsAreSound
<1> QED  BY <1>3, <1>4, <1>6, <1>7 DEF TeamsInv

LEMMA TeamsInvEvents ==
    ASSUME TeamsInv, NEW e \in Occasions,
           \/ EventEnds(e) \/ CancelEvent(e) \/ ProlongEvent(e)
           \/ \E t \in TeamIds : CreateEvent(e, t)
    PROVE  TeamsInv'
<1>1. TeamsTypeOK /\ occasion[e] \in EventRows
  BY TeamFields DEF TeamsInv
<1>2. CASE EventEnds(e) \/ CancelEvent(e) \/ ProlongEvent(e)
  <2>1. PICK from \in {"open", "ended"}, to \in {"open", "ended", "cancelled"} :
          SetStatus(e, from, to)
    BY <1>2 DEF EventEnds, CancelEvent, ProlongEvent
  <2> DEFINE x == [occasion[e] EXCEPT !.st = to]
  <2>2. /\ occasion' = [occasion EXCEPT ![e] = x] /\ occasion[e].st = from
        /\ UNCHANGED <<parent, roster, sources, request, due, budget>>
    BY <2>1 DEF SetStatus
  <2>3. /\ x \in EventRows /\ x.st = to /\ x.team = occasion[e].team
        /\ x.force = occasion[e].force /\ x.owner = occasion[e].owner
    BY <1>1 DEF EventRows
  <2> HIDE DEF x
  <2>4. x.team # Null /\ parent[x.team] # "unmade"
    BY <2>2, <2>3 DEF TeamsInv, RowsAreSound
  <2>5. budget' \in 0..MaxRequests
    BY <1>1, <2>2 DEF TeamsTypeOK
  <2> QED  BY <2>2, <2>3, <2>4, <2>5, RowChanges
<1>3. CASE \E t \in TeamIds : CreateEvent(e, t)
  <2>1. PICK t \in TeamIds : CreateEvent(e, t)
    BY <1>3
  <2> DEFINE x == [NoEvent EXCEPT !.st = "open", !.team = t]
  <2>2. /\ occasion' = [occasion EXCEPT ![e] = x] /\ occasion[e].st = "none"
        /\ parent[t] # "unmade"
        /\ UNCHANGED <<parent, roster, sources, request, due>>
    BY <2>1 DEF CreateEvent, Existing
  <2>3. /\ x \in EventRows /\ x.st = "open" /\ x.team = t
        /\ x.force = Null /\ x.owner = Null
    BY DEF NoEvent, EventRows
  <2> HIDE DEF x
  <2>4. /\ occasion[e].team = Null /\ occasion[e].force = Null
        /\ occasion[e].owner = Null /\ t # Null
    BY <1>1, <2>2, TeamFields DEF TeamsInv, RowsAreSound
  <2>5. budget' \in 0..MaxRequests
    <3>1. budget > 0 /\ budget' = budget - 1
      BY <2>1, Zenon DEF CreateEvent
    <3>2. budget \in 0..MaxRequests /\ MaxRequests \in Nat
      BY <1>1, TaskForcesAssumption DEF TeamsTypeOK
    <3> HIDE DEF x
    <3> QED  BY <3>1, <3>2
  <2> QED  BY <2>2, <2>3, <2>4, <2>5, RowChanges
<1> QED  BY <1>2, <1>3

\* The team that is kept is on the event still.
LEMMA TeamsInvKeepTeam ==
    ASSUME TeamsInv, NEW e \in Occasions, KeepTeam(e)
    PROVE  TeamsInv'
<1> DEFINE x == [occasion[e] EXCEPT !.force = Null]
<1>1. TeamsTypeOK /\ occasion[e] \in EventRows
  BY TeamFields DEF TeamsInv
<1>2. /\ occasion' = [occasion EXCEPT ![e] = x] /\ due' = due \ {e}
      /\ occasion[e].force # Null /\ occasion[e].owner = Null
      /\ UNCHANGED <<parent, roster, sources, request, budget>>
  BY DEF KeepTeam
<1>3. /\ x \in EventRows /\ x.st = occasion[e].st /\ x.team = occasion[e].team
      /\ x.force = Null /\ x.owner = occasion[e].owner
  BY <1>1 DEF EventRows
<1> HIDE DEF x
<1>4. /\ occasion' \in [Occasions -> EventRows] /\ occasion'[e] = x
      /\ \A o \in Occasions : o # e => occasion'[o] = occasion[o]
  BY <1>1, <1>2, <1>3, TeamFields
<1>5. TeamsTypeOK'
  BY <1>1, <1>2, <1>4 DEF TeamsTypeOK
<1>6. RowsAreSound'
  BY <1>2, <1>3, <1>4 DEF TeamsInv, RowsAreSound
<1>7. ASSUME NEW r, Sound(r) PROVE Sound(r)'
  BY <1>1, <1>2, <1>3, <1>4, <1>7, TeamFields
     DEF Sound, FirstIsCurrent, FirstAdding, Adding
<1>8. RequestsAreSound'
  BY <1>2, <1>7, RequestsStaySound DEF TeamsInv, RequestsAreSound
<1>9. TaskForcesHaveTheirEvent'
  BY <1>2, <1>3, <1>4 DEF TeamsInv, TaskForcesHaveTheirEvent, Existing
<1> QED  BY <1>5, <1>6, <1>8, <1>9 DEF TeamsInv

LEMMA TeamsInvJoin ==
    ASSUME TeamsInv, NEW s \in Requesters, JoinTaskForce(s)
    PROVE  TeamsInv'
<1> DEFINE r == request[s]
<1>1. /\ TeamsTypeOK /\ Sound(r) /\ Done(s) /\ r.op = "copy"
      /\ UNCHANGED <<parent, occasion, due, budget>>
  BY DEF TeamsInv, RequestsAreSound, JoinTaskForce
<1>2. r.event \in Occasions /\ r.copies \in Roster /\ r.team \in TeamIds \cup {Null}
  BY <1>1, TeamFields DEF Sound
<1>3. roster' \in [TeamIds -> Roster]
  <2> DEFINE mixed == [p \in People |->
                         IF p \in Raised(r) THEN r.copies[p] ELSE roster[r.force][p]]
  <2>1. roster \in [TeamIds -> Roster]
    BY <1>1 DEF TeamsTypeOK
  <2>2. roster' = [roster EXCEPT ![r.force] = mixed]
    BY DEF JoinTaskForce
  <2>3. r.force \in TeamIds => mixed \in Roster
    BY <1>2, <2>1 DEF Roster
  <2> HIDE DEF mixed
  <2> QED  BY <2>1, <2>2, <2>3
<1>4. /\ sources' \in [Occasions -> SUBSET TeamIds]
      /\ \A e \in Occasions : sources[e] \subseteq sources'[e]
  <2>1. CASE r.team = Null
    BY <1>1, <2>1, TeamFields DEF JoinTaskForce
  <2>2. CASE r.team # Null
    <3>1. sources' = [sources EXCEPT ![r.event] = @ \cup {r.team}]
      BY <2>2 DEF JoinTaskForce
    <3> QED  BY <1>1, <1>2, <2>2, <3>1, TeamFields
  <2> QED  BY <2>1, <2>2
<1>5. /\ request' \in [Requesters -> TeamRequests]
      /\ \A o \in Requesters : request'[o] = request[o] \/ request'[o].op = "idle"
  BY <1>1, DoneEffect
<1>6. TeamsTypeOK'
  BY <1>1, <1>3, <1>4, <1>5 DEF TeamsTypeOK
<1>7. RowsAreSound' /\ TaskForcesHaveTheirEvent'
  BY <1>1 DEF TeamsInv, RowsAreSound, TaskForcesHaveTheirEvent, Existing
<1>8. ASSUME NEW q, Sound(q) PROVE Sound(q)'
  BY <1>1, <1>4, <1>8 DEF Sound, FirstIsCurrent, FirstAdding, Adding
<1>9. RequestsAreSound'
  BY <1>5, <1>8, RequestsStaySound DEF TeamsInv, RequestsAreSound
<1> QED  BY <1>6, <1>7, <1>9 DEF TeamsInv

\* The event passes to the task force, which nothing referred to before, and
\* whoever else was first finds the owner's source row.
LEMMA TeamsInvForm ==
    ASSUME TeamsInv, NEW s \in Requesters, NEW m \in TaskForceIds, FormTaskForce(s, m)
    PROVE  TeamsInv'
<1> DEFINE r == request[s]
           e == r.event
           w == r.owner
           x == [occasion[e] EXCEPT !.team = m, !.force = m, !.owner = w]
<1>1. /\ TeamsTypeOK /\ Sound(r) /\ FirstAdding(r) /\ Done(s)
      /\ parent[m] = "unmade" /\ parent' = [parent EXCEPT ![m] = w]
      /\ roster' = [roster EXCEPT ![m] = r.copies]
      /\ sources' = [sources EXCEPT ![e] = @ \cup {w, r.team}]
      /\ UNCHANGED <<due, budget>>
  BY DEF TeamsInv, RequestsAreSound, FormTaskForce, FirstAdding
<1>2. /\ e \in Occasions /\ w \in TeamIds /\ parent[w] # "unmade" /\ w # m
      /\ occasion[e].force = Null /\ occasion[e].team = w /\ r.copies \in Roster
      /\ r.team \in TeamIds
  BY <1>1, TeamFields DEF Sound, FirstAdding, Adding
<1>3. m \in TeamIds /\ m # Null
  BY TaskForcesAssumption DEF TeamIds
<1>4. occasion' = [occasion EXCEPT ![e] = x]
  BY <1>1, <1>2, TeamFields DEF FormTaskForce
<1>5. /\ x \in EventRows /\ x.st = occasion[e].st
      /\ x.team = m /\ x.force = m /\ x.owner = w
  <2>1. occasion[e] \in EventRows
    BY <1>1, <1>2, TeamFields
  <2> QED  BY <1>2, <1>3, <2>1 DEF EventRows
<1> HIDE DEF x
<1>6. /\ occasion' \in [Occasions -> EventRows] /\ occasion'[e] = x
      /\ \A o \in Occasions : o # e => occasion'[o] = occasion[o]
  BY <1>1, <1>2, <1>4, <1>5, TeamFields
<1>7. /\ parent' \in [TeamIds -> TeamIds \cup States] /\ parent'[m] = w
      /\ \A u \in TeamIds : u # m => parent'[u] = parent[u]
      /\ w \notin States
  BY <1>1, <1>2, <1>3, TeamFields
<1>8. \A u \in TeamIds : parent[u] # "unmade" => u # m /\ parent'[u] = parent[u]
  BY <1>1, <1>7
<1>9. /\ sources' \in [Occasions -> SUBSET TeamIds] /\ w \in sources'[e]
      /\ \A o \in Occasions : sources[o] \subseteq sources'[o]
  BY <1>1, <1>2, TeamFields
<1>10. /\ request' \in [Requesters -> TeamRequests] /\ request'[s].op = "idle"
       /\ \A o \in Requesters : o # s => request'[o] = request[o]
  BY <1>1, DoneEffect
<1>11. roster' \in [TeamIds -> Roster]
  BY <1>1, <1>2, <1>3 DEF TeamsTypeOK
<1>12. TeamsTypeOK'
  BY <1>1, <1>6, <1>7, <1>9, <1>10, <1>11 DEF TeamsTypeOK, States
<1>13. RowsAreSound'
  <2> SUFFICES ASSUME NEW o \in Occasions
               PROVE  /\ occasion'[o].team = Null <=> occasion'[o].st \in {"none", "deleted"}
                      /\ occasion'[o].team # Null => parent'[occasion'[o].team] # "unmade"
                      /\ occasion'[o].force # Null => occasion'[o].team = occasion'[o].force
                      /\ occasion'[o].owner # Null =>
                           /\ occasion'[o].force # Null
                           /\ occasion'[o].owner # occasion'[o].force
                           /\ parent'[occasion'[o].owner] # "unmade"
    BY DEF RowsAreSound
  <2>1. CASE o = e
    <3>1. occasion[e].st \notin {"none", "deleted"}
      BY <1>1, <1>2, TeamFields DEF TeamsInv, RowsAreSound
    <3> QED  BY <1>2, <1>3, <1>5, <1>6, <1>7, <1>8, <2>1, <3>1 DEF States
  <2>2. CASE o # e
    <3>1. /\ occasion[o].team \in TeamIds \cup {Null}
          /\ occasion[o].owner \in TeamIds \cup {Null}
      BY <1>1, TeamFields
    <3> QED  BY <1>6, <1>8, <2>2, <3>1 DEF TeamsInv, RowsAreSound
  <2> QED  BY <2>1, <2>2
<1>14. ASSUME NEW q, Sound(q), Apart(r, q) PROVE Sound(q)'
  <2>1. q.op = "delete" => /\ q.team \in TeamIds /\ parent'[q.team] # "unmade"
                           /\ \A o \in Occasions : occasion'[o].force # q.team
    BY <1>5, <1>6, <1>8, <1>14 DEF Sound
  <2>2. q.op = "add" /\ q.force = Null => FirstIsCurrent(q)'
    BY <1>2, <1>3, <1>5, <1>6, <1>7, <1>8, <1>9, <1>14 DEF Sound, FirstIsCurrent
  <2>3. FirstAdding(q) => /\ q.owner \in TeamIds /\ parent'[q.owner] # "unmade"
                          /\ occasion'[q.event].force = Null
                          /\ occasion'[q.event].team = q.owner
    <3> SUFFICES ASSUME FirstAdding(q) PROVE q.event # e
      BY <1>6, <1>8, <1>14 DEF Sound, FirstAdding, Adding
    <3> QED  BY <1>1, <1>14 DEF Apart, FirstAdding
  <2>4. q.op = "teardown" => /\ q.force # Null /\ q.owner # Null
                             /\ occasion'[q.event].force = q.force
                             /\ occasion'[q.event].owner = q.owner
    BY <1>1, <1>6, <1>14 DEF Sound, Apart
  <2> QED  BY <1>14, <2>1, <2>2, <2>3, <2>4 DEF Sound, FirstAdding, Adding
<1>15. RequestsAreSound'
  <2>1. \A o \in Requesters : o # s => Sound(request[o]) /\ Apart(r, request[o])
    BY DEF TeamsInv, RequestsAreSound
  <2>2. ASSUME NEW o \in Requesters, request'[o] = request[o] PROVE Sound(request[o])'
    <3>1. CASE o = s
      BY <1>10, <2>2, <3>1 DEF Sound, FirstAdding, Adding
    <3>2. CASE o # s
      BY <1>14, <2>1, <2>2, <3>2
    <3> QED  BY <3>1, <3>2
  <2> QED  BY <1>10, <2>2, RequestsStaySound DEF TeamsInv
<1>16. TaskForcesHaveTheirEvent'
  <2> SUFFICES ASSUME NEW n \in TaskForceIds, n \in Existing'
               PROVE  \E o \in Occasions : n \in {occasion'[o].team, occasion'[o].owner}
    BY DEF TaskForcesHaveTheirEvent
  <2>1. CASE n = m
    BY <1>2, <1>5, <1>6, <2>1
  <2>2. CASE n # m
    <3>1. n \in Existing /\ n # Null
      BY <1>7, <2>2, TaskForcesAssumption DEF Existing, TeamIds
    <3>2. PICK o \in Occasions : n \in {occasion[o].team, occasion[o].owner}
      BY <3>1 DEF TeamsInv, TaskForcesHaveTheirEvent
    <3>3. occasion[e].owner = Null
      BY <1>2 DEF TeamsInv, RowsAreSound
    <3> QED  BY <1>2, <1>5, <1>6, <3>1, <3>2, <3>3
  <2> QED  BY <2>1, <2>2
<1> QED  BY <1>12, <1>13, <1>15, <1>16 DEF TeamsInv

\* What is deleted with a team t that is no event's task force, of events and
\* source rows.
LEMMA EventsWithoutTeam ==
    ASSUME NEW events \in [Occasions -> EventRows], NEW t \in TeamIds,
           \A e \in Occasions : events[e].force # t,
           occasion' = EventsWithout(t, events)
    PROVE  /\ occasion' \in [Occasions -> EventRows]
           /\ \A e \in Occasions :
                IF events[e].team = t
                THEN /\ occasion'[e].st = "deleted" /\ occasion'[e].team = Null
                     /\ occasion'[e].force = Null /\ occasion'[e].owner = Null
                ELSE /\ occasion'[e].st = events[e].st
                     /\ occasion'[e].team = events[e].team
                     /\ occasion'[e].force = events[e].force
                     /\ occasion'[e].owner = IF events[e].owner = t THEN Null
                                             ELSE events[e].owner
<1>1. ASSUME NEW e \in Occasions
      PROVE  /\ occasion'[e] \in EventRows
             /\ IF events[e].team = t
                THEN /\ occasion'[e].st = "deleted" /\ occasion'[e].team = Null
                     /\ occasion'[e].force = Null /\ occasion'[e].owner = Null
                ELSE /\ occasion'[e].st = events[e].st
                     /\ occasion'[e].team = events[e].team
                     /\ occasion'[e].force = events[e].force
                     /\ occasion'[e].owner = IF events[e].owner = t THEN Null
                                             ELSE events[e].owner
  <2> DEFINE row == events[e]
             f == IF row.force = t THEN Null ELSE row.force
             w == IF row.owner = t THEN Null ELSE row.owner
  <2>1. row \in EventRows
    OBVIOUS
  <2>2. occasion'[e] = IF row.team = t THEN [NoEvent EXCEPT !.st = "deleted"]
                       ELSE [row EXCEPT !.force = f, !.owner = w]
    BY <2>1 DEF EventsWithout, EventRows
  <2>3. f \in TeamIds \cup {Null} /\ w \in TeamIds \cup {Null} /\ f = row.force
    BY <2>1 DEF EventRows
  <2>4. CASE row.team = t
    BY <2>2, <2>4 DEF NoEvent, EventRows
  <2>5. CASE row.team # t
    <3>1. occasion'[e] = [row EXCEPT !.force = f, !.owner = w]
      BY <2>2, <2>5
    <3> HIDE DEF row, f, w
    <3>2. /\ occasion'[e] \in EventRows /\ occasion'[e].st = row.st
          /\ occasion'[e].team = row.team /\ occasion'[e].force = f
          /\ occasion'[e].owner = w
      BY <2>1, <2>3, <3>1 DEF EventRows
    <3> QED  BY <2>3, <2>5, <3>2 DEF row, w
  <2> QED  BY <2>4, <2>5
<1>2. occasion' = [e \in Occasions |-> occasion'[e]]
  BY DEF EventsWithout
<1> QED  BY <1>1, <1>2

\* A team t is dropped; the events are as `events` says but for that, and so
\* are the source rows.
LEMMA TeamDropped ==
    ASSUME TeamsInv, NEW s \in Requesters, NEW t \in TeamIds,
           NEW events \in [Occasions -> EventRows],
           NEW contributors \in [Occasions -> SUBSET TeamIds],
           \A e \in Occasions : events[e].force # t,
           DropTeam(t, events, contributors), Done(s), UNCHANGED <<due, budget>>
    PROVE  /\ TeamsTypeOK'
           /\ parent'[t] = "deleted"
           /\ \A u \in TeamIds : u # t => parent'[u] = parent[u]
           /\ request'[s].op = "idle"
           /\ \A o \in Requesters : o # s => request'[o] = request[o]
           /\ \A e \in Occasions :
                /\ events[e].team # t => contributors[e] \ {t} \subseteq sources'[e]
                /\ IF events[e].team = t
                   THEN /\ occasion'[e].st = "deleted" /\ occasion'[e].team = Null
                        /\ occasion'[e].force = Null /\ occasion'[e].owner = Null
                   ELSE /\ occasion'[e].st = events[e].st
                        /\ occasion'[e].team = events[e].team
                        /\ occasion'[e].force = events[e].force
                        /\ occasion'[e].owner = IF events[e].owner = t THEN Null
                                                ELSE events[e].owner
<1>1. TeamsTypeOK
  BY DEF TeamsInv
<1>2. /\ parent' = [parent EXCEPT ![t] = "deleted"]
      /\ roster' = [roster EXCEPT ![t] = Nobody]
      /\ occasion' = EventsWithout(t, events)
      /\ sources' = [e \in Occasions |-> IF events[e].team = t THEN {}
                                         ELSE contributors[e] \ {t}]
  BY DEF DropTeam
<1>3. /\ parent' \in [TeamIds -> TeamIds \cup States] /\ parent'[t] = "deleted"
      /\ \A u \in TeamIds : u # t => parent'[u] = parent[u]
  BY <1>1, <1>2, TeamFields DEF States
<1>4. roster' \in [TeamIds -> Roster]
  BY <1>1, <1>2 DEF TeamsTypeOK, Nobody, Roster, Ranks, Leader, Out
<1>5. /\ sources' \in [Occasions -> SUBSET TeamIds]
      /\ \A e \in Occasions :
           events[e].team # t => contributors[e] \ {t} \subseteq sources'[e]
  BY <1>2
<1>6. /\ request' \in [Requesters -> TeamRequests] /\ request'[s].op = "idle"
      /\ \A o \in Requesters : o # s => request'[o] = request[o]
  BY <1>1, DoneEffect
<1>7. occasion' \in [Occasions -> EventRows]
  BY <1>2, EventsWithoutTeam
<1>8. TeamsTypeOK'
  BY <1>1, <1>3, <1>4, <1>5, <1>6, <1>7 DEF TeamsTypeOK, States
<1> QED  BY <1>2, <1>3, <1>5, <1>6, <1>8, EventsWithoutTeam

\* A ministry goes: it was no event's task force when asked, so it is none now.
LEMMA TeamsInvDelete ==
    ASSUME TeamsInv, NEW s \in Requesters, Delete(s)
    PROVE  TeamsInv' /\ \A e \in Occasions :
                          occasion[e].force # Null => occasion'[e].st # "deleted"
<1> DEFINE t == request[s].team
<1>1. /\ TeamsTypeOK /\ Sound(request[s]) /\ request[s].op = "delete"
      /\ DropTeam(t, occasion, sources) /\ Done(s) /\ UNCHANGED <<due, budget>>
      /\ ~TeamReferred(s, t)
      /\ \A e \in Occasions : EventReferred(s, e) =>
           t \notin {occasion[e].team, occasion[e].force, occasion[e].owner}
  BY DEF TeamsInv, RequestsAreSound, Delete
<1>2. t \in TeamIds /\ t # Null /\ \A e \in Occasions : occasion[e].force # t
  BY <1>1, TeamFields DEF Sound
<1> HIDE DEF t
<1>3. /\ TeamsTypeOK'
      /\ parent'[t] = "deleted"
      /\ \A u \in TeamIds : u # t => parent'[u] = parent[u]
      /\ request'[s].op = "idle"
      /\ \A o \in Requesters : o # s => request'[o] = request[o]
      /\ \A e \in Occasions :
           /\ occasion[e].team # t => sources[e] \ {t} \subseteq sources'[e]
           /\ IF occasion[e].team = t
              THEN /\ occasion'[e].st = "deleted" /\ occasion'[e].team = Null
                   /\ occasion'[e].force = Null /\ occasion'[e].owner = Null
              ELSE /\ occasion'[e].st = occasion[e].st
                   /\ occasion'[e].team = occasion[e].team
                   /\ occasion'[e].force = occasion[e].force
                   /\ occasion'[e].owner = IF occasion[e].owner = t THEN Null
                                           ELSE occasion[e].owner
  BY <1>1, <1>2, TeamFields, TeamDropped, SMTT(20)
<1>4. \A e \in Occasions : occasion[e].force # Null => occasion[e].team # t
  BY <1>2 DEF TeamsInv, RowsAreSound
<1>5. \A u \in TeamIds : /\ parent[u] # "unmade" => parent'[u] # "unmade"
                         /\ parent[u] = "deleted" => parent'[u] = "deleted"
  BY <1>3
<1>6. RowsAreSound'
  BY <1>1, <1>3, <1>4, <1>5, TeamFields DEF TeamsInv, RowsAreSound
<1>7. ASSUME NEW o \in Requesters, o # s PROVE Sound(request[o])'
  <2> DEFINE q == request[o]
  <2>1. Sound(q) /\ request'[o] = q
    BY <1>3, <1>7 DEF TeamsInv, RequestsAreSound
  <2>2. q.op = "delete" => /\ q.team \in TeamIds /\ parent'[q.team] # "unmade"
                           /\ \A e \in Occasions : occasion'[e].force # q.team
    BY <1>1, <1>3, <1>5, <2>1, TeamFields DEF Sound
  <2>3. q.op = "add" /\ q.force = Null =>
          /\ q.owner \in TeamIds
          /\ \/ occasion'[q.event].st = "deleted" \/ parent'[q.owner] = "deleted"
             \/ occasion'[q.event].force = Null /\ occasion'[q.event].team = q.owner
             \/ /\ occasion'[q.event].force # Null /\ occasion'[q.event].owner = q.owner
                /\ q.owner \in sources'[q.event]
    <3> SUFFICES ASSUME q.op = "add", q.force = Null, q.owner # t
                 PROVE  /\ q.owner \in TeamIds
                        /\ \/ occasion'[q.event].st = "deleted"
                           \/ parent'[q.owner] = "deleted"
                           \/ /\ occasion'[q.event].force = Null
                              /\ occasion'[q.event].team = q.owner
                           \/ /\ occasion'[q.event].force # Null
                              /\ occasion'[q.event].owner = q.owner
                              /\ q.owner \in sources'[q.event]
      BY <1>2, <1>3
    <3>1. q.event \in Occasions /\ FirstIsCurrent(q)
      BY <2>1 DEF Sound
    <3> HIDE DEF q
    <3> QED  BY <1>3, <1>4, <1>5, <3>1 DEF FirstIsCurrent
  <2>4. FirstAdding(q) => /\ q.owner \in TeamIds /\ parent'[q.owner] # "unmade"
                          /\ occasion'[q.event].force = Null
                          /\ occasion'[q.event].team = q.owner
    <3> SUFFICES ASSUME FirstAdding(q)
                 PROVE  /\ q.owner \in TeamIds /\ parent'[q.owner] # "unmade"
                        /\ occasion'[q.event].force = Null
                        /\ occasion'[q.event].team = q.owner
      OBVIOUS
    <3>1. q.owner # t
      BY <1>1, <1>7 DEF TeamReferred, FirstAdding
    <3>2. /\ q.event \in Occasions /\ q.owner \in TeamIds /\ parent[q.owner] # "unmade"
          /\ occasion[q.event].force = Null /\ occasion[q.event].team = q.owner
      BY <2>1 DEF Sound, FirstAdding, Adding
    <3> HIDE DEF q
    <3> QED  BY <1>3, <1>5, <3>1, <3>2
  <2>5. q.op = "teardown" => /\ q.force # Null /\ q.owner # Null
                             /\ occasion'[q.event].force = q.force
                             /\ occasion'[q.event].owner = q.owner
    <3> SUFFICES ASSUME q.op = "teardown"
                 PROVE  /\ q.force # Null /\ q.owner # Null
                        /\ occasion'[q.event].force = q.force
                        /\ occasion'[q.event].owner = q.owner
      OBVIOUS
    <3>1. q.event \in Occasions /\ EventReferred(s, q.event)
      BY <1>7, <2>1 DEF Sound, EventReferred, EventLocked
    <3>2. t # occasion[q.event].team /\ t # occasion[q.event].owner
      BY <1>1, <3>1
    <3> QED  BY <1>3, <2>1, <3>1, <3>2 DEF Sound
  <2> HIDE DEF q
  <2>6. Sound(q)'
    BY <2>1, <2>2, <2>3, <2>4, <2>5 DEF Sound, FirstIsCurrent, FirstAdding, Adding, q
  <2> QED  BY <2>1, <2>6 DEF q
<1>8. RequestsAreSound'
  <2>1. ASSUME NEW o \in Requesters, request'[o] = request[o] PROVE Sound(request[o])'
    <3>1. CASE o = s
      BY <1>3, <3>1 DEF Sound, FirstAdding, Adding
    <3> QED  BY <1>7, <3>1
  <2> QED  BY <1>3, <2>1, RequestsStaySound DEF TeamsInv
<1>9. TaskForcesHaveTheirEvent'
  <2> SUFFICES ASSUME NEW n \in TaskForceIds, n \in Existing'
               PROVE  \E e \in Occasions : n \in {occasion'[e].team, occasion'[e].owner}
    BY DEF TaskForcesHaveTheirEvent
  <2>1. n # t /\ n \in Existing /\ n # Null
    BY <1>3, TaskForcesAssumption DEF Existing, TeamIds
  <2>2. PICK e \in Occasions : n \in {occasion[e].team, occasion[e].owner}
    BY <2>1 DEF TeamsInv, TaskForcesHaveTheirEvent
  <2>3. n = occasion[e].owner => occasion[e].team # t
    BY <1>4, <2>1 DEF TeamsInv, RowsAreSound
  <2> QED  BY <1>3, <2>1, <2>2, <2>3
<1>10. ASSUME NEW e \in Occasions, occasion[e].force # Null
       PROVE  occasion'[e].st # "deleted"
  <2>1. occasion[e].st # "deleted"
    BY <1>1, <1>10, TeamFields, SMTT(20) DEF TeamsInv, RowsAreSound
  <2> QED  BY <1>3, <1>4, <1>10, <2>1, SMTT(20)
<1> QED  BY <1>3, <1>6, <1>8, <1>9, <1>10 DEF TeamsInv

\* A task force is dismantled: the event is back on its owner, which is not
\* the team that goes, and nothing else has that team for a task force.
LEMMA TeamsInvTearDown ==
    ASSUME TeamsInv, NEW s \in Requesters, TearDown(s)
    PROVE  TeamsInv' /\ \A o \in Occasions :
                          occasion[o].force # Null => occasion'[o].st # "deleted"
<1> DEFINE r == request[s]
           e == r.event
           t == r.force
           w == r.owner
           x == [occasion[e] EXCEPT !.team = w, !.force = Null, !.owner = Null]
           back == [occasion EXCEPT ![e] = x]
           contributors == [sources EXCEPT ![e] = {}]
<1>1. /\ TeamsTypeOK /\ Sound(r) /\ r.op = "teardown" /\ Done(s)
      /\ UNCHANGED <<due, budget>> /\ ~TeamReferred(s, t)
      /\ \A o \in Occasions : EventReferred(s, o) => occasion[o].team # t
  BY DEF TeamsInv, RequestsAreSound, TearDown
<1>2. /\ e \in Occasions /\ t \in TeamIds /\ w \in TeamIds /\ t # Null /\ w # Null
      /\ occasion[e].force = t /\ occasion[e].owner = w
      /\ occasion[e] \in EventRows
  BY <1>1, TeamFields DEF Sound
<1>3. w # t /\ parent[w] # "unmade" /\ occasion[e].st \notin {"none", "deleted"}
  BY <1>1, <1>2, TeamFields DEF TeamsInv, RowsAreSound
<1>4. back = [occasion EXCEPT ![e].team = w, ![e].force = Null, ![e].owner = Null]
  BY <1>1, <1>2, TeamFields
<1>5. /\ DropTeam(t, back, contributors)
      /\ \A o \in Occasions : t \notin {back[o].force, back[o].owner}
  BY <1>4 DEF TearDown
<1>6. x \in EventRows /\ x.team = w /\ x.force = Null /\ x.owner = Null
      /\ x.st = occasion[e].st
  BY <1>2 DEF EventRows
<1> HIDE DEF x
<1>7. /\ back \in [Occasions -> EventRows] /\ back[e] = x
      /\ \A o \in Occasions : o # e => back[o] = occasion[o]
  BY <1>1, <1>2, <1>6, TeamFields
<1>8. /\ contributors \in [Occasions -> SUBSET TeamIds]
      /\ \A o \in Occasions : o # e => contributors[o] = sources[o]
  BY <1>1, TeamFields
<1> HIDE DEF r, e, t, w, back, contributors
<1>9. /\ TeamsTypeOK'
      /\ parent'[t] = "deleted"
      /\ \A u \in TeamIds : u # t => parent'[u] = parent[u]
      /\ request'[s].op = "idle"
      /\ \A o \in Requesters : o # s => request'[o] = request[o]
      /\ \A o \in Occasions :
           /\ back[o].team # t => contributors[o] \ {t} \subseteq sources'[o]
           /\ IF back[o].team = t
              THEN /\ occasion'[o].st = "deleted" /\ occasion'[o].team = Null
                   /\ occasion'[o].force = Null /\ occasion'[o].owner = Null
              ELSE /\ occasion'[o].st = back[o].st
                   /\ occasion'[o].team = back[o].team
                   /\ occasion'[o].force = back[o].force
                   /\ occasion'[o].owner = IF back[o].owner = t THEN Null
                                           ELSE back[o].owner
  BY <1>1, <1>2, <1>5, <1>7, <1>8, TeamDropped
<1>10. /\ occasion'[e].st = occasion[e].st /\ occasion'[e].team = w
       /\ occasion'[e].force = Null /\ occasion'[e].owner = Null
  BY <1>2, <1>3, <1>6, <1>7, <1>9
<1>11. ASSUME NEW o \in Occasions, o # e
       PROVE  /\ occasion[o].force # t /\ occasion[o].owner # t
              /\ occasion[o].force # Null => occasion[o].team # t
              /\ IF occasion[o].team = t
                 THEN /\ occasion'[o].st = "deleted" /\ occasion'[o].team = Null
                      /\ occasion'[o].force = Null /\ occasion'[o].owner = Null
                 ELSE /\ occasion'[o].st = occasion[o].st
                      /\ occasion'[o].team = occasion[o].team
                      /\ occasion'[o].force = occasion[o].force
                      /\ occasion'[o].owner = occasion[o].owner
                      /\ sources[o] \ {t} \subseteq sources'[o]
  <2>1. occasion[o].force # t /\ occasion[o].owner # t
    BY <1>5, <1>7, <1>11
  <2>2. occasion[o].force # Null => occasion[o].team # t
    BY <2>1 DEF TeamsInv, RowsAreSound
  <2> QED  BY <1>7, <1>8, <1>9, <1>11, <2>1, <2>2
<1>12. \A u \in TeamIds : /\ parent[u] # "unmade" => parent'[u] # "unmade"
                          /\ parent[u] = "deleted" => parent'[u] = "deleted"
  BY <1>9
<1>13. RowsAreSound'
  <2> SUFFICES ASSUME NEW o \in Occasions
               PROVE  /\ occasion'[o].team = Null <=> occasion'[o].st \in {"none", "deleted"}
                      /\ occasion'[o].team # Null => parent'[occasion'[o].team] # "unmade"
                      /\ occasion'[o].force # Null => occasion'[o].team = occasion'[o].force
                      /\ occasion'[o].owner # Null =>
                           /\ occasion'[o].force # Null
                           /\ occasion'[o].owner # occasion'[o].force
                           /\ parent'[occasion'[o].owner] # "unmade"
    BY DEF RowsAreSound
  <2>1. CASE o = e
    BY <1>2, <1>3, <1>10, <1>12, <2>1
  <2>2. CASE o # e
    BY <1>1, <1>11, <1>12, <2>2, TeamFields DEF TeamsInv, RowsAreSound
  <2> QED  BY <2>1, <2>2
<1>14. ASSUME NEW o \in Requesters, o # s PROVE Sound(request[o])'
  <2> DEFINE q == request[o]
  <2>1. /\ Sound(q) /\ Apart(r, q) /\ request'[o] = q
    BY <1>9, <1>14 DEF TeamsInv, RequestsAreSound, r
  <2>2. q.op # "teardown" /\ (FirstAdding(q) => q.event # e)
    BY <1>1, <2>1 DEF Apart, FirstAdding, e
  <2>3. FirstAdding(q) => q.owner # t
    BY <1>1, <1>14 DEF TeamReferred, FirstAdding
  <2> HIDE DEF q
  <2>4. q.op = "delete" => /\ q.team \in TeamIds /\ parent'[q.team] # "unmade"
                           /\ \A a \in Occasions : occasion'[a].force # q.team
    <3> SUFFICES ASSUME q.op = "delete"
                 PROVE  /\ q.team \in TeamIds /\ parent'[q.team] # "unmade"
                        /\ \A a \in Occasions : occasion'[a].force # q.team
      OBVIOUS
    <3>1. /\ q.team \in TeamIds /\ parent[q.team] # "unmade" /\ q.team # Null
          /\ \A a \in Occasions : occasion[a].force # q.team
      BY <1>1, <2>1, TeamFields DEF Sound
    <3> QED  BY <1>10, <1>11, <1>12, <3>1
  <2>5. q.op = "add" /\ q.force = Null =>
          /\ q.owner \in TeamIds
          /\ \/ occasion'[q.event].st = "deleted" \/ parent'[q.owner] = "deleted"
             \/ occasion'[q.event].force = Null /\ occasion'[q.event].team = q.owner
             \/ /\ occasion'[q.event].force # Null /\ occasion'[q.event].owner = q.owner
                /\ q.owner \in sources'[q.event]
    <3> SUFFICES ASSUME q.op = "add", q.force = Null, q.owner # t
                 PROVE  /\ q.owner \in TeamIds
                        /\ \/ occasion'[q.event].st = "deleted"
                           \/ parent'[q.owner] = "deleted"
                           \/ /\ occasion'[q.event].force = Null
                              /\ occasion'[q.event].team = q.owner
                           \/ /\ occasion'[q.event].force # Null
                              /\ occasion'[q.event].owner = q.owner
                              /\ q.owner \in sources'[q.event]
      BY <1>2, <1>9
    <3>1. q.event \in Occasions /\ FirstIsCurrent(q)
      BY <2>1 DEF Sound
    <3>2. CASE q.event = e
      BY <1>2, <1>3, <1>10, <1>12, <3>1, <3>2 DEF FirstIsCurrent
    <3>3. CASE q.event # e
      BY <1>11, <1>12, <3>1, <3>3 DEF FirstIsCurrent
    <3> QED  BY <3>2, <3>3
  <2>6. FirstAdding(q) => /\ q.owner \in TeamIds /\ parent'[q.owner] # "unmade"
                          /\ occasion'[q.event].force = Null
                          /\ occasion'[q.event].team = q.owner
    <3> SUFFICES ASSUME FirstAdding(q)
                 PROVE  /\ q.owner \in TeamIds /\ parent'[q.owner] # "unmade"
                        /\ occasion'[q.event].force = Null
                        /\ occasion'[q.event].team = q.owner
      OBVIOUS
    <3>1. /\ q.event \in Occasions /\ q.owner \in TeamIds /\ parent[q.owner] # "unmade"
          /\ occasion[q.event].force = Null /\ occasion[q.event].team = q.owner
      BY <2>1 DEF Sound, FirstAdding, Adding
    <3> QED  BY <1>11, <1>12, <2>2, <2>3, <3>1
  <2>7. Sound(q)'
    BY <2>1, <2>2, <2>4, <2>5, <2>6
       DEF Sound, FirstIsCurrent, FirstAdding, Adding, q
  <2> QED  BY <2>7 DEF q
<1>15. RequestsAreSound'
  <2>1. ASSUME NEW o \in Requesters, request'[o] = request[o] PROVE Sound(request[o])'
    <3>1. CASE o = s
      BY <1>9, <3>1 DEF Sound, FirstAdding, Adding
    <3> QED  BY <1>14, <3>1
  <2> QED  BY <1>9, <2>1, RequestsStaySound DEF TeamsInv
<1>16. TaskForcesHaveTheirEvent'
  <2> SUFFICES ASSUME NEW n \in TaskForceIds, n \in Existing'
               PROVE  \E o \in Occasions : n \in {occasion'[o].team, occasion'[o].owner}
    BY DEF TaskForcesHaveTheirEvent
  <2>1. n # t /\ n \in Existing /\ n # Null
    BY <1>9, TaskForcesAssumption DEF Existing, TeamIds
  <2>2. PICK o \in Occasions : n \in {occasion[o].team, occasion[o].owner}
    BY <2>1 DEF TeamsInv, TaskForcesHaveTheirEvent
  <2>3. CASE o = e
    <3>1. occasion[e].team = t
      BY <1>2 DEF TeamsInv, RowsAreSound
    <3> QED  BY <1>2, <1>10, <2>1, <2>2, <2>3, <3>1
  <2>4. CASE o # e
    <3>1. n = occasion[o].owner => occasion[o].team # t
      BY <1>11, <2>1, <2>4 DEF TeamsInv, RowsAreSound
    <3> QED  BY <1>11, <2>1, <2>2, <2>4, <3>1
  <2> QED  BY <2>3, <2>4
<1>17. ASSUME NEW o \in Occasions, occasion[o].force # Null
       PROVE  occasion'[o].st # "deleted"
  <2>1. occasion[o].st # "deleted"
    BY <1>1, <1>17, TeamFields DEF TeamsInv, RowsAreSound
  <2> QED  BY <1>10, <1>11, <1>17, <2>1
<1> QED  BY <1>9, <1>13, <1>15, <1>16, <1>17, SMTT(20) DEF TeamsInv

\* Memberships, and the cleanup job's list, are nobody's concern here.
LEMMA TeamsInvRosters ==
    ASSUME TeamsInv, UNCHANGED <<parent, occasion, sources, request>>,
           roster' \in [TeamIds -> Roster], due' \subseteq Occasions,
           budget' \in 0..MaxRequests
    PROVE  TeamsInv'
<1>1. TeamsTypeOK'
  BY DEF TeamsInv, TeamsTypeOK
<1>2. RowsAreSound' /\ TaskForcesHaveTheirEvent'
  BY DEF TeamsInv, RowsAreSound, TaskForcesHaveTheirEvent, Existing
<1>3. ASSUME NEW r, Sound(r) PROVE Sound(r)'
  BY <1>3 DEF Sound, FirstIsCurrent, FirstAdding, Adding
<1>4. RequestsAreSound'
  BY <1>3, RequestsStaySound DEF TeamsInv, RequestsAreSound
<1> QED  BY <1>1, <1>2, <1>4 DEF TeamsInv

LEMMA TeamsInvEditRoster ==
    ASSUME TeamsInv, NEW t \in TeamIds, NEW p \in People, NEW rank \in Ranks,
           EditRoster(t, p, rank)
    PROVE  TeamsInv'
<1>1. roster \in [TeamIds -> Roster] /\ budget \in 0..MaxRequests /\ due \subseteq Occasions
  BY DEF TeamsInv, TeamsTypeOK
<1>2. /\ roster' = [roster EXCEPT ![t] = [roster[t] EXCEPT ![p] = rank]]
      /\ budget > 0 /\ budget' = budget - 1
      /\ UNCHANGED <<parent, occasion, sources, request, due>>
  BY DEF EditRoster
<1>3. roster' \in [TeamIds -> Roster]
  BY <1>1, <1>2 DEF Roster
<1>4. budget' \in 0..MaxRequests
  BY <1>1, <1>2, TaskForcesAssumption
<1> QED  BY <1>1, <1>2, <1>3, <1>4, TeamsInvRosters

-----------------------------------------------------------------------------
(* The whole.                                                              *)

LEMMA TeamsInvInit ==
    ASSUME TeamsInit
    PROVE  TeamsInv
<1>1. /\ FirstTeam \in TeamIds /\ FirstTeam \in Founded /\ Founded \subseteq TeamIds
      /\ FirstTeam # Null /\ 1 \in Occasions
  BY TaskForcesAssumption DEF TeamIds
<1> DEFINE first == [NoEvent EXCEPT !.st = "open", !.team = FirstTeam]
<1>2. /\ first \in EventRows /\ first.st = "open" /\ first.team = FirstTeam
      /\ first.force = Null /\ first.owner = Null
  BY <1>1 DEF NoEvent, EventRows
<1>3. /\ NoEvent \in EventRows /\ NoEvent.st = "none" /\ NoEvent.team = Null
      /\ NoEvent.force = Null /\ NoEvent.owner = Null
  BY DEF NoEvent, EventRows
<1>4. occasion = [e \in Occasions |-> IF e = 1 THEN first ELSE NoEvent]
  BY DEF TeamsInit
<1> HIDE DEF first
<1>5. \A e \in Occasions : occasion[e] = IF e = 1 THEN first ELSE NoEvent
  BY <1>4
<1>6. /\ parent \in [TeamIds -> TeamIds \cup States] /\ parent[FirstTeam] = "root"
      /\ \A t \in TeamIds : t \notin Founded => parent[t] = "unmade"
  BY <1>1 DEF TeamsInit, States
<1>7. roster \in [TeamIds -> Roster]
  <2>1. Nobody \in Roster
    BY DEF Nobody, Roster, Ranks, Leader, Out
  <2>2. \A t \in Founded : FirstRoles[t] \in Roster
    BY TaskForcesAssumption
  <2> QED  BY <2>1, <2>2 DEF TeamsInit
<1>8. TeamsTypeOK
  <2>1. occasion \in [Occasions -> EventRows]
    BY <1>2, <1>3, <1>4
  <2>2. /\ sources \in [Occasions -> SUBSET TeamIds] /\ due \subseteq Occasions
        /\ request \in [Requesters -> TeamRequests] /\ budget \in 0..MaxRequests
    BY AtRestIsARequest, TaskForcesAssumption DEF TeamsInit
  <2> QED  BY <1>6, <1>7, <2>1, <2>2 DEF TeamsTypeOK, States
<1>9. RowsAreSound
  BY <1>1, <1>2, <1>3, <1>5, <1>6 DEF RowsAreSound
<1>10. RequestsAreSound
  <2>1. \A s \in Requesters : request[s].op = "idle"
    BY AtRestIsARequest DEF TeamsInit
  <2> QED  BY <2>1, RestIsSound DEF RequestsAreSound
<1>11. TaskForcesHaveTheirEvent
  <2>1. TaskForceIds \cap Founded = {} /\ TaskForceIds \subseteq TeamIds
    BY TaskForcesAssumption DEF TeamIds
  <2> QED  BY <1>6, <2>1 DEF TaskForcesHaveTheirEvent, Existing
<1> QED  BY <1>8, <1>9, <1>10, <1>11 DEF TeamsInv

LEMMA TeamsInvStep ==
    ASSUME TeamsInv, [TeamsNext]_teamVars
    PROVE  TeamsInv'
<1>1. CASE UNCHANGED teamVars
  <2>1. roster' \in [TeamIds -> Roster] /\ due' \subseteq Occasions /\ budget' \in 0..MaxRequests
    BY <1>1 DEF TeamsInv, TeamsTypeOK, teamVars
  <2> QED  BY <1>1, <2>1, TeamsInvRosters DEF teamVars
<1>2. CASE \E s \in Requesters :
             \/ \E t \in TeamIds, p \in TeamIds \cup {"root"} : AskMove(s, t, p)
             \/ \E t \in TeamIds : AskDelete(s, t)
             \/ \E e \in Occasions, t \in TeamIds : AskAdd(s, e, t)
             \/ \E e \in Occasions : AskRefresh(s, e) \/ GiveBack(s, e)
             \/ Contribute(s) \/ GiveUp(s)
  BY <1>2, TeamsInvAskMove, TeamsInvAskDelete, TeamsInvAskAdd, TeamsInvAskRefresh,
     TeamsInvGiveBack, TeamsInvContribute, TeamsInvGiveUp
<1>3. CASE \E s \in Requesters :
             \/ \E m \in TaskForceIds : FormTaskForce(s, m)
             \/ Move(s) \/ Delete(s) \/ JoinTaskForce(s) \/ TearDown(s)
  BY <1>3, TeamsInvForm, TeamsInvMove, TeamsInvDelete, TeamsInvJoin, TeamsInvTearDown
<1>4. CASE \E t \in Teams, p \in TeamIds \cup {"root"} : CreateTeam(t, p)
  BY <1>4, TeamsInvCreateTeam
<1>5. CASE \E t \in TeamIds, p \in People, rank \in Ranks : EditRoster(t, p, rank)
  BY <1>5, TeamsInvEditRoster
<1>6. CASE \/ \E e \in Occasions, t \in TeamIds : CreateEvent(e, t)
           \/ \E e \in Occasions : EventEnds(e) \/ CancelEvent(e) \/ ProlongEvent(e)
  BY <1>6, TeamsInvEvents
<1>7. CASE \E e \in Occasions : KeepTeam(e)
  BY <1>7, TeamsInvKeepTeam
<1>8. CASE ListDue
  <2>1. roster' \in [TeamIds -> Roster] /\ due' \subseteq Occasions /\ budget' \in 0..MaxRequests
    BY <1>8 DEF TeamsInv, TeamsTypeOK, ListDue
  <2> QED  BY <1>8, <2>1, TeamsInvRosters DEF ListDue
<1> QED  BY <1>1, <1>2, <1>3, <1>4, <1>5, <1>6, <1>7, <1>8 DEF TeamsNext

\* The inductive invariant holds throughout: the requests of services/teams.py
\* and services/task_force.py, and the cleanup job, may overlap as they like.
THEOREM TeamsInvariance == TeamsSpec => []TeamsInv
<1>1. TeamsInit => TeamsInv
  BY TeamsInvInit
<1>2. TeamsInv /\ [TeamsNext]_teamVars => TeamsInv'
  BY TeamsInvStep
<1> QED  BY <1>1, <1>2, PTL DEF TeamsSpec

\* Each column of Team, Event and EventTaskForceSource, and what a request
\* holds of them, has its type (models.py).
THEOREM TeamsTypeCorrect == TeamsSpec => []TeamsTypeOK
<1>1. TeamsInv => TeamsTypeOK
  BY DEF TeamsInv
<1> QED  BY <1>1, TeamsInvariance, PTL

\* No task-force team outlives its event, nor the race of two first
\* collaborators (_ensure_task_force and dismantle, task_force.py).
THEOREM TaskForcesKeepTheirEvent == TeamsSpec => []TaskForcesHaveTheirEvent
<1>1. TeamsInv => TaskForcesHaveTheirEvent
  BY DEF TeamsInv
<1> QED  BY <1>1, TeamsInvariance, PTL

\* "The teardown order is load-bearing" (task_force.py): an event with a task
\* force is deleted neither by the teardown nor by the deletion of any team.
THEOREM EventsSurvive == TeamsSpec => TaskForceEventsSurvive
<1> DEFINE Survive == \A e \in Occasions :
                        occasion[e].force # Null => occasion'[e].st # "deleted"
<1>1. ASSUME TeamsInv, [TeamsNext]_teamVars PROVE Survive
  <2>1. /\ TeamsTypeOK
        /\ \A e \in Occasions : /\ occasion[e] \in EventRows
                                /\ occasion[e].force # Null => occasion[e].st # "deleted"
    BY <1>1, TeamFields DEF TeamsInv, RowsAreSound
  <2>2. CASE occasion' = occasion
    BY <2>1, <2>2
  <2>3. CASE \E s \in Requesters : Delete(s) \/ TearDown(s)
    BY <1>1, <2>3, TeamsInvDelete, TeamsInvTearDown
  <2>4. CASE \E s \in Requesters, m \in TaskForceIds : FormTaskForce(s, m)
    <3>1. PICK s \in Requesters, m \in TaskForceIds : FormTaskForce(s, m)
      BY <2>4
    <3> DEFINE a == request[s].event
               x == [occasion[a] EXCEPT !.team = m, !.force = m,
                                        !.owner = request[s].owner]
    <3>2. Sound(request[s]) /\ request[s].op = "copy"
      BY <1>1, <3>1 DEF TeamsInv, RequestsAreSound, FormTaskForce, Adding
    <3>3. a \in Occasions
      BY <3>2 DEF Sound
    <3>4. occasion' = [occasion EXCEPT ![a] = x]
      BY <2>1, <3>1, <3>3, TeamFields DEF FormTaskForce
    <3>5. x.st = occasion[a].st
      BY <2>1, <3>3 DEF EventRows
    <3> HIDE DEF x, a
    <3>6. \A e \in Occasions : occasion'[e] = IF e = a THEN x ELSE occasion[e]
      BY <2>1, <3>4, TeamFields
    <3>7. occasion[a].force = Null
      BY <3>1, <3>2 DEF Sound, FirstAdding, FormTaskForce, a
    <3> QED  BY <2>1, <3>5, <3>6, <3>7, TeamFields DEF RowsAreSound
  <2>5. CASE \E e \in Occasions : EventEnds(e) \/ CancelEvent(e) \/ ProlongEvent(e)
    <3>1. PICK e \in Occasions, from \in {"open", "ended"},
               to \in {"open", "ended", "cancelled"} : SetStatus(e, from, to)
      BY <2>5 DEF EventEnds, CancelEvent, ProlongEvent
    <3> DEFINE x == [occasion[e] EXCEPT !.st = to]
    <3>2. occasion' = [occasion EXCEPT ![e] = x] /\ x.st = to
      BY <2>1, <3>1 DEF SetStatus, EventRows
    <3> HIDE DEF x
    <3> QED  BY <2>1, <3>2, TeamFields
  <2>6. CASE \E e \in Occasions, t \in TeamIds : CreateEvent(e, t)
    <3>1. PICK e \in Occasions, t \in TeamIds : CreateEvent(e, t)
      BY <2>6
    <3> DEFINE x == [NoEvent EXCEPT !.st = "open", !.team = t]
    <3>2. occasion' = [occasion EXCEPT ![e] = x] /\ x.st = "open"
      BY <3>1 DEF CreateEvent, NoEvent
    <3> HIDE DEF x
    <3> QED  BY <2>1, <3>2, TeamFields
  <2>7. CASE \E e \in Occasions : KeepTeam(e)
    <3>1. PICK e \in Occasions : KeepTeam(e)
      BY <2>7
    <3> DEFINE x == [occasion[e] EXCEPT !.force = Null]
    <3>2. /\ occasion' = [occasion EXCEPT ![e] = x] /\ x.st = occasion[e].st
          /\ occasion[e].force # Null
      BY <2>1, <3>1 DEF KeepTeam, EventRows
    <3> HIDE DEF x
    <3> QED  BY <2>1, <3>2, TeamFields
  <2>8. CASE \E s \in Requesters :
               \/ \E t \in TeamIds, p \in TeamIds \cup {"root"} : AskMove(s, t, p)
               \/ \E t \in TeamIds : AskDelete(s, t)
               \/ \E e \in Occasions, t \in TeamIds : AskAdd(s, e, t)
               \/ \E e \in Occasions : AskRefresh(s, e) \/ GiveBack(s, e)
               \/ Move(s) \/ Contribute(s) \/ JoinTaskForce(s) \/ GiveUp(s)
    BY <2>2, <2>8, ZenonT(60)
    DEF AskMove, AskDelete, AskAdd, AskRefresh, Ask, GiveBack, Move, Contribute,
        JoinTaskForce, GiveUp
  <2>9. CASE \/ \E t \in Teams, p \in TeamIds \cup {"root"} : CreateTeam(t, p)
             \/ \E t \in TeamIds, p \in People, rank \in Ranks : EditRoster(t, p, rank)
             \/ ListDue \/ UNCHANGED teamVars
    BY <2>2, <2>9 DEF CreateTeam, EditRoster, ListDue, teamVars
  <2> QED  BY <1>1, <2>3, <2>4, <2>5, <2>6, <2>7, <2>8, <2>9 DEF TeamsNext
<1>2. TeamsInv /\ [TeamsNext]_teamVars => [Survive]_teamVars
  BY <1>1
<1> QED  BY <1>2, TeamsInvariance, PTL DEF TeamsSpec, TaskForceEventsSurvive

-----------------------------------------------------------------------------
(* How far the tree reaches.                                               *)

\* Below, of a given tree.
GrowIn(par, S) == S \cup {c \in TeamIds : par[c] \in S}

ReachIn(par, t) ==
    CHOOSE f : f = [n \in Nat |-> IF n = 0 THEN {t} ELSE GrowIn(par, f[n - 1])]

BelowIn(par, t) == ReachIn(par, t)[Cardinality(TeamIds) - 1]

\* The ways down from t, of k steps.
WaysDown(par, t, k) ==
    {w \in [0..k -> TeamIds] : w[0] = t /\ \A i \in 1..k : par[w[i]] = w[i - 1]}

LEMMA BelowIsBelowIn == \A t : Below(t) = BelowIn(parent, t)
  BY Zenon DEF Below, BelowIn, ReachIn, GrowIn

\* One team more at the end of a way, or one less.
LEMMA WaysGrow ==
    ASSUME NEW par, NEW t \in TeamIds, NEW k \in Nat, NEW c \in TeamIds
    PROVE  /\ \A w \in WaysDown(par, t, k) :
                par[c] = w[k] => \E v \in WaysDown(par, t, k + 1) : v[k + 1] = c
           /\ \A v \in WaysDown(par, t, k + 1) :
                \E w \in WaysDown(par, t, k) : w[k] = par[v[k + 1]]
<1>1. ASSUME NEW w \in WaysDown(par, t, k), par[c] = w[k]
      PROVE  \E v \in WaysDown(par, t, k + 1) : v[k + 1] = c
  <2> DEFINE v == [i \in 0..(k + 1) |-> IF i = k + 1 THEN c ELSE w[i]]
  <2>1. w \in [0..k -> TeamIds] /\ w[0] = t /\ \A i \in 1..k : par[w[i]] = w[i - 1]
    BY DEF WaysDown
  <2>2. v \in [0..(k + 1) -> TeamIds] /\ v[0] = t /\ v[k + 1] = c
    BY <2>1
  <2>3. ASSUME NEW i \in 1..(k + 1) PROVE par[v[i]] = v[i - 1]
    <3>1. CASE i = k + 1
      BY <1>1, <3>1
    <3>2. CASE i # k + 1
      <4>1. i \in 1..k /\ i - 1 \in 0..k /\ i \in 0..k
        BY <3>2
      <4> QED  BY <2>1, <4>1
    <3> QED  BY <3>1, <3>2
  <2>4. v \in WaysDown(par, t, k + 1)
    BY <2>2, <2>3 DEF WaysDown
  <2> QED  BY <2>2, <2>4
<1>2. ASSUME NEW v \in WaysDown(par, t, k + 1)
      PROVE  \E w \in WaysDown(par, t, k) : w[k] = par[v[k + 1]]
  <2> DEFINE w == [i \in 0..k |-> v[i]]
  <2>1. /\ v \in [0..(k + 1) -> TeamIds] /\ v[0] = t
        /\ \A i \in 1..(k + 1) : par[v[i]] = v[i - 1]
    BY DEF WaysDown
  <2>2. w \in [0..k -> TeamIds] /\ w[0] = t /\ \A i \in 1..k : par[w[i]] = w[i - 1]
    BY <2>1
  <2>3. k + 1 \in 1..(k + 1) /\ (k + 1) - 1 = k
    OBVIOUS
  <2>4. w[k] = par[v[k + 1]]
    BY <2>1, <2>3
  <2>5. w \in WaysDown(par, t, k)
    BY <2>2 DEF WaysDown
  <2> QED  BY <2>4, <2>5
<1> QED  BY <1>1, <1>2

\* The function that Below is defined by exists: what it reaches in n steps is
\* what a way of at most n steps leads to.
LEMMA ReachUnfolds ==
    ASSUME NEW par, NEW t \in TeamIds
    PROVE  LET f == ReachIn(par, t)
           IN  f = [n \in Nat |-> IF n = 0 THEN {t} ELSE GrowIn(par, f[n - 1])]
<1> DEFINE R(n) == {c \in TeamIds : \E k \in 0..n : \E w \in WaysDown(par, t, k) : w[k] = c}
           F == [n \in Nat |-> R(n)]
<1>1. R(0) = {t}
  <2>1. [i \in 0..0 |-> t] \in WaysDown(par, t, 0)
    BY DEF WaysDown
  <2>2. t \in R(0)
    BY <2>1
  <2>3. ASSUME NEW c \in R(0) PROVE c = t
    BY DEF WaysDown
  <2> QED  BY <2>2, <2>3
<1>2. ASSUME NEW n \in Nat PROVE R(n + 1) = GrowIn(par, R(n))
  <2>1. ASSUME NEW c \in R(n + 1) PROVE c \in GrowIn(par, R(n))
    <3>1. PICK k \in 0..(n + 1) : \E v \in WaysDown(par, t, k) : v[k] = c
      OBVIOUS
    <3>2. CASE k \in 0..n
      BY <3>1, <3>2 DEF GrowIn
    <3>3. CASE k = n + 1
      <4>1. PICK v \in WaysDown(par, t, n + 1) : v[n + 1] = c
        BY <3>1, <3>3
      <4>2. PICK w \in WaysDown(par, t, n) : w[n] = par[c]
        BY <4>1, WaysGrow
      <4>3. par[c] \in TeamIds
        BY <4>2 DEF WaysDown
      <4>4. par[c] \in R(n)
        BY <4>2, <4>3
      <4> QED  BY <4>4 DEF GrowIn
    <3> QED  BY <3>2, <3>3
  <2>2. ASSUME NEW c \in GrowIn(par, R(n)) PROVE c \in R(n + 1)
    <3>1. CASE c \in R(n)
      <4>1. PICK k \in 0..n : \E w \in WaysDown(par, t, k) : w[k] = c
        BY <3>1
      <4>2. k \in 0..(n + 1)
        OBVIOUS
      <4> QED  BY <3>1, <4>1, <4>2
    <3>2. CASE c \in TeamIds /\ par[c] \in R(n)
      <4>1. PICK k \in 0..n : \E w \in WaysDown(par, t, k) : w[k] = par[c]
        BY <3>2
      <4>2. \E v \in WaysDown(par, t, k + 1) : v[k + 1] = c
        BY <3>2, <4>1, WaysGrow
      <4>3. k + 1 \in 0..(n + 1)
        OBVIOUS
      <4> QED  BY <3>2, <4>2, <4>3
    <3> QED  BY <3>1, <3>2 DEF GrowIn
  <2> QED  BY <2>1, <2>2
<1> HIDE DEF R
<1>3. ASSUME NEW n \in Nat
      PROVE  F[n] = IF n = 0 THEN {t} ELSE GrowIn(par, F[n - 1])
  <2>1. CASE n = 0
    BY <1>1, <2>1
  <2>2. CASE n # 0
    <3>1. n - 1 \in Nat /\ (n - 1) + 1 = n
      BY <2>2
    <3>2. R((n - 1) + 1) = GrowIn(par, R(n - 1))
      BY <1>2, <3>1
    <3> QED  BY <2>2, <3>1, <3>2
  <2> QED  BY <2>1, <2>2
<1>4. F = [n \in Nat |-> IF n = 0 THEN {t} ELSE GrowIn(par, F[n - 1])]
  BY <1>3
<1> HIDE DEF F
<1> QED  BY <1>4, Zenon DEF ReachIn

\* From t, one step of the tree at a time.
Steps(f, par, t) ==
    /\ f[0] = {t}
    /\ \A n \in Nat : f[n + 1] = GrowIn(par, f[n])

LEMMA ReachSteps ==
    ASSUME NEW par, NEW t \in TeamIds
    PROVE  Steps(ReachIn(par, t), par, t)
<1> DEFINE f == ReachIn(par, t)
<1>1. f = [n \in Nat |-> IF n = 0 THEN {t} ELSE GrowIn(par, f[n - 1])]
  BY ReachUnfolds
<1> HIDE DEF f
<1>2. f[0] = {t}
  BY <1>1
<1>3. ASSUME NEW n \in Nat PROVE f[n + 1] = GrowIn(par, f[n])
  <2>1. n + 1 \in Nat /\ n + 1 # 0 /\ (n + 1) - 1 = n
    OBVIOUS
  <2> QED  BY <1>1, <2>1
<1> QED  BY <1>2, <1>3 DEF f, Steps

\* A set of numbers that has 0, and the next of each it has, is all of them.
LEMMA AllNumbers ==
    ASSUME NEW S \in SUBSET Nat, 0 \in S, \A n \in S : n + 1 \in S
    PROVE  S = Nat
<1> SUFFICES ASSUME S # Nat PROVE FALSE
  OBVIOUS
<1> DEFINE T == Nat \ S
<1>1. T \subseteq Nat /\ T # {}
  OBVIOUS
<1>2. PICK x \in T : \A y \in T : x <= y
  BY <1>1, SmallestRank
<1>3. x # 0 /\ x - 1 \in Nat
  BY <1>2
<1>4. x - 1 \in S
  BY <1>2, <1>3
<1> QED  BY <1>2, <1>3, <1>4

\* The number of teams below which there is nothing new.
LEMMA TeamsAreCounted ==
    ASSUME NEW t \in TeamIds
    PROVE  Cardinality(TeamIds) - 1 \in Nat
<1>1. IsFiniteSet(TeamIds) /\ TeamIds # {}
  BY TaskForcesAssumption
<1> QED  BY <1>1, FS_CardinalityType, FS_EmptySet

\* Nothing is below a team without children.
LEMMA NothingBelowALeaf ==
    ASSUME NEW par, NEW m \in TeamIds, \A c \in TeamIds : par[c] # m
    PROVE  BelowIn(par, m) = {m}
<1> DEFINE S == {n \in Nat : ReachIn(par, m)[n] = {m}}
<1>0. Steps(ReachIn(par, m), par, m)
  BY ReachSteps, Zenon
<1>1. 0 \in S
  BY <1>0 DEF Steps
<1>2. ASSUME NEW n \in S PROVE n + 1 \in S
  <2>1. GrowIn(par, {m}) = {m}
    BY DEF GrowIn
  <2>2. n \in Nat /\ n + 1 \in Nat /\ ReachIn(par, m)[n] = {m}
    OBVIOUS
  <2>3. \A k \in Nat : ReachIn(par, m)[k + 1] = GrowIn(par, ReachIn(par, m)[k])
    BY <1>0 DEF Steps
  <2> QED  BY <2>1, <2>2, <2>3
<1>3. S = Nat
  <2> HIDE DEF S
  <2>1. S \in SUBSET Nat
    BY DEF S
  <2> QED  BY <1>1, <1>2, <2>1, AllNumbers
<1> QED  BY <1>3, TeamsAreCounted DEF BelowIn

\* A team without children that comes, goes or moves is the only one that is
\* below another by that, or is not.
LEMMA OnlyTheLeaf ==
    ASSUME NEW old, NEW new, NEW m \in TeamIds, NEW t \in TeamIds, t # m,
           \A u \in TeamIds : u # m => new[u] = old[u],
           \A c \in TeamIds : old[c] # m /\ new[c] # m
    PROVE  BelowIn(new, t) \ {m} = BelowIn(old, t) \ {m}
<1> DEFINE f == ReachIn(old, t)
           g == ReachIn(new, t)
           S == {n \in Nat : g[n] \ {m} = f[n] \ {m}}
<1>1. /\ f[0] = {t} /\ \A n \in Nat : f[n + 1] = GrowIn(old, f[n])
      /\ g[0] = {t} /\ \A n \in Nat : g[n + 1] = GrowIn(new, g[n])
  <2>1. Steps(f, old, t) /\ Steps(g, new, t)
    BY ReachSteps, Zenon
  <2> HIDE DEF f, g
  <2> QED  BY <2>1 DEF Steps
<1> HIDE DEF f, g
<1>2. 0 \in S
  BY <1>1
<1>3. ASSUME NEW n \in S PROVE n + 1 \in S
  <2>1. n \in Nat /\ n + 1 \in Nat /\ g[n] \ {m} = f[n] \ {m}
    OBVIOUS
  <2>2. ASSUME NEW c, c # m PROVE c \in GrowIn(new, g[n]) <=> c \in GrowIn(old, f[n])
    <3>1. c \in g[n] <=> c \in f[n]
      BY <2>1, <2>2
    <3>2. c \in TeamIds => /\ new[c] = old[c] /\ old[c] # m
                           /\ new[c] \in g[n] <=> old[c] \in f[n]
      BY <2>1, <2>2
    <3> QED  BY <3>1, <3>2 DEF GrowIn
  <2>3. g[n + 1] = GrowIn(new, g[n]) /\ f[n + 1] = GrowIn(old, f[n])
    BY <1>1, <2>1
  <2>4. \A c : c # m => (c \in g[n + 1] <=> c \in f[n + 1])
    BY <2>2, <2>3
  <2>5. g[n + 1] \ {m} = f[n + 1] \ {m}
    BY <2>4
  <2> QED  BY <2>1, <2>5
<1>4. S = Nat
  <2> HIDE DEF S
  <2>1. S \in SUBSET Nat
    BY DEF S
  <2> QED  BY <1>2, <1>3, <2>1, AllNumbers
<1> QED  BY <1>4, TeamsAreCounted DEF BelowIn, f, g

-----------------------------------------------------------------------------
(* The rights that the tree, the rosters and the task forces give.         *)

ExistingIn(par) == {t \in TeamIds : par[t] \notin {"unmade", "deleted"}}

\* All below the teams that p is on at a given rank.
ReachedBy(par, ros, p, rank) ==
    UNION {BelowIn(par, t) : t \in {u \in ExistingIn(par) : ros[u][p] = rank}}

OnIn(par, ros, v) == {t \in ExistingIn(par) : ros[t][v] # Out}

\* RightsOver, of given teams.
RightsIn(par, ros, forces, p) ==
    LET led == ReachedBy(par, ros, p, Leader)
        core == ReachedBy(par, ros, p, Core)
        people == led \ forces
        full == (led \cup core) \ forces
    IN
    [edit |-> {v \in People : v = p \/ people \cap OnIn(par, ros, v) # {}},
     view |-> {v \in People : v = p \/ full \cap OnIn(par, ros, v) # {}}]

RightsAgree == \A p : RightsOver(p) = RightsIn(parent, roster, TaskForceTeams, p)

LEMMA RightsAreRightsIn == RightsAgree
<1>1. Existing = ExistingIn(parent)
  BY DEF Existing, ExistingIn
<1> SUFFICES ASSUME NEW p
             PROVE  RightsOver(p) = RightsIn(parent, roster, TaskForceTeams, p)
  BY DEF RightsAgree
<1>2. ASSUME NEW rank
      PROVE  UNION {Below(t) : t \in {u \in Existing : roster[u][p] = rank}}
               = ReachedBy(parent, roster, p, rank)
  BY <1>1, BelowIsBelowIn DEF ReachedBy
<1>3. ManagedBy(p) = ReachedBy(parent, roster, p, Leader)
  BY <1>2 DEF ManagedBy
<1>4. /\ PeopleOf(p) = ReachedBy(parent, roster, p, Leader) \ TaskForceTeams
      /\ FullViewOf(p) = (ReachedBy(parent, roster, p, Leader)
                            \cup ReachedBy(parent, roster, p, Core)) \ TaskForceTeams
  BY <1>2, <1>3 DEF PeopleOf, FullViewOf
<1>5. \A v : TeamsOf(v) = OnIn(parent, roster, v)
  BY <1>1 DEF TeamsOf, OnIn
<1> QED  BY <1>4, <1>5 DEF RightsOver, RightsIn

\* And so they do after a step.
LEMMA RightsAgreeNext == RightsAgree'
  BY RightsAreRightsIn, PTL

\* What one team gives, nobody has rights by: because it does not exist, or is
\* a task force, with nothing but task forces below it.
Idle(par, forces, m) ==
    /\ BelowIn(par, m) \subseteq forces \cup {m}
    /\ m \in forces \/ m \notin ExistingIn(par)

\* If only such a team differs, the rights are the same.
LEMMA RightsKept ==
    ASSUME NEW m \in TeamIds,
           NEW par, NEW ros, NEW forces, Idle(par, forces, m),
           NEW par2, NEW ros2, NEW forces2, Idle(par2, forces2, m),
           forces2 \ {m} = forces \ {m},
           \A u \in TeamIds : u # m =>
             /\ u \in ExistingIn(par2) <=> u \in ExistingIn(par)
             /\ ros2[u] = ros[u]
             /\ BelowIn(par2, u) \ {m} = BelowIn(par, u) \ {m},
           NEW p
    PROVE  RightsIn(par2, ros2, forces2, p) = RightsIn(par, ros, forces, p)
<1>1. ASSUME NEW rank, NEW x, x # m, x \notin forces
      PROVE  x \in ReachedBy(par2, ros2, p, rank) <=> x \in ReachedBy(par, ros, p, rank)
  <2>1. x \notin forces2
    BY <1>1
  <2>2. x \notin BelowIn(par, m) /\ x \notin BelowIn(par2, m)
    BY <1>1, <2>1 DEF Idle
  <2>3. \A u \in TeamIds : u # m => (x \in BelowIn(par2, u) <=> x \in BelowIn(par, u))
    BY <1>1
  <2>4. ASSUME NEW u \in TeamIds
        PROVE  /\ u \in ExistingIn(par2) /\ ros2[u][p] = rank /\ x \in BelowIn(par2, u)
                    => u \in ExistingIn(par) /\ ros[u][p] = rank /\ x \in BelowIn(par, u)
               /\ u \in ExistingIn(par) /\ ros[u][p] = rank /\ x \in BelowIn(par, u)
                    => u \in ExistingIn(par2) /\ ros2[u][p] = rank /\ x \in BelowIn(par2, u)
    BY <2>2, <2>3
  <2>5. ExistingIn(par) \subseteq TeamIds /\ ExistingIn(par2) \subseteq TeamIds
    BY DEF ExistingIn
  <2> QED  BY <2>4, <2>5 DEF ReachedBy
<1>2. ASSUME NEW v, NEW x, x # m
      PROVE  x \in OnIn(par2, ros2, v) <=> x \in OnIn(par, ros, v)
  <2>1. x \in OnIn(par2, ros2, v) \/ x \in OnIn(par, ros, v) => x \in TeamIds
    BY DEF OnIn, ExistingIn
  <2> QED  BY <1>2, <2>1 DEF OnIn
<1>3. \A v : /\ m \in forces \/ m \notin OnIn(par, ros, v)
             /\ m \in forces2 \/ m \notin OnIn(par2, ros2, v)
  BY DEF Idle, OnIn
<1> DEFINE Alike(S, S2) == \A x : x # m /\ x \notin forces => (x \in S2 <=> x \in S)
           Met(S, v) == (S \ forces) \cap OnIn(par, ros, v)
           Met2(S, v) == (S \ forces2) \cap OnIn(par2, ros2, v)
<1>4. ASSUME NEW S, NEW S2, NEW v, Alike(S, S2) PROVE Met2(S2, v) = Met(S, v)
  <2> SUFFICES ASSUME NEW x PROVE x \in Met2(S2, v) <=> x \in Met(S, v)
    OBVIOUS
  <2>1. CASE x = m
    BY <1>3, <2>1
  <2>2. CASE x # m
    <3>1. x \in forces2 <=> x \in forces
      BY <2>2
    <3> QED  BY <1>2, <1>4, <2>2, <3>1
  <2> QED  BY <2>1, <2>2
<1> DEFINE led == ReachedBy(par, ros, p, Leader)
           core == ReachedBy(par, ros, p, Core)
           led2 == ReachedBy(par2, ros2, p, Leader)
           core2 == ReachedBy(par2, ros2, p, Core)
<1>5. Alike(led, led2) /\ Alike(led \cup core, led2 \cup core2)
  BY <1>1
<1> HIDE DEF led, core, led2, core2, Alike, Met, Met2
<1>6. \A v : Met2(led2, v) = Met(led, v)
  BY <1>4, <1>5, Zenon
<1>7. \A v : Met2(led2 \cup core2, v) = Met(led \cup core, v)
  BY <1>4, <1>5, Zenon
<1> QED  BY <1>6, <1>7 DEF RightsIn, led, core, led2, core2, Met, Met2

-----------------------------------------------------------------------------
(* Task forces lend nobody anybody.                                        *)

\* A team is put below teams that were made.
ParentsAreMade ==
    \A c \in TeamIds : parent[c] \in TeamIds => parent[parent[c]] # "unmade"

LEMMA ParentsStayMade ==
    ASSUME TeamsTypeOK, TeamsTypeOK', ParentsAreMade,
           \A u \in TeamIds : parent[u] # "unmade" => parent'[u] # "unmade",
           \A c \in TeamIds :
             \/ parent'[c] = parent[c] \/ parent'[c] \notin TeamIds
             \/ parent[parent'[c]] # "unmade"
    PROVE  ParentsAreMade'
  BY DEF ParentsAreMade

LEMMA ParentsInit == TeamsInit => ParentsAreMade
<1> SUFFICES ASSUME TeamsInit PROVE ParentsAreMade
  OBVIOUS
<1>1. \A c \in TeamIds : parent[c] \in {"root", "unmade"}
  BY DEF TeamsInit
<1> QED  BY <1>1, TaskForcesAssumption DEF ParentsAreMade

LEMMA ParentsStep ==
    ASSUME TeamsInv, TeamsInv', ParentsAreMade, [TeamsNext]_teamVars
    PROVE  ParentsAreMade'
<1>1. TeamsTypeOK /\ TeamsTypeOK' /\ TeamIds \cap States = {}
  BY TeamFields DEF TeamsInv
<1>2. ASSUME parent' = parent PROVE ParentsAreMade'
  BY <1>2 DEF ParentsAreMade
<1>3. ASSUME NEW t \in TeamIds, NEW p, parent' = [parent EXCEPT ![t] = p], p # "unmade",
             p \in TeamIds => parent[p] # "unmade"
      PROVE  ParentsAreMade'
  <2>1. /\ \A u \in TeamIds : parent[u] # "unmade" => parent'[u] # "unmade"
        /\ \A c \in TeamIds : parent'[c] = IF c = t THEN p ELSE parent[c]
    BY <1>1, <1>3, TeamFields
  <2> QED  BY <1>1, <1>3, <2>1, ParentsStayMade
<1>4. CASE \E t \in Teams, p \in TeamIds \cup {"root"} : CreateTeam(t, p)
  <2>1. PICK t \in Teams, p \in TeamIds \cup {"root"} : CreateTeam(t, p)
    BY <1>4
  <2>2. /\ t \in TeamIds /\ parent' = [parent EXCEPT ![t] = p] /\ p # "unmade"
        /\ p \in TeamIds => parent[p] # "unmade"
    BY <1>1, <2>1 DEF CreateTeam, TeamIds, Existing, States
  <2> QED  BY <1>3, <2>2
<1>5. CASE \E s \in Requesters : Move(s)
  <2>1. PICK s \in Requesters : Move(s)
    BY <1>5
  <2>2. PICK t \in TeamIds, p \in TeamIds \cup {"root"} :
          /\ parent' = [parent EXCEPT ![t] = p] /\ p # "unmade"
          /\ p \in TeamIds => parent[p] # "unmade"
    BY <1>1, <2>1 DEF Move, Existing, States
  <2> QED  BY <1>3, <2>2
<1>6. CASE \E s \in Requesters, m \in TaskForceIds : FormTaskForce(s, m)
  <2>1. PICK s \in Requesters, m \in TaskForceIds : FormTaskForce(s, m)
    BY <1>6
  <2>2. Sound(request[s]) /\ FirstAdding(request[s])
    BY <2>1 DEF TeamsInv, RequestsAreSound, FormTaskForce, FirstAdding
  <2>3. PICK w \in TeamIds : parent' = [parent EXCEPT ![m] = w] /\ parent[w] # "unmade"
    BY <2>1, <2>2 DEF FormTaskForce, Sound
  <2>4. m \in TeamIds /\ w # "unmade"
    BY <1>1 DEF TeamIds, States
  <2> QED  BY <1>3, <2>3, <2>4
<1>7. CASE \E s \in Requesters : Delete(s) \/ TearDown(s)
  <2>1. PICK s \in Requesters : Delete(s) \/ TearDown(s)
    BY <1>7
  <2>2. Sound(request[s]) /\ request[s].force \in TeamIds \cup {Null}
    BY <1>1, TeamFields DEF TeamsInv, RequestsAreSound
  <2>3. PICK t \in TeamIds : parent' = [parent EXCEPT ![t] = "deleted"]
    BY <2>1, <2>2 DEF Delete, TearDown, DropTeam, Existing, Sound
  <2>4. "deleted" \notin TeamIds
    BY <1>1 DEF States
  <2> QED  BY <1>3, <2>3, <2>4
<1>8. CASE \/ \E s \in Requesters :
               \/ \E t \in TeamIds, p \in TeamIds \cup {"root"} : AskMove(s, t, p)
               \/ \E t \in TeamIds : AskDelete(s, t)
               \/ \E e \in Occasions, t \in TeamIds : AskAdd(s, e, t)
               \/ \E e \in Occasions : AskRefresh(s, e) \/ GiveBack(s, e)
               \/ Contribute(s) \/ JoinTaskForce(s) \/ GiveUp(s)
  BY <1>2, <1>8, ZenonT(60)
     DEF AskMove, AskDelete, AskAdd, AskRefresh, Ask, GiveBack, Contribute,
         JoinTaskForce, GiveUp
<1>9. CASE \/ \E t \in TeamIds, p \in People, rank \in Ranks : EditRoster(t, p, rank)
           \/ \E e \in Occasions, t \in TeamIds : CreateEvent(e, t)
           \/ \E e \in Occasions :
                EventEnds(e) \/ CancelEvent(e) \/ ProlongEvent(e) \/ KeepTeam(e)
           \/ ListDue \/ UNCHANGED teamVars
  BY <1>2, <1>9
     DEF EditRoster, CreateEvent, EventEnds, CancelEvent, ProlongEvent, SetStatus, KeepTeam,
         ListDue, teamVars
<1> QED  BY <1>4, <1>5, <1>6, <1>7, <1>8, <1>9 DEF TeamsNext

\* The task-force teams, of given events.
LEMMA TaskForcesAre ==
    ASSUME TeamsTypeOK
    PROVE  \A m : m \in TaskForceTeams <=> m # Null /\ \E e \in Occasions : occasion[e].force = m
  BY DEF TaskForceTeams

\* Copies arrive at a task force.
LEMMA JoinLendsNothing ==
    ASSUME TeamsInv, NEW s \in Requesters, JoinTaskForce(s),
           request[s].force \in TaskForceTeams,
           \A m \in TaskForceTeams : Below(m) \subseteq TaskForceTeams, NEW p
    PROVE  RightsOver(p)' = RightsOver(p)
<1> DEFINE m == request[s].force
<1>1. m \in TeamIds /\ m # Null
  BY TeamFields, TaskForcesAre DEF TeamsInv
<1>2. UNCHANGED <<parent, occasion>> /\ TaskForceTeams' = TaskForceTeams
  BY DEF JoinTaskForce, TaskForceTeams
<1>3. \A u \in TeamIds : u # m => roster'[u] = roster[u]
  BY DEF JoinTaskForce, TeamsInv, TeamsTypeOK
<1>4. Idle(parent, TaskForceTeams, m)
  BY BelowIsBelowIn DEF Idle
<1> HIDE DEF m
<1>5. RightsIn(parent, roster', TaskForceTeams, p) = RightsIn(parent, roster, TaskForceTeams, p)
  BY <1>1, <1>3, <1>4, RightsKept
<1> QED  BY <1>2, <1>5, RightsAreRightsIn, RightsAgreeNext DEF RightsAgree

\* A team is made for a task force: it was not there, and nothing was below it.
LEMMA FormLendsNothing ==
    ASSUME TeamsInv, ParentsAreMade, NEW s \in Requesters, NEW m \in TaskForceIds,
           FormTaskForce(s, m), \A n \in TaskForceTeams : Below(n) \subseteq TaskForceTeams,
           NEW p
    PROVE  RightsOver(p)' = RightsOver(p)
<1> DEFINE r == request[s]
           e == r.event
           w == r.owner
           x == [occasion[e] EXCEPT !.team = m, !.force = m, !.owner = w]
<1>1. /\ TeamsTypeOK /\ Sound(r) /\ FirstAdding(r)
      /\ parent[m] = "unmade" /\ parent' = [parent EXCEPT ![m] = w]
      /\ roster' = [roster EXCEPT ![m] = r.copies]
  BY DEF TeamsInv, RequestsAreSound, FormTaskForce, FirstAdding
<1>2. /\ e \in Occasions /\ w \in TeamIds /\ parent[w] # "unmade" /\ w # m
      /\ occasion[e].force = Null /\ w \notin States
  BY <1>1, TeamFields DEF Sound, FirstAdding, Adding
<1>3. m \in TeamIds /\ m # Null /\ m \notin States
  BY <1>1, TeamFields DEF TeamIds
<1>4. occasion' = [occasion EXCEPT ![e] = x]
  BY <1>1, <1>2, TeamFields DEF FormTaskForce
<1>5. x.force = m
  <2>1. occasion[e] \in EventRows
    BY <1>1, <1>2, TeamFields
  <2> QED  BY <2>1 DEF EventRows
<1> HIDE DEF x
<1>6. \A o \in Occasions : occasion'[o].force = IF o = e THEN m ELSE occasion[o].force
  BY <1>1, <1>2, <1>4, <1>5, TeamFields
<1>7. TaskForceTeams' \ {m} = TaskForceTeams \ {m} /\ m \in TaskForceTeams'
  BY <1>2, <1>3, <1>6 DEF TaskForceTeams
<1>8. /\ parent'[m] = w /\ \A u \in TeamIds : u # m => parent'[u] = parent[u]
      /\ roster \in [TeamIds -> Roster]
      /\ \A u \in TeamIds : u # m => roster'[u] = roster[u]
  BY <1>1, <1>2, <1>3, TeamFields DEF TeamsTypeOK
<1>9. \A c \in TeamIds : parent[c] # m /\ parent'[c] # m
  BY <1>1, <1>2, <1>3, <1>8 DEF ParentsAreMade
<1> HIDE DEF r, e, w
<1>10. BelowIn(parent, m) = {m} /\ BelowIn(parent', m) = {m}
  BY <1>3, <1>9, NothingBelowALeaf
<1>11. m \notin ExistingIn(parent)
  BY <1>1 DEF ExistingIn
<1>12. Idle(parent, TaskForceTeams, m) /\ Idle(parent', TaskForceTeams', m)
  BY <1>7, <1>10, <1>11 DEF Idle
<1>13. ASSUME NEW u \in TeamIds, u # m
       PROVE  /\ u \in ExistingIn(parent') <=> u \in ExistingIn(parent)
              /\ roster'[u] = roster[u]
              /\ BelowIn(parent', u) \ {m} = BelowIn(parent, u) \ {m}
  BY <1>3, <1>8, <1>9, <1>13, OnlyTheLeaf DEF ExistingIn
<1>14. RightsIn(parent', roster', TaskForceTeams', p)
         = RightsIn(parent, roster, TaskForceTeams, p)
  BY <1>3, <1>7, <1>12, <1>13, RightsKept
<1> QED  BY <1>14, RightsAreRightsIn, RightsAgreeNext DEF RightsAgree

\* A task force is dismantled: nothing is below it.
LEMMA TearDownLendsNothing ==
    ASSUME TeamsInv, NEW s \in Requesters, TearDown(s), NEW p
    PROVE  RightsOver(p)' = RightsOver(p)
<1> DEFINE r == request[s]
           e == r.event
           m == r.force
           w == r.owner
           x == [occasion[e] EXCEPT !.team = w, !.force = Null, !.owner = Null]
           back == [occasion EXCEPT ![e] = x]
<1>1. TeamsTypeOK /\ Sound(r) /\ r.op = "teardown"
  BY DEF TeamsInv, RequestsAreSound, TearDown
<1>2. /\ e \in Occasions /\ m \in TeamIds /\ m # Null
      /\ occasion[e].force = m /\ occasion[e] \in EventRows /\ w \in TeamIds
  BY <1>1, TeamFields DEF Sound
<1>3. back = [occasion EXCEPT ![e].team = w, ![e].force = Null, ![e].owner = Null]
  BY <1>1, <1>2, TeamFields
<1>4. /\ DropTeam(m, back, [sources EXCEPT ![e] = {}])
      /\ \A o \in Occasions : m \notin {back[o].force, back[o].owner}
  BY <1>3 DEF TearDown
<1>5. x \in EventRows /\ x.force = Null
  BY <1>2 DEF EventRows
<1> HIDE DEF x
<1>6. /\ back \in [Occasions -> EventRows] /\ back[e] = x
      /\ \A o \in Occasions : o # e => back[o] = occasion[o]
  BY <1>1, <1>2, <1>5, TeamFields
<1> HIDE DEF r, e, m, w, back
<1>7. \A o \in Occasions :
        occasion'[o].force = IF back[o].team = m THEN Null ELSE back[o].force
  BY <1>2, <1>4, <1>6, EventsWithoutTeam DEF DropTeam
<1>8. ASSUME NEW o \in Occasions
      PROVE  /\ occasion'[o].force # Null => occasion'[o].force = occasion[o].force
             /\ occasion[o].force \notin {m, Null} => occasion'[o].force = occasion[o].force
  <2>1. CASE o = e
    BY <1>2, <1>5, <1>6, <1>7, <2>1
  <2>2. CASE o # e
    <3>1. occasion[o].force # Null => occasion[o].team = occasion[o].force
      BY DEF TeamsInv, RowsAreSound
    <3> QED  BY <1>6, <1>7, <2>2, <3>1
  <2> QED  BY <2>1, <2>2
<1>9. TaskForceTeams' \ {m} = TaskForceTeams \ {m} /\ m \in TaskForceTeams
  BY <1>2, <1>8 DEF TaskForceTeams
<1>10. /\ parent' = [parent EXCEPT ![m] = "deleted"]
       /\ roster' = [roster EXCEPT ![m] = Nobody]
       /\ \A c \in TeamIds : parent[c] # m
  BY <1>4 DEF DropTeam, Children
<1>11. /\ parent'[m] = "deleted" /\ m # "deleted"
       /\ \A u \in TeamIds : u # m => parent'[u] = parent[u] /\ roster'[u] = roster[u]
  BY <1>1, <1>2, <1>10, TeamFields DEF TeamsTypeOK, States
<1>12. \A c \in TeamIds : parent[c] # m /\ parent'[c] # m
  BY <1>10, <1>11
<1>13. BelowIn(parent, m) = {m} /\ BelowIn(parent', m) = {m}
  BY <1>2, <1>12, NothingBelowALeaf
<1>14. m \notin ExistingIn(parent')
  BY <1>11 DEF ExistingIn
<1>15. Idle(parent, TaskForceTeams, m) /\ Idle(parent', TaskForceTeams', m)
  BY <1>9, <1>13, <1>14 DEF Idle
<1>16. ASSUME NEW u \in TeamIds, u # m
       PROVE  /\ u \in ExistingIn(parent') <=> u \in ExistingIn(parent)
              /\ roster'[u] = roster[u]
              /\ BelowIn(parent', u) \ {m} = BelowIn(parent, u) \ {m}
  BY <1>2, <1>11, <1>12, <1>16, OnlyTheLeaf DEF ExistingIn
<1>17. RightsIn(parent', roster', TaskForceTeams', p)
         = RightsIn(parent, roster, TaskForceTeams, p)
  BY <1>2, <1>9, <1>15, <1>16, RightsKept
<1> QED  BY <1>17, RightsAreRightsIn, RightsAgreeNext DEF RightsAgree

\* A copy or a teardown that ends is given up, or is one of these.
LEMMA HowTheyEnd ==
    ASSUME TeamsTypeOK, TeamsNext, NEW s \in Requesters,
           request[s].op \in {"copy", "teardown"}, request'[s].op = "idle"
    PROVE  \/ GiveUp(s) \/ JoinTaskForce(s) \/ TearDown(s)
           \/ \E m \in TaskForceIds : FormTaskForce(s, m)
<1>1. request \in [Requesters -> TeamRequests]
  BY DEF TeamsTypeOK
<1>2. ASSUME NEW o \in Requesters, NEW r, request' = [request EXCEPT ![o] = r]
      PROVE  o = s /\ r.op = "idle"
  BY <1>1, <1>2
<1>3. request' # request
  OBVIOUS
<1>4. ASSUME NEW o \in Requesters, request[o].op \in {"idle", "move", "delete"}
      PROVE  o # s
  BY <1>4
<1>5. PICK o \in Requesters :
        \/ \E t \in TeamIds, p \in TeamIds \cup {"root"} : AskMove(o, t, p)
        \/ \E t \in TeamIds : AskDelete(o, t)
        \/ \E e \in Occasions, t \in TeamIds : AskAdd(o, e, t)
        \/ \E e \in Occasions : AskRefresh(o, e) \/ GiveBack(o, e)
        \/ \E m \in TaskForceIds : FormTaskForce(o, m)
        \/ Move(o) \/ Delete(o) \/ Contribute(o) \/ JoinTaskForce(o)
        \/ TearDown(o) \/ GiveUp(o)
  <2>1. ~ \/ \E t \in Teams, p \in TeamIds \cup {"root"} : CreateTeam(t, p)
          \/ \E t \in TeamIds, p \in People, rank \in Ranks : EditRoster(t, p, rank)
          \/ \E e \in Occasions, t \in TeamIds : CreateEvent(e, t)
          \/ \E e \in Occasions :
               EventEnds(e) \/ CancelEvent(e) \/ ProlongEvent(e) \/ KeepTeam(e)
          \/ ListDue
    BY <1>3 DEF CreateTeam, EditRoster, CreateEvent, EventEnds, CancelEvent, ProlongEvent,
                SetStatus, KeepTeam, ListDue
  <2> QED  BY <2>1 DEF TeamsNext
<1>6. ~ \/ \E t \in TeamIds, p \in TeamIds \cup {"root"} : AskMove(o, t, p)
        \/ \E t \in TeamIds : AskDelete(o, t)
        \/ \E e \in Occasions, t \in TeamIds : AskAdd(o, e, t)
        \/ \E e \in Occasions : AskRefresh(o, e) \/ GiveBack(o, e)
  <2> SUFFICES ASSUME NEW r, request[o].op = "idle", request' = [request EXCEPT ![o] = r]
               PROVE  FALSE
    BY ZenonT(60) DEF AskMove, AskDelete, AskAdd, AskRefresh, Ask, GiveBack
  <2> QED  BY <1>2, <1>4
<1>7. ~Move(o) /\ ~Delete(o)
  BY <1>2, <1>4 DEF Move, Delete, Done
<1>8. ~Contribute(o)
  <2> SUFFICES ASSUME Contribute(o) PROVE FALSE
    OBVIOUS
  <2>1. request[o] \in TeamRequests
    BY <1>1
  <2>2. PICK c, h : request' = [request EXCEPT ![o].op = "copy", ![o].copies = c, ![o].held = h]
    BY DEF Contribute
  <2>3. request'[o].op = "copy"
    BY <1>1, <2>1, <2>2 DEF TeamRequests
  <2>4. \A u \in Requesters : u # o => request'[u] = request[u]
    BY <1>1, <2>2
  <2> QED  BY <2>3, <2>4
<1>9. ASSUME Done(o) PROVE o = s
  BY <1>2, <1>9 DEF Done
<1> QED  BY <1>5, <1>6, <1>7, <1>8, <1>9 DEF FormTaskForce, JoinTaskForce, TearDown, GiveUp

\* "so a collaboration cannot hand you anybody's contact details, notes,
\* workload or invite link" (add_collaborating_team, task_force.py): however
\* requests interleave, copies and teardowns leave everybody's rights over
\* everybody's data (actors.py, permissions.py) as they were.
THEOREM NobodyIsLent == TeamsSpec => CollaborationLendsNoPeople
<1> DEFINE Lends ==
      \A s \in Requesters :
         /\ request[s].op \in {"copy", "teardown"} /\ request'[s].op = "idle"
         /\ request[s].force \in TaskForceTeams \cup {Null}
         /\ \A m \in TaskForceTeams : Below(m) \subseteq TaskForceTeams
         => \A p \in People : RightsOver(p)' = RightsOver(p)
<1>1. TeamsInit => ParentsAreMade
  BY ParentsInit
<1>2. TeamsInv /\ TeamsInv' /\ ParentsAreMade /\ [TeamsNext]_teamVars => ParentsAreMade'
  BY ParentsStep
<1>3. ASSUME TeamsInv, ParentsAreMade, [TeamsNext]_teamVars PROVE Lends
  <2> SUFFICES ASSUME NEW s \in Requesters, NEW p \in People,
                      request[s].op \in {"copy", "teardown"}, request'[s].op = "idle",
                      request[s].force \in TaskForceTeams \cup {Null},
                      \A m \in TaskForceTeams : Below(m) \subseteq TaskForceTeams
               PROVE  RightsOver(p)' = RightsOver(p)
    OBVIOUS
  <2>1. TeamsNext
    BY <1>3 DEF teamVars
  <2>2. CASE GiveUp(s)
    <3>1. UNCHANGED <<parent, roster, occasion>> /\ TaskForceTeams' = TaskForceTeams
      BY <2>2 DEF GiveUp, TaskForceTeams
    <3> QED  BY <3>1, RightsAreRightsIn, RightsAgreeNext DEF RightsAgree
  <2>3. CASE JoinTaskForce(s)
    <3>1. request[s].force \in TaskForceTeams
      BY <2>3 DEF JoinTaskForce
    <3> QED  BY <1>3, <2>3, <3>1, JoinLendsNothing
  <2>4. CASE TearDown(s)
    BY <1>3, <2>4, TearDownLendsNothing
  <2>5. CASE \E m \in TaskForceIds : FormTaskForce(s, m)
    BY <1>3, <2>5, FormLendsNothing
  <2> QED  BY <1>3, <2>1, <2>2, <2>3, <2>4, <2>5, HowTheyEnd DEF TeamsInv
<1>4. TeamsInv /\ ParentsAreMade /\ [TeamsNext]_teamVars => [Lends]_teamVars
  BY <1>3
<1> QED  BY <1>1, <1>2, <1>4, TeamsInvariance, PTL DEF TeamsSpec, CollaborationLendsNoPeople
=============================================================================
