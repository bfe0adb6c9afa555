----------------------------- MODULE TaskForces -----------------------------
(***************************************************************************)
(* The team tree (services/teams.py), the memberships, and the task forces *)
(* that several teams form to staff one event (services/task_force.py,     *)
(* jobs/task_force_cleanup.py), with the rights that teams and task forces *)
(* give (actors.py, permissions.py).                                       *)
(*                                                                         *)
(* A request runs in one READ COMMITTED transaction: its first step reads  *)
(* and checks, its last writes and commits, and in between it holds what   *)
(* it read in request[s].  The last step tests only what the database      *)
(* tests: foreign keys and what they cascade to, unique keys, CHECKs, rows *)
(* that are gone, row locks.                                               *)
(*                                                                         *)
(* A role is its rank, so that the strongest of several is the least.      *)
(* Names of teams are all distinct.  Who asks is left out, except in the   *)
(* rights: any request may be made by an admin.                            *)
(***************************************************************************)
EXTENDS Naturals, FiniteSets

CONSTANTS
    Teams,          \* ministries
    Founded,        \* the ministries there are at first, all at the root
    TaskForceIds,   \* bound: task-force teams ever made
    Occasions,      \* events
    People,
    FirstTeam, FirstRoles,  \* the event and the roster there are at first
    Requesters,     \* requests in flight at once
    MaxRequests,    \* bound: requests ever made
    Null

Leader == 0     \* and second: nothing here tells them apart
Core == 1
Member == 2
Out == 3        \* not on the team

Ranks == Leader..Out

Roster == [People -> Ranks]

TeamIds == Teams \cup TaskForceIds

ASSUME TaskForcesAssumption ==
    /\ IsFiniteSet(TeamIds) /\ Teams \cap TaskForceIds = {}
    /\ TeamIds \cap {"root", "unmade", "deleted"} = {}
    /\ Founded \subseteq Teams /\ FirstTeam \in Founded
    /\ FirstRoles \in [Teams -> Roster]
    /\ Occasions \subseteq Nat /\ 1 \in Occasions
    /\ MaxRequests \in Nat
    /\ Null \notin TeamIds \cup Occasions

VARIABLES
    parent,     \* parent_team_id; "root" for none, "unmade" and "deleted"
    roster,     \* membership: of each team, who is on it and in which role
    occasion,   \* event rows
    sources,    \* event_task_force_source
    request,    \* what each session is doing
    due,        \* the events the cleanup job has listed and not come to yet
    budget      \* requests still to be made

teamVars == <<parent, roster, occasion, sources, request, due, budget>>

EventRows ==
    [st : {"none", "open", "ended", "cancelled", "deleted"},
     team : TeamIds \cup {Null},
     force : TeamIds \cup {Null},       \* task_force_team_id
     owner : TeamIds \cup {Null}]       \* owner_team_id

\* force, owner: the event as the request loaded it.  copies: the roster it
\* copies, and `held` the one it was compared with; Null until they are read.
TeamRequests ==
    [op : {"idle", "move", "delete", "add", "copy", "teardown"},
     team : TeamIds \cup {Null}, under : TeamIds \cup {Null, "root"},
     event : Occasions \cup {Null},
     force : TeamIds \cup {Null}, owner : TeamIds \cup {Null},
     copies : Roster \cup {Null}, held : Roster \cup {Null}]

AtRest ==
    [op |-> "idle", team |-> Null, under |-> Null, event |-> Null,
     force |-> Null, owner |-> Null, copies |-> Null, held |-> Null]

TeamsTypeOK ==
    /\ parent \in [TeamIds -> TeamIds \cup {"root", "unmade", "deleted"}]
    /\ roster \in [TeamIds -> Roster]
    /\ occasion \in [Occasions -> EventRows]
    /\ sources \in [Occasions -> SUBSET TeamIds]
    /\ request \in [Requesters -> TeamRequests]
    /\ due \subseteq Occasions
    /\ budget \in 0..MaxRequests

Nobody == [p \in People |-> Out]

NoEvent == [st |-> "none", team |-> Null, force |-> Null, owner |-> Null]

TeamsInit ==
    /\ parent = [t \in TeamIds |-> IF t \in Founded THEN "root" ELSE "unmade"]
    /\ roster = [t \in TeamIds |-> IF t \in Founded THEN FirstRoles[t] ELSE Nobody]
    /\ occasion = [e \in Occasions |->
                     IF e = 1 THEN [NoEvent EXCEPT !.st = "open", !.team = FirstTeam]
                     ELSE NoEvent]
    /\ sources = [e \in Occasions |-> {}]
    /\ request = [s \in Requesters |-> AtRest]
    /\ due = {}
    /\ budget = MaxRequests

-----------------------------------------------------------------------------
(* The tree.                                                               *)

Existing == {t \in TeamIds : parent[t] \notin {"unmade", "deleted"}}

Children(t) == {c \in TeamIds : parent[c] = t}

\* The team and all below it; in a cycle, all of the cycle.
Below(t) ==
    LET Reach[n \in Nat] ==
          IF n = 0 THEN {t}
          ELSE LET r == Reach[n - 1] IN r \cup {c \in TeamIds : parent[c] \in r}
    IN Reach[Cardinality(TeamIds) - 1]

\* Teams that are the task force of an event.
TaskForceTeams == {occasion[e].force : e \in Occasions} \ {Null}

-----------------------------------------------------------------------------
(* The rights of a person with an account (load_actor).                    *)

ManagedBy(p) == UNION {Below(t) : t \in {u \in Existing : roster[u][p] = Leader}}

\* Broken: who leads a task force leads the people it borrowed.
PeopleOfManaged(p) == ManagedBy(p)

PeopleOf(p) == ManagedBy(p) \ TaskForceTeams

FullViewOf(p) ==
    (ManagedBy(p) \cup UNION {Below(t) : t \in {u \in Existing : roster[u][p] = Core}})
      \ TaskForceTeams

TeamsOf(p) == {t \in Existing : roster[t][p] # Out}

\* can_edit_volunteer and can_view_volunteer: oneself, or a shared team.
RightsOver(p) ==
    LET people == PeopleOf(p)
        full == FullViewOf(p)
    IN
    [edit |-> {v \in People : v = p \/ people \cap TeamsOf(v) # {}},
     view |-> {v \in People : v = p \/ full \cap TeamsOf(v) # {}}]

-----------------------------------------------------------------------------
(* Transactions.                                                           *)

Ask(s, r) ==
    /\ request[s].op = "idle"
    /\ budget > 0
    /\ request' = [request EXCEPT ![s] = r]
    /\ budget' = budget - 1
    /\ UNCHANGED <<parent, roster, occasion, sources, due>>

Done(s) == request' = [request EXCEPT ![s] = AtRest]

\* Refused, or a violated constraint, a deadlock, a lost connection.
GiveUp(s) ==
    /\ request[s].op # "idle"
    /\ Done(s)
    /\ UNCHANGED <<parent, roster, occasion, sources, due, budget>>

\* An add that has written, and not committed.  The first one updates the
\* event's unique task_force_team_id, which locks the row against everything.
Adding(r) == r.op = "copy" /\ r.team # Null

\* The event row is locked against any update, and against a new reference.
EventLocked(s, e) ==
    \E o \in Requesters \ {s} :
      LET r == request[o] IN
      r.event = e /\ (r.op = "teardown" \/ (Adding(r) /\ r.force = Null))

\* The event row is referred to, or locked: its key cannot be updated.
EventReferred(s, e) ==
    EventLocked(s, e) \/ \E o \in Requesters \ {s} :
                           request[o].event = e /\ Adding(request[o])

\* Rows refer to the team that are not committed: it cannot be deleted, nor
\* moved (parent_team_id is in a unique key).
TeamReferred(s, t) ==
    \E o \in Requesters \ {s} :
      LET r == request[o] IN
      \/ r.op = "teardown" /\ r.owner = t
      \/ Adding(r) /\ (r.team = t \/ (r.force = Null /\ r.owner = t))

-----------------------------------------------------------------------------
(* Teams: create, update (of the parent) and delete.                       *)

CreateTeam(t, p) ==
    /\ budget > 0
    /\ t \in Teams /\ parent[t] = "unmade"
    /\ p \in Existing \cup {"root"}
    /\ parent' = [parent EXCEPT ![t] = p]
    /\ budget' = budget - 1
    /\ UNCHANGED <<roster, occasion, sources, request, due>>

\* _check_no_cycle reads the tree as it is now.
AskMove(s, t, p) ==
    /\ t \in Existing
    /\ p \in Existing \cup {"root"} /\ p # parent[t]
    /\ p \notin Below(t)
    /\ Ask(s, [AtRest EXCEPT !.op = "move", !.team = t, !.under = p])

Move(s) ==
    LET r == request[s] IN
    /\ r.op = "move"
    /\ r.team \in Existing /\ r.under \in Existing \cup {"root"}
    /\ ~TeamReferred(s, r.team)
    /\ parent' = [parent EXCEPT ![r.team] = r.under]
    /\ Done(s)
    /\ UNCHANGED <<roster, occasion, sources, due, budget>>

\* A team of a live task force is refused.
NotLive(t) == \A e \in Occasions : t \notin {occasion[e].force, occasion[e].owner}

AskDelete(s, t) ==
    /\ t \in Existing
    /\ NotLive(t)
    /\ Ask(s, [AtRest EXCEPT !.op = "delete", !.team = t])

\* What the foreign keys make of the events, and of the rows of theirs, when
\* team t is deleted: its own go with it, others lose the pointer.
EventsWithout(t, events) ==
    [e \in Occasions |->
       LET row == events[e] IN
       IF row.team = t THEN [NoEvent EXCEPT !.st = "deleted"]
       ELSE [row EXCEPT !.force = IF @ = t THEN Null ELSE @,
                        !.owner = IF @ = t THEN Null ELSE @]]

\* ON DELETE RESTRICT of the parent, CASCADE and SET NULL of the others.
DropTeam(t, events, contributors) ==
    /\ Children(t) = {}
    /\ parent' = [parent EXCEPT ![t] = "deleted"]
    /\ roster' = [roster EXCEPT ![t] = Nobody]
    /\ occasion' = EventsWithout(t, events)
    /\ sources' = [e \in Occasions |-> IF events[e].team = t THEN {}
                                       ELSE contributors[e] \ {t}]

Delete(s) ==
    LET t == request[s].team IN
    /\ request[s].op = "delete"
    /\ t \in Existing
    /\ ~TeamReferred(s, t)
    /\ \A e \in Occasions :
         EventReferred(s, e) =>
           t \notin {occasion[e].team, occasion[e].force, occasion[e].owner}
    /\ DropTeam(t, occasion, sources)
    /\ Done(s)
    /\ UNCHANGED <<due, budget>>

-----------------------------------------------------------------------------
(* Memberships: assign, set_role, remove.                                  *)

EditRoster(t, p, rank) ==
    /\ t \in Existing
    /\ rank # roster[t][p]
    /\ budget > 0
    /\ roster' = [roster EXCEPT ![t][p] = rank]
    /\ budget' = budget - 1
    /\ UNCHANGED <<parent, occasion, sources, request, due>>

-----------------------------------------------------------------------------
(* The events, as far as they matter here (services/events.py).            *)

SetStatus(e, from, to) ==
    /\ occasion[e].st = from
    /\ occasion' = [occasion EXCEPT ![e].st = to]
    /\ UNCHANGED <<parent, roster, sources, request, due, budget>>

\* On any team, a task force's included.
CreateEvent(e, t) ==
    /\ budget > 0
    /\ occasion[e].st = "none"
    /\ t \in Existing
    /\ budget' = budget - 1
    /\ occasion' = [occasion EXCEPT ![e] = [NoEvent EXCEPT !.st = "open", !.team = t]]
    /\ UNCHANGED <<parent, roster, sources, request, due>>

EventEnds(e) == SetStatus(e, "open", "ended")

CancelEvent(e) == ~EventLocked(Null, e) /\ SetStatus(e, "open", "cancelled")

\* An ended event may be given a later end.
ProlongEvent(e) == ~EventLocked(Null, e) /\ SetStatus(e, "ended", "open")

-----------------------------------------------------------------------------
(* Task forces.                                                            *)

\* add_collaborating_team, up to its first write.
AskAdd(s, e, t) ==
    LET row == occasion[e] IN
    /\ row.st = "open"
    /\ t \in Existing
    /\ IF row.force = Null THEN t # row.team
       ELSE t # row.force /\ t \notin sources[e]
    /\ Ask(s, [AtRest EXCEPT !.op = "add", !.team = t, !.event = e,
                             !.force = row.force,
                             !.owner = IF row.force = Null THEN row.team ELSE row.owner])

StrongestIn(teams) ==
    [p \in People |->
       CHOOSE k \in {roster[t][p] : t \in teams} \cup {Out} :
         \A t \in teams : k <= roster[t][p]]

\* Broken: the source rows have no key.
ContributeTwice(s) ==
    LET r == request[s]
        news == {r.team} \cup IF r.force = Null THEN {r.owner} ELSE {}
    IN
    /\ r.op = "add"
    /\ occasion[r.event].st # "deleted" /\ news \subseteq Existing
    /\ IF r.force = Null THEN ~EventReferred(s, r.event) ELSE ~EventLocked(s, r.event)
    /\ request' = [request EXCEPT
                     ![s].op = "copy",
                     ![s].copies = StrongestIn(sources[r.event] \cup news),
                     ![s].held = IF r.force = Null THEN Nobody ELSE roster[r.force]]
    /\ UNCHANGED <<parent, roster, occasion, sources, due, budget>>

\* The source rows are written: each event and team at most once.  Then
\* refresh_rosters reads the rosters of all sources.
Contribute(s) ==
    LET r == request[s]
        news == {r.team} \cup IF r.force = Null THEN {r.owner} ELSE {}
    IN
    /\ r.op = "add"
    /\ occasion[r.event].st # "deleted" /\ news \subseteq Existing
    /\ IF r.force = Null THEN ~EventReferred(s, r.event) ELSE ~EventLocked(s, r.event)
    /\ news \cap sources[r.event] = {}
    /\ request' = [request EXCEPT
                     ![s].op = "copy",
                     ![s].copies = StrongestIn(sources[r.event] \cup news),
                     ![s].held = IF r.force = Null THEN Nobody ELSE roster[r.force]]
    /\ UNCHANGED <<parent, roster, occasion, sources, due, budget>>

AskRefresh(s, e) ==
    LET m == occasion[e].force IN
    /\ m # Null
    /\ Ask(s, [AtRest EXCEPT !.op = "copy", !.event = e, !.force = m,
                             !.copies = StrongestIn(sources[e]), !.held = roster[m]])

\* Who is to be added, or raised.
Raised(r) == {p \in People : r.copies[p] < r.held[p]}

\* The first collaborator: the task-force team is made, under the owner.
FormTaskForce(s, m) ==
    LET r == request[s]
        e == r.event
    IN
    /\ Adding(r) /\ r.force = Null
    /\ parent[m] = "unmade"
    /\ m = CHOOSE n \in TaskForceIds : parent[n] = "unmade"
    /\ parent' = [parent EXCEPT ![m] = r.owner]
    /\ occasion' = [occasion EXCEPT ![e].team = m, ![e].force = m, ![e].owner = r.owner]
    /\ sources' = [sources EXCEPT ![e] = @ \cup {r.owner, r.team}]
    /\ roster' = [roster EXCEPT ![m] = r.copies]
    /\ Done(s)
    /\ UNCHANGED <<due, budget>>

\* A later collaborator, or a refresh.  An INSERT meets the unique key, an
\* UPDATE a row that may be gone.
JoinTaskForce(s) ==
    LET r == request[s] IN
    /\ r.op = "copy" /\ r.force # Null
    /\ r.force \in Existing \/ (r.team = Null /\ Raised(r) = {})
    /\ \A p \in Raised(r) : r.held[p] = Out <=> roster[r.force][p] = Out
    /\ roster' = [roster EXCEPT
                    ![r.force] = [p \in People |->
                                    IF p \in Raised(r) THEN r.copies[p] ELSE @[p]]]
    /\ sources' = IF r.team = Null THEN sources
                  ELSE [sources EXCEPT ![r.event] = @ \cup {r.team}]
    /\ Done(s)
    /\ UNCHANGED <<parent, occasion, due, budget>>

-----------------------------------------------------------------------------
(* The cleanup job.                                                        *)

ListDue ==
    /\ due = {}
    /\ due' = {e \in Occasions : /\ occasion[e].force # Null
                                 /\ occasion[e].st \in {"ended", "cancelled"}}
    /\ UNCHANGED <<parent, roster, occasion, sources, request, budget>>

\* The job's own transaction for the event; its lock keeps runs apart.
\* Without an owner to give the event back to, the team stops being a task
\* force and stays.
KeepTeam(e) ==
    /\ e \in due
    /\ due' = due \ {e}
    /\ occasion[e].force # Null /\ occasion[e].owner = Null
    /\ ~EventReferred(Null, e)
    /\ occasion' = [occasion EXCEPT ![e].force = Null]
    /\ UNCHANGED <<parent, roster, sources, request, budget>>

\* Otherwise the event is given back, uncommitted.
GiveBack(s, e) ==
    /\ request[s].op = "idle"
    /\ \A o \in Requesters : request[o].op # "teardown"
    /\ e \in due
    /\ due' = due \ {e}
    /\ occasion[e].force # Null /\ occasion[e].owner # Null
    /\ ~EventReferred(s, e)
    /\ request' = [request EXCEPT ![s] =
                     [AtRest EXCEPT !.op = "teardown", !.event = e,
                                    !.force = occasion[e].force,
                                    !.owner = occasion[e].owner]]
    /\ UNCHANGED <<parent, roster, occasion, sources, budget>>

\* Broken: the team is let go of before the event is given back.
TearDownFirst(s) ==
    LET r == request[s]
        back == [occasion EXCEPT ![r.event].force = Null, ![r.event].owner = Null]
    IN
    /\ r.op = "teardown"
    /\ \A e \in Occasions : r.force \notin {back[e].force, back[e].owner}
    /\ ~TeamReferred(s, r.force)
    /\ \A e \in Occasions : EventReferred(s, e) => occasion[e].team # r.force
    /\ DropTeam(r.force, back, [sources EXCEPT ![r.event] = {}])
    /\ Done(s)
    /\ UNCHANGED <<due, budget>>

\* And the team is deleted as any team is, with what else was planned on it;
\* refused while it owns another task force.
TearDown(s) ==
    LET r == request[s]
        back == [occasion EXCEPT ![r.event].team = r.owner,
                                 ![r.event].force = Null, ![r.event].owner = Null]
    IN
    /\ r.op = "teardown"
    /\ \A e \in Occasions : r.force \notin {back[e].force, back[e].owner}
    /\ ~TeamReferred(s, r.force)
    /\ \A e \in Occasions : EventReferred(s, e) => occasion[e].team # r.force
    /\ DropTeam(r.force, back, [sources EXCEPT ![r.event] = {}])
    /\ Done(s)
    /\ UNCHANGED <<due, budget>>

TeamsNext ==
    \/ \E s \in Requesters :
         \/ \E t \in TeamIds, p \in TeamIds \cup {"root"} : AskMove(s, t, p)
         \/ \E t \in TeamIds : AskDelete(s, t)
         \/ \E e \in Occasions, t \in TeamIds : AskAdd(s, e, t)
         \/ \E e \in Occasions : AskRefresh(s, e) \/ GiveBack(s, e)
         \/ \E m \in TaskForceIds : FormTaskForce(s, m)
         \/ Move(s) \/ Delete(s) \/ Contribute(s) \/ JoinTaskForce(s)
         \/ TearDown(s) \/ GiveUp(s)
    \/ \E t \in Teams, p \in TeamIds \cup {"root"} : CreateTeam(t, p)
    \/ \E t \in TeamIds, p \in People, rank \in Ranks : EditRoster(t, p, rank)
    \/ \E e \in Occasions, t \in TeamIds : CreateEvent(e, t)
    \/ \E e \in Occasions :
         EventEnds(e) \/ CancelEvent(e) \/ ProlongEvent(e) \/ KeepTeam(e)
    \/ ListDue

TeamsSpec == TeamsInit /\ [][TeamsNext]_teamVars

-----------------------------------------------------------------------------
(* Properties.                                                             *)

\* An event does not go while a task force staffs it, though the event is on
\* the very team that is deleted at the end ("the teardown order is
\* load-bearing", task_force.py), whoever deletes teams meanwhile.
TaskForceEventsSurvive ==
    [][\A e \in Occasions :
         occasion[e].force # Null => occasion'[e].st # "deleted"]_teamVars

\* A task-force team that exists has its event: no race of two first
\* collaborators, and no deletion, leaves one behind that no teardown finds.
TaskForcesHaveTheirEvent ==
    \A m \in TaskForceIds \cap Existing :
      \E e \in Occasions : m \in {occasion[e].team, occasion[e].owner}

\* No team is above itself ("Cycles cannot occur in live data", teams.py, on
\* the word of _check_no_cycle).
NoTeamAboveItself ==
    \A t \in Existing : \A c \in Children(t) : t \notin Below(c)

\* Whose team is taken along lends nobody anything but the event: forming,
\* joining, refreshing and dismantling a task force changes nobody's rights
\* over anybody's data (permissions.py people_team_ids), as long as no
\* ministry has been put below a task force, and the team has not stopped
\* being one (KeepTeam) before its copies arrive.
CollaborationLendsNoPeople ==
    [][\A s \in Requesters :
         /\ request[s].op \in {"copy", "teardown"} /\ request'[s].op = "idle"
         /\ request[s].force \in TaskForceTeams \cup {Null}
         /\ \A m \in TaskForceTeams : Below(m) \subseteq TaskForceTeams
         => \A p \in People : RightsOver(p)' = RightsOver(p)]_teamVars
=============================================================================
