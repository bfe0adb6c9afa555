# Verification of VolunteerDB in TLA+

VolunteerDB keeps a parish's volunteers, the ministries (teams) they serve on, the
events they staff and the seats they are elected to. This directory holds TLA+
modules of its core logic, the TLC runs that check them and proofs TLAPS checks.
Paths below are relative to `src/volunteerdb/` in the repository.

## 1. The system

One Python process runs a NiceGUI front end and a FastAPI JSON API on one asyncio
event loop, over PostgreSQL. Both front doors do the same thing: open a transaction
(`db.transaction`), call one service function, commit, and mail afterwards. A
returned refusal or an exception rolls the transaction back. The isolation level is
PostgreSQL's default, READ COMMITTED: **two requests interleave at every `await` on
the database**, each statement sees what has committed by then, and nothing re-checks
what was read earlier. The ORM's identity map adds to that: a row loaded once keeps
the attributes it was loaded with until the transaction ends, even through a later
`SELECT ... FOR UPDATE`. Nightly jobs run on the same loop, from a scheduler that
ticks once a minute.

What stands between two overlapping requests is therefore only what the database
enforces when the writing statement runs: unique indexes (some partial), CHECKs,
foreign keys with their cascades, guarded UPDATEs (`... WHERE status = 'open'`),
upserts, and one row lock (`events._join_slot`). Which rules rest on one of these and
which rest on a check made earlier is the main question this project asks.

### Components

| Component | State | Operations | Interacts with | What makes it correct |
|---|---|---|---|---|
| Events (`services/events.py`) | event, slots, assignments, substitution calls, notices on record | create/update/cancel an event; add/update/delete a slot; sign up, assign, withdraw; request, claim, withdraw a substitution call; hand a slot over; availability answers; attendance | teams (membership gates taking part), notices (stamps), calendar mirror | nobody twice on an event; places never oversold; a call resolved once, and not left open for a slot that changed hands; people are told |
| Elections (`services/elections.py`) | proposals, candidates, voting roll, ballots | open, move deadlines, nominate, edit the roll, vote, appoint, cancel, new round | memberships (an appointment writes one), STAR count, proposal digest | one open proposal per seat; candidates and roll frozen under ballots; the tally shown is final; one decision |
| STAR count (`star.py`) | none (pure) | `star_tally` | elections | one winner or a reported tie, never decided by ids |
| Notices (`jobs/event_reminders.py`, `jobs/proposal_digest.py`, `jobs/__init__.py`) | `notification` rows | read, plan, send and stamp per person | events, elections, mailer | each person is told once per stage, eventually |
| Scheduler (`scheduler.py`) | per-job attempts, last success, alert flag; `job_run` rows; an advisory lock | tick, run a job, record, reload at start | jobs, mailer | a nightly job succeeds once a day or is retried within limits; one alert a day |
| Accounts (`services/users.py`, `auth.py`) | password, invitation, one-time code and attempts, staged address, link to a volunteer | create, invite, provision, redeem, sign in, code login, change of address, reset, switch off, link | volunteers (one person, one address) | a code works once, guesses are bounded; addresses agree |
| Teams (`services/teams.py`, `team_cache.py`) | parent edges, memo of the tree | create, move, rename, delete | permissions, task forces | the tree has no cycle; no stale memo |
| Task forces (`services/task_force.py`, `jobs/task_force_cleanup.py`) | meta team, owner, sources | add a collaborating team, refresh, teardown | events, teams, memberships | the event always belongs to a team; the owner gets it back |
| Memberships (`services/memberships.py`) | volunteer, team, role | assign, set role, remove | elections, task forces | one role per person and team |
| Permissions, actors (`permissions.py`, `actors.py`) | an actor read once per request | - | every service | rights follow memberships |
| Throttle, cells, effects, policy (`throttle.py`, `cells.py`, ...) | hits per key, in memory | hit, blocked, retry_after, prune | login | a limit per window, an exact wait |
| Mail and quota (`services/mail*.py`, `mailers.py`) | messages per day | send, count, project | jobs, services | counts match sends |
| Calendar mirror (`jobs/calendar_sync.py`, `services/gcal.py`) | google id and fingerprint per event | insert, patch, delete, collect orphans | Google Calendar | the calendar converges to the events, up to entries no stamp recorded |
| Roster sheets (`jobs/roster_sync.py`, `services/roster_sheets.py`, `sheets/`) | link between a team and its sheet | export, import, nightly sync | Google Sheets, volunteers | a re-import changes nothing |
| Volunteers, workload, stats, history, pages, custom fields, UI, API, deployment | records and content | create, read, update, delete; queries; formatting | all | (mostly reads and formatting) |

### Hard behaviours

* Overlapping requests, in every service: a check made on one read and relied on at a
  later write.
* Rows that move: an assignment changes hands (claim, hand-over) while other requests
  hold its id and its old holder; notices are keyed by assignment *and* person.
* Midnight: an election's phase is computed from the day the request began, so it may
  end under a ballot being written.
* Long legal sequences: deadlines moved back and forth, a slot handed away and back.
* Ties in the count.
* Jobs: mail sent before it is stamped, crashes between two steps, a run by hand
  beside the scheduler's.

`PROJECT.json` lists each of these as a hazard at its line of code, with the
properties that would catch it.

## 2. Plan and where it stands

Done, in order of importance:

1. **EventRoster** (with **SubCall**, the abstract promise about a substitution call, and
   **EventRosterProofs**).
2. **Elections** (with **ElectionsProofs**).
3. **StarTally**, the count an election feeds (proofs in **ElectionsProofs**).
4. **EventReminders**, the event digest over a roster that changes between read, mail
   and stamp.
5. **JobScheduler**: ticks, attempts, restarts, the advisory lock; and **NightlyNotices**,
   which composes 4 and 5 and is shown to implement 5.
6. **SignIn** (with **SignInProofs**): one-time codes and passwords under overlapping tries,
   with the throttle.
7. **TaskForces**: the team tree with its cascades, and task forces in it.
8. **CalendarMirror**, **RosterSheets**: the two reconciliations with Google.
9. **Accounts**: invitations, provisioning, links to people, passwords, codes, tokens and
   the staged change of address.
10. **EventSeries** (proofs in **EventRosterProofs**): signing up for a weekly series, row
    after row under the locks it gathers.

Left, in the order that seems most worth it:

1. EventRoster: availability answers, attendance, deletion of an event, volunteers deleted
   and memberships removed under a request.
2. The proposal digest, whose "voting is open" notice has a deadline of its own.
3. The upload of a `.csv` roster, which is an import without a sync around it.
4. Accounts with two requests in flight: a run of its own, for what an overlap leaves of
   `CredentialsMatch` (see *Observed*, in 4).

## 3. The modules

### How a request is modelled

`txn[s]` is the request session `s` is running. A handler becomes two steps. `Begin...`
is everything up to the first write: it reads, applies the handler's guards, and
remembers in `txn[s]` what later statements use. The second step, named after the
handler, is its writes and the commit, in one step: rows written are invisible to
others until the commit, and what the code reads *after* its first write (or in the
statement that writes) is read there. Where another request may come between two writes and
make a difference, they are steps of their own (`CloseCall` and `HandOver`). Its guard has only what is tested there: row
existence, unique indexes, CHECKs, guarded UPDATEs, locks. `RollBack` may end any
request, which stands for refusals that change nothing, constraint violations,
deadlocks and lost connections. A refusal in the first step is the absence of the step.
The other modules that do so name the pieces for what they rule on: `ruling`,
`BeginRuling`, `CommitRuling` and `GiveUpRuling` in Elections, `desk`, `BeginTables`,
`CommitTables` and `GiveUp` in Accounts.

Three points need care and were taken from the code and the ORM:

* an attribute that is not changed is not written: setting a slot to the capacity it has,
  or a deadline to the day it has, emits no UPDATE (`BeginUpdateSlot`, `BeginUpdate`);
* an UPDATE by primary key of a row that is gone is an error and rolls back, a DELETE of
  one is not;
* `assign` has already loaded the slot when `_join_slot` locks it, so the capacity it
  compares with is the older one (`LockForAssign`); `sign_up` first reads it locked.

Serial ids are never reused. Two requests that would insert at the same time get
whichever ids; the model gives the next unused one.

### EventRoster

The roster of **one** event: `event` (open, past or cancelled), `slots`, `asgs`
(event_assignment), `subs` (event_sub_request), `notified` (the `event_scheduled` rows of
notification). Deleted rows stay in the tables, marked: ids are not reused, and other
requests may still hold them. Cascades are in `DeleteAssignments` (calls and notices of
an assignment) and `DeleteSlot`. The row lock of `_join_slot` is held by a request whose
operation is `sign_up` or `assign_locked`; statements that need the row wait
(`Unlocked`). `cancel_sub` is not stopped by the event's end or cancellation, as in the
code.

`substitute` is three steps. Its UPDATE of the open call (`CloseCall`) and its move of the
assignment, written at the flush (`HandOver`), are two statements. A call the UPDATE found
is locked and cancelled for this request alone until the commit: to others it still reads
as open, and whoever would write it waits (`Closing`, `Writable`). Where the UPDATE finds no
call it locks nothing, and the old holder may ask for a substitute before the slot moves;
that call survives the move. A claim of it then takes the slot from the new holder, who is
not the asker `claim_sub` has loaded and mails. `CallEndsWithItsHolder` says that this is the
one way a call outlives its holder's time on the slot. (The docstring, `services/events.py`
1621-1622, says "any open substitute request on the assignment is cancelled in the same
transaction", and `docs/explanation/events.md:121` likewise; of a call opened after the
UPDATE this is not so.)

Which volunteers are members of the team, and which accounts manage it, are constants.
`direct` is `NotifyMode.direct`: the caller mails the incoming person after the commit,
and the notice is recorded at once.

`SubCall` is what the service promises of a call: opened once, resolved at most once, by
one claimant or by being cancelled, for good. `CallsResolveOnce` is its specification
under the mapping that forgets everything but a call's status and claimant.

### EventSeries

`sign_up` and `sign_up_series` over all the weeks of one series, statement by statement,
since this is the one request of the system that gathers row locks. `starts` is when each
week's event begins, `open` the weeks not cancelled, `labels` the name of each slot,
`serving` the committed assignments and `signing[s]` the request of session `s`: the slot
it is at, the rows of its sweep still to come (`rest`) and what it has joined (`joined`).
`LocksSlot`, `Checks` and `Inserts` are `_join_slot`; `Sweeps` is the query for the later
weeks, after the first one was joined, and `GoesOn` takes its rows in order of start and id.

What the database keeps until a request ends is derived, not stored: the lock of every slot
it joined (`Locks`), and its place in `uq_event_assignment`, on which another request's
INSERT of the same person in the same week waits (`HasInserted`). A refused week rolls back
to its savepoint, which releases that week's lock; a duplicate that another request
committed between check and INSERT is an exception instead, and ends the whole request
(`Inserts`). Meanwhile events are moved or cancelled, slots renamed or deleted, and
assignments withdrawn. `moved` is a history variable: an event was given another time while
a request was under way.

### Elections

The proposals of **one** team. `today` is the parish day. A proposal row has its seat,
both deadlines, status and appointed candidate; candidates and voters are named by their
volunteer, since the writing step re-reads those rows. `ballots[p]` gives each (voter,
candidate) pair a score or NULL. `Update` writes only the deadlines that differ from
what was read, so two updates may combine; `ck_proposal_deadlines` is what is left to
stop a wrong combination. `Cancel` writes the status and leaves the appointed candidate.
`NewRound` closes one round and opens the next in one transaction. `role` is the
team's memberships, which `Appoint` writes and the next roll is built from.

Requests start only for people who may make them; rights themselves are not modelled.

### StarTally

`star_tally` and its helpers as operators; the module's only action adds one more ballot,
so that every small profile of ballots is a state. `ProfileView` identifies profiles that
differ in the order of ballots.

The code's loop over the totals, highest first, is `Finalists`, which goes through the two
tiers it can look at: every tier has somebody in it (`Leaders`), who takes a seat or leaves
the seat contested. The code's lists, sorted by id, are sets here, except where the order
decides something: `Places` ranks a contested tier as `_fill_from_tier` sorts it, ids and
all, and that they make no difference is a property.

### JobScheduler

`scheduler.py`, one step per statement that others can come between. `clock` is the
parish clock in slots of a day, `mem` is `Scheduler.state`, `rec` the `job_run` rows,
`loop` where the loop's coroutine stands, `lock` who holds a job's advisory lock. Dates
are kept as their distance from today (today, yesterday, older) and instants as ages up to
`AgeCap`, so that the clock may run for ever in a finite model; `Advance` ages them.
`LoadState`, `Tick`, `SkipLocked`, `RunJob`, `RunEnds`, `Record`, `RecordFails` are the
loop; `Crash` is a restart, anywhere, which forgets `mem` and frees the locks;
`HandStarts` and `HandEnds` are a run asked for by hand, which takes the lock and touches
neither `mem` nor `rec`.

### EventReminders and NightlyNotices

`EventReminders` is `jobs/event_reminders.py` and `send_digests`: a run reads the
assignments and the stamps (`Read`), plans one digest per person (`Plan` is part of that
step: no await separates them), sends each (`Send`, `SendFails`) and, after a send,
stamps what it said (`Stamp`) or breaks on a row that is gone (`Stop`). Meanwhile the
roster goes on: `Assign`, `SignUp`, `TakeOver`, `HandOver`, `Remove`, `EventMoves`, with the
notices those record on their own. `run` is the digest in progress; `told` the
notification rows; `informed` is a history variable, who has been mailed about an
assignment or took it up themselves.

`NightlyNotices` extends both: the digest is the body of the scheduler's one job. A run
starts where `RunJob` or `HandStarts` does, and `RunEnds` waits for it; a restart
drops it where it stands. `ImplementsScheduler` says that the whole is still a behaviour of
JobScheduler, whose jobs simply end, well or badly, at some moment.

### CalendarMirror

`jobs/calendar_sync.py` with `services/gcal.py`. `rows` are the events with the
google id and fingerprint kept on them, `entries` what the calendar holds, `sync` the
reconciliation in progress. A call to Google that changes something has three outcomes:
done, refused, and, for an insert, done with the answer lost (`InsertUnanswered`): only
there does it matter, since an answerless patch or delete is repeated with the same
effect. `Stamp` is the transaction after an insert or a patch, which rereads the row by
id. `astray`, a history variable, holds the entries made whose id no stamp has recorded. `ListManaged` and `DeleteOrphan` are the sweep, which goes by the event an entry carries and
not by the entry its row names: an entry astray stays for as long as its event is
scheduled, beside the one the next run inserts. `RemoveCalendar` is somebody removing
the calendar in Google, after which the next run makes a new one (`CreateCalendar`).

### TaskForces

The team tree (`parent`), the roster of each team (`roster`), the team an event belongs to
and its `task_force_team_id` (`occasion`), and the `task_force_source` rows
(`sources`). Creating, moving and deleting teams run with the foreign keys of everything
that hangs on a team; `AskAdd`, `Contribute`, `FormTaskForce`, `JoinTaskForce` and
`AskRefresh` are a task force being put together, and `ListDue`, `KeepTeam`, `GiveBack`,
`TearDown` the nightly cleanup. Requests are split as in EventRoster, and wait for each
other's row locks (`EventLocked`, `EventReferred`, `TeamReferred`): an update of
`parent_team_id` or of a unique column takes a stronger lock than an ordinary one, and a
foreign key takes a share of the row it refers to. `ManagedBy`, `PeopleOf` and
`FullViewOf` are `load_actor` over the tree; a role is its rank.

### SignIn

The front doors (`auth.py`, `services/users.py`, `throttle.py`). `ledger` is the
in-process table of hits by key (a set: a hit is its slot and its number, and nothing reads
the order hits came in, as `retry_after` sorts them), `code` the one-time code of an account with its attempt
counter, `mailed` the latest code that reached its owner, `client` what each caller is
doing, `now` the time in slots. The throttle is translated as arithmetic: `Live`,
`Blocked`, `RetryAfter`, `Charge`. A try is a step that looks (`TryPassword`, `TryCode`),
then a wait for the hash in a thread, then a step that charges, or writes what it computed
from what it had read: two tries overlap in that wait. A substitution call is announced in
the same way: the policy looks at a snapshot of the ledger inside the transaction
(`PlanCall`, `policy.py` 242; its clock was read when the request came, which can only make it
find more hits), and the hit is recorded by the effects after the commit was awaited
(`AnnounceCall`, `ui/context.py` 249), or never if the commit failed (`DropCall`). Only a change
of address is charged as it is checked, with nothing awaited between (`Spend`,
`ui/account_page.py` 66-74). `Restart` empties the
ledger, as the table is in memory. `tries` and `charged` are history variables.

### Accounts

`services/users.py` and the edits of volunteers it depends on. `accounts` are the rows of
`app_user`, `people` those of `volunteer`; an account's columns say which link, code or
staged address it would accept, by the number of the letter that carried it, and `mailed`
remembers what each letter was for and where it went. `expired` are the letters whose time
is over. What a column holds beyond that (a hash, a digest, a date) is left out: `password`
and `api_token` are whether there is one, `seen` whether `last_login_at` is set.

Every handler, from `CreateWithPassword` to `DeleteVolunteer`, works out the rows it wants
and hands them to `BeginTables`. `CommitTables` writes what it changed: the ORM's UPDATE names only the
columns that differ from what was loaded (`MergedRow`), plus those that are stored anew
whatever they were (`rewrites`: a salted hash, a fresh token); then the table's constraints
decide (`Allowed`), and the letters go out. Deleting a volunteer unlinks their account.
`GiveUp` is any other end. Wrong tries and rate limits are in SignIn, whose `Accounts` is a
single account; here every code entered is the right one.

### RosterSheets

A team, its roster spreadsheet, and two syncs of it, the nightly one and one somebody
asked for, which nothing keeps apart. `people` are volunteers with a name, an address, a
role on the team or none, and whether they are archived; `sheets` are the rows in each
file; `link` is the file the team is linked with; `status` what the last sync recorded. A
sync reads the link (`TakeLink`), reads the sheet (`ReadSheet`), loads the people
(`LoadPeople`), refuses the whole sheet or goes through its rows in one transaction
(`RefuseSheet`, `ImportRow`, `CommitImport`), exports the roster (`ExportRoster`), compares
(`Compare`) and, if they differ, clears and writes the sheet (`ClearSheet`, `PutRows`,
`Decorate`). `Merged` is the ORM at commit: only the columns the transaction changed are
written, over what others have written meanwhile. `CallFails` and `Crash` may end a sync
anywhere. Around it: rows edited by hand, the link changed, and a person's role,
membership, address, archiving or deletion in the app. `MCSheetEdits` adds, as history,
which edits in the app were made between two syncs.

### Composed for checking

Some components share no table and no memory. `MCServices` puts the scheduler, the task
forces, the front doors and the weekly series side by side, `MCSerial` the roster, the elections
and the accounts with one request in flight, and the count, and `MCOverlap` the roster and the
elections with two: a behaviour takes up one of the parts at its first step and leaves the others in
their initial states, so that the state space is the sum of the parts and not their
product. What is checked of each part is what would be checked of it alone. They extend the
modules they compose, so that a property means there what it means in the theorems; each
part has its own set of sessions (`Sessions`, `ElectionSessions`, `AccountSessions`). (Where
`MCSerial` gives the sessions one member, EventRoster and Elections are checked with two
in `overlapping`.)

## 4. The runs

| Run | Module | Shows |
|---|---|---|
| `overlapping` | EventRoster, Elections | two requests at once. On the roster of an event, over one assignment with two calls or two slots with two assignments: calls follow the roster (`CallsFollowRoster`), none is left open while its slot changes hands, but by a hand-over that had found none (`CallEndsWithItsHolder`), each call is resolved once (`CallsResolveOnce`, the refinement of SubCall), nobody is twice on the event, no sign-up goes beyond capacity. On proposals, midnight anywhere between their steps: one open proposal per seat, no stray scores, the appointee was a candidate |
| `serial` | EventRoster, Elections, Accounts, StarTally | one request at a time: capacity, "at least one slot, removing one removes nobody", a non-manager ends only their own duty, an open call is the holder's (or a manager's), a cancelled event is closed; whole ballots, candidates and roll frozen under ballots, the shown tally final; what an account can be entered by is what was mailed to the address it has now and what its password stands behind (`CredentialsMatch`), and nobody but an admin who names them moves a login from one person to another, nor does provisioning pass over anybody in silence (`LoginsKeepTheirPeople`); the count has one outcome, nobody beaten by all wins, names do not matter |
| `nightly_notices` | NightlyNotices | nobody is on record as told of an assignment who was neither mailed about it nor took it up themselves; no mail repeats a reminder that is on record by the time it goes; who is owed a notice is told or stops being owed it (`NothingStaysOwed`, liveness); the whole implements the scheduler |
| `calendar_mirror` | CalendarMirror | an entry on the calendar is the one its event names, unless its stamp never came about, and second entries of an event take a setback each; no run takes a scheduled event's entry off; when edits and setbacks stop, the calendar shows every scheduled event as it is through the entry its row names, and nothing else but entries astray (`MirrorCatchesUp`, liveness) |
| `roster_sheets` | RosterSheets | an import takes nobody off the team, blanks no address and changes nobody but the team's people, the archived and those it adds; when edits and mishaps stop, the sheet shows the roster and keeps showing it, or the team page keeps saying that it cannot (`SheetSettles`, liveness) |
| `services` | JobScheduler, TaskForces, SignIn, EventSeries | a night on record is not run again that day, an interval job keeps its pace, over restarts and failed records; a task-force team that exists has its event, an event with a task force is not deleted, forming and dismantling one lends nobody rights over people while its team stands (`CollaborationLendsNoPeople`); a limit is overrun by less than the requests in flight, the wait a refusal names is exact, wrong guesses per code are bounded; sign-ups for a series that begin in different weeks, for the same or different people, never wait for one another in a circle (`WaitsLookAhead`) |
| `roster_handed_back` | EventRoster | **violation**, see below |
| `roster_capacity_race` | EventRoster | **violation**, see below |
| `elections_double_decision` | Elections | **violation**, see below |
| `sheet_edits` | RosterSheets | **violation**, see below |
| `team_cycle` | TaskForces | **violation**, see below |
| `calendar_duplicate` | CalendarMirror | **violation**, see below |

`CHECK_DEADLOCK FALSE` everywhere: ids, days, ballots and the allowances for edits,
mishaps and setbacks run out.

The runs with one session state what the rules mean when requests do not overlap. Each of
those properties fails with two sessions; the split is the point, and it tells which
rules rest on a check alone. Two of those failures contradict what the repository says
and are findings; the others are known limits of READ COMMITTED (a deadline moved
while a vote commits breaks `FrozenOnceVoted`; a ballot that starts before midnight
and commits after it breaks `ShownTallyIsFinal`; two managers deleting the last two
slots together break `SlotsKeepTheirPeople`; a slot that changes hands under a withdrawal
breaks `OwnSlotOnly`). So these properties say nothing of the overlaps themselves: the
hazards in `PROJECT.json` say where that is all there is.

### Fairness

Requests are never fair: nobody has to make one, and any of them may be rolled back. Fairness
is assumed of the jobs alone, and only where a timeout or a schedule of the code
stands behind it.

* *NightlyNotices* (`NothingStaysOwed`). Weak fairness of the loop's own steps, of the
  clock, of a run by hand coming to its end, and of a job's end once its body is done: a
  coroutine that can go on does, and every send has a timeout. Strong fairness of the
  loop's read, and of sending and stamping for each person: the database and the mailer
  do not fail for ever. Nothing is assumed of restarts, which may come at any step but are
  bounded (`MaxIncidents`), or of the roster.
* *CalendarMirror* (`MirrorCatchesUp`, `CrashReconverges`). Weak fairness of a sync's steps, its
  stamp among them (the job runs every half hour and each call has a timeout); strong fairness
  of the calls and transactions that may fail, each event's push on its own, and of the
  sweep's deletions as a whole: Google does not refuse the same call for ever.
* *RosterSheets* (`SheetSettles`). Weak fairness of the nightly sync, which starts every
  night and goes on. A sync somebody asks for is not fair: it may be abandoned.

### Bounds

* *Sessions.* Each interleaving hazard here is between two requests: one that has read and
  one that writes. Two sessions suffice for each pair, and sessions restart, so a
  sequence of any length may run beside a suspended request.
* *Roster.* Two slots, two assignments, two calls and three people at once are too many
  to go through, so `FewRows` follows a behaviour as long as it keeps to one of two
  sizes. One unlimited slot, one assignment and two calls, with three people: enough for a
  call withdrawn or cancelled and opened again while a claim of the first is suspended. Or
  two slots, two assignments and one call, with two of the people named in the tables at
  a time: one person may reach two slots and two people one place (capacity 1 or none);
  there, withdrawals and edits of the event itself are left out, as they put nobody on a
  slot. The view leaves out `notified`, which no action reads and no property of the run
  mentions. Sessions are interchangeable, and so are volunteers v2 and v3.
* *Elections.* Two people, one a core member of the team and one on the clergy team; three
  days, the least that has all three phases (day 1 nominating, day 2 voting, day 3
  concluded), and deadlines over one day more, so that on day 3 a new round can still be
  given dates. Two proposals for one seat; `SecondOnlyOpened` leaves the second alone once
  it is open: opening it is what competes for the seat, and what may then be done to it
  is what is done to the first. Beside them the roster has two unlimited slots and nobody on
  them (`BareRoster`). `overlapping` gives only the score 0, as its
  properties ask whether a score is there, and its proposals open with one candidate and
  one day of voting (`ShortOpenings`); nominations and `update` reach the other lists and
  dates. `serial` has scores 0 and 5 and opens with any list and dates;
  `ElectionBounds` keeps midnight out of a request.
* *Series.* Three weeks, the least in which two requests can hold a week each and want a
  third; two slots a week, one for a single person and one unlimited; two people, two
  requests, one edit anywhere between their steps; at most one assignment committed before
  or by the other request (`FewServe`). Longer circles than two requests need a third one
  and are left to the proof.
* *Accounts.* Two accounts, two people and two addresses, so that people share an address,
  an account has somebody else's, or a change of address meets one that is taken. Three
  letters, and three requests from any of three openings (`MCOpenings`: no account; one in
  full use; that one and an unlinked one still invited): enough to stage a change, have a
  code mailed, and confirm.
* *Count.* Up to four candidates, up to four ballots and up to twelve scores on record (four
  candidates on three ballots, or three on four), scores 0, 2, 3: tiers of two, three and
  four, ties in totals broken by pairwise results, cycles among three, drawn runoffs.
  `ProfileView` identifies profiles that differ in the order of ballots.
* *Notices.* Two people and two assignments of one event: a person with two duties, two
  people with one each, and an assignment that passes from one to the other. One
  slot a day and one attempt a night make a night one step of the clock; one restart or
  run by hand (`MaxIncidents`), up to three changes of the roster (`MaxChanges`: assign,
  hand over, hand back), three of both together (`MaxTroubles`), and failed sends, stamps
  and records without a bound.
* *Scheduler.* A nightly job and one by the interval, three slots a day (before, at and
  after its hour), two attempts a night, one restart or run by hand; failed records without
  a bound.
* *Task forces.* Three ministries, two of them founded at the start so that the third can
  be put anywhere and a team move under another; two task forces for two events, so
  that one owner may have both, or one form while the other is dismantled; two people
  with different roles; three requests, two at a time, beside the cleanup.
* *Front doors.* One account with a password and a code, two callers, limits of 2 (3 per
  address for passwords) in windows of 2 slots: the account's and the address's limits are
  both reached and left again. One address change and one team's calls, with a limit of 2 each,
  in behaviours of their own or beside passwords (`OneKindOfMail`): codes go by other keys. Codes live two slots and are guessed at most twice; up to two are
  minted, so that an old one meets the new one's counter. `MaxAsks` and `Horizon` end the
  run.
* *Calendar.* One event (entries of different events meet in no statement), two versions of
  its text, four entries, three setbacks: an insert whose answer is lost, the repair, and a
  further one during it. `calendar_duplicate` needs one setback and two entries; every insert
  is answered there (`AnsweredNext`), so that the setback is a crash or a calendar removed.
* *Sheets.* Three initial parishes (`MCParishes`), up to four people of three names and two
  addresses, two roles, three files, two edits and one mishap, anywhere in two syncs.

`MaxVersion`, `MaxEntries`, `MaxSetbacks`, `MaxMishaps`, `MaxEdits`, `MaxChanges`, `MaxTroubles`,
`MaxIncidents`, `MaxRequests`, `MaxCodes`, `MaxAsks` and `Horizon` are bounds of the models, in
guards, with no counterpart in the code; so are the numbers of ids. The others
(`MaxAttempts`, `RetryDelay`, `MaxGuesses`, `Limit`, `Window`, `Ttl`, `Resend`) are the
code's settings at small values.

### What the violations show

* `roster_handed_back`: a person signs up (told, and recorded so), hands the slot to a
  teammate, and is later put back on it by a hand-over that sends no mail. The code
  (`services/events.py` 1174-1176, 1631-1633, 1683-1684) says the incoming person has no
  notice on record and the nightly digest will tell them. The record of the first time
  is still there, and matches.
* `roster_capacity_race`: `update_slot` counts and writes without the lock the sign-up
  takes; a sign-up in between leaves two people on a slot for one, where the API
  documents a refusal.
* `elections_double_decision`: `appoint` and `cancel` both find the proposal open; the
  appointment commits, then the cancellation, which leaves the appointed candidate on a
  cancelled proposal, and the membership with them. The schema reference promises a CHECK
  that would refuse the row; the models have none.
* `team_cycle`: two overlapping moves, A under B and B under A, each find no cycle
  (`_check_no_cycle` reads the tree once) and both commit; `services/teams.py:149` says
  that cycles cannot occur. The readers that walk the tree are written so that they end
  on one, and so is `Below` here; both teams are then out of sight of whoever walks from
  the roots.
* `sheet_edits`: the nightly sync writes the roster to the sheet; a leader changes a role
  in the app; the next nightly sync imports the sheet first, finds the old role in the
  row it wrote itself, and puts it back. `docs/how-to/roster-spreadsheets.md:12` says that
  edits made in the app survive.
* `calendar_duplicate`: a run inserts an event's entry and the process ends before the stamp.
  The next run finds the row without an id and inserts the event again; the sweep
  (`orphans`, `jobs/calendar_sync.py` 115-124) collects entries whose event is not live, and this
  one is. The parish sees the event twice for as long as it is scheduled, where the
  module's docstring (13-15) says that "a mid-run crash re-converges next run". An insert whose
  answer is lost ends in the same way.

### Observed while modelling

Behaviours the models show and no run is kept for, for whoever maintains the code:

* Accounts: a volunteer whose address is corrected after they were invited gets the next
  link at the account's address, not at the corrected one, though `invite_volunteer`'s
  docstring says "the address on the volunteer's own record". An invitation can be sent
  again for an account that was set up without a password and has not signed in since.
  A code asked for while a change of address is being confirmed may be stored after the
  confirmation and stays good, though it went to the old mailbox (`CredentialsMatch` with
  two requests at once).
* A task force whose team has children, or whose team owns another task force's event, is
  refused its teardown every night; a task force that is kept leaves its source rows; an
  event created on a task force's own team is deleted with it.
* A series sign-up is not refused a week but ended by it when another request commits the
  same person there between check and INSERT: the constraint violation undoes every week,
  though the docstring (`services/events.py` 1294-1298) says that an existing assignment
  skips that week. And `update_event` giving a week another time while two series sign-ups
  run can make them wait for each other, until PostgreSQL ends one.
* An attendance override set on an assignment (`attended_override`, `hours_override`)
  stays on it when the event is prolonged and the slot then changes hands: neither
  `claim_sub` nor `substitute` resets it.
* A refresh of a task force that was read before the cleanup kept its team gives the
  collaborators their roles on what is by then an ordinary team, and with them rights over
  whoever joined it since. `CollaborationLendsNoPeople` is about task-force teams; at five
  requests TLC shows that it would be false without those words.
* A call for a substitute opened between the two statements of a hand-over outlives it
  (EventRoster, in 3).
* Two substitution calls of one team that overlap at one below its daily allowance are both
  announced: `FloodBound` allows as many more as there are other requests in flight.
* A fresh one-time code can be born with attempts already counted, when `start_otp`
  overlaps a wrong try of the old one; two correct verifications that overlap both
  succeed.
* Roster sheets: removing a member in the app leaves their row, pinned by its ID: an active
  one makes the nightly import refuse the whole sheet until somebody repairs it, an
  archived one is added again and reactivated; a deleted volunteer's row is an unknown
  ID, which is refused too. A write that fails after the clear leaves a sheet with no
  header, which later imports refuse. The nightly `create_for_team` overwrites a link a
  leader has set meanwhile. Two overlapping imports can add the same new person twice. A
  row with no ID and the address of exactly one person renames that person. What is
  typed between the read and the write-back is lost.

## 5. The proofs

`EventRosterProofs` proves, for any number of requests, people, slots, assignments and
calls, and from `RosterAssumption` alone:

| Theorem | Statement |
|---|---|
| `RosterInvariance` | `Spec => []RosterInv` |
| `TypeCorrect` | `Spec => []TypeOK` |
| `NobodyTwice` | `Spec => []OneSlotPerPerson` |
| `CallsFollow` | `Spec => []CallsFollowRoster` |
| `CallsEndWithTheirHolder` | `Spec => CallEndsWithItsHolder` |
| `SignUpsWithinCapacity` | `Spec => SignUpWithinCapacity` |
| `ImplementsSubCall` | `Spec => CallsResolveOnce` (the refinement) |

and, of requests that come one at a time (`OneAtATime`, as in the run `serial`):

| Theorem | Statement |
|---|---|
| `SerialInvariance` | `Spec => []SerialInv` |
| `CapacityHolds` | `Spec => []CapacityRespected` |
| `CallsAreTheHolders` | `Spec => []OpenCallIsTheHolders` |
| `SlotsKeepPeople` | `Spec => SlotsKeepTheirPeople` |
| `OnlyOwnSlot` | `Spec => OwnSlotOnly` |
| `CancelledStaysClosed` | `Spec => CancelledIsClosed` |

The inductive invariant `RosterInv` adds to the properties what they rest on. About
requests in flight (`SoundRequest`): a locked slot exists, and a sign-up's remembered
capacity is the slot's (`Pinned`: only a holder of the lock could change it); a call
being claimed or cancelled has been posted (`Posted`); and `SeesCall`: while the call a claim
is after is still open, it is about the assignment the claim read with it, and the call a
hand-over has closed, still open to everyone else, stays open and about the assignment it
will move, until the commit. The second rests on the row lock (`Writable`), which one
hand-over at most has of a call (`OneCloser`). That the holder is still the one a claim
read is *not* among them: a hand-over that found no call to close makes it false. So
`CallsEndWithTheirHolder` goes by the calls: a claim resolves the one it goes by, a hand-over
the one it locked, and that is the only open call there is of the assignment. About tables: a call
on record is on an assignment on the roster, at most one open (`CallsOnRoster`,
`OneOpenCall`), assignments are on live slots, and a claimant is on record exactly on a
claimed call (`ClaimantOnClaimed`), which is what turns a late `cancel_sub` into a
constraint violation instead of a second resolution.

The proof has two parts. `Starts` and `Ends` say once what a request's first and last
step do to the other requests' facts; then one lemma per finishing step shows that it
keeps the tables' part and disturbs no other request. `StepImplements` maps every step
to a step of SubCall or to a stutter.

With one request at a time, `SerialInv` adds what every handler relies on and an overlap
takes away: *what a request has checked still holds when it writes* (`StillHolds`, by its
operation: the capacity it compares with is the slot's, the slot still fits the new capacity,
another slot is left beside the one to be deleted, the assignment is the caller's own or the
caller manages the event); and a cancelled event has no request at work on it. A step that begins a request establishes it, nothing
happens until the request ends, and the five properties follow at the ending step.

The same module proves of EventSeries, for any number of requests, people, weeks and slots:

| Theorem | Statement |
|---|---|
| `SeriesInvariance`, `SeriesTypeCorrect` | the inductive invariant and the types of `SeriesSpec` |
| `NoCircularWait` | `WaitsLookAhead`: whoever waits, waits for a request that is further on, so no circle of waiting requests can close, of any length |

`SeriesInv` is about order (`InOrder`): every week a request has joined comes before the one
it is at, and every row of its sweep still to come is after both, by the start times the
rows have *now* and by id. The sweep sorts once and keeps the starts it read, so this
needs the events to keep their times, which is the premise `~moved` of the theorem; that a
week has at most one slot of a name (`OneSlotPerName`, the unique constraint) keeps two rows
of one week out of a sweep. The order, and not the locks themselves, is what the proof
rests on: that two requests never hold the same row is not needed. Statements outside the
module that lock several of these rows (deleting a volunteer or a team) are outside the
theorem.

`ElectionsProofs` proves, for any number of requests, people, seats, proposals and days,
and from `ElectionsAssumption` alone:

| Theorem | Statement |
|---|---|
| `ElectionInvariance` | `ElectionsSpec => []ElectionInv` |
| `TypeCorrect` | `ElectionsSpec => []ElectionsTypeOK` |
| `OneOpen` | `ElectionsSpec => []OneOpenPerSeat` |
| `ScoresOfTheRoll` | `ElectionsSpec => []ScoresAreOfTheRoll` |
| `AppointedIsCandidate` | `ElectionsSpec => []AppointedWasNominated` |

and, of requests that come one at a time (`OneAtATime`) and do not span midnight
(`MidnightApart`), as in the run `serial`:

| Theorem | Statement |
|---|---|
| `SerialInvariance` | the inductive invariant of that behaviour |
| `WholeBallots` | `BallotsAreWhole`: whoever voted has a score for every candidate |
| `NamesOnlyOnAppointed` | a candidate is named exactly on an appointed proposal |
| `VotesFreeze` | `FrozenOnceVoted`: candidates and roll stand once there is a ballot |
| `ShownIsFinal` | `ShownTallyIsFinal`: nothing a shown tally counts changes afterwards |

`ElectionInv` adds that a request in flight names a proposal on record and a real person,
and carries its dates in order when it is going to open one (`WellFormed`); that a
proposal not yet on record has no ballots (`NoBallotsUnused`), so that opening it starts
from none; and `OneOpenPerSeat` without counting (`OpenAlone`), from which
`OneOpen` comes back by the cardinality of a singleton. Nothing in it says in what phase
a proposal is: these properties hold even of requests that outlive the phase they
were admitted in, because the constraints and the re-reads of the writing step carry them.

The serial theorems are the other half, and are about phases. Their `SerialInv` says that
the phase a request was admitted in is still the phase when it writes (`StillHolds`), and of
each proposal (`OrderlyAt`) that if somebody has voted, its nominations are over, whatever
was done to the dates since. Both hypotheses are needed, and the code enforces
neither: without them the properties are false (see *The runs*).

Of the count, for any number of candidates and ballots, from `TallyAssumption` alone:

| Theorem | Statement |
|---|---|
| `EveryTallyIsDecided` | `TallySpec => []OneOutcome` |
| `NoCondorcetLoserWins` | `TallySpec => []BeatenByAllNeverWins` |
| `IdsNeverDecide` | `TallySpec => []NamesDoNotMatter` |

The invariant is only that the papers are ballots on the candidates (`TallyInv`); the work is in
`star_tally` as a function of them. `Total` is recursive: that its sums exist and are the
only ones (`SumsExist`, `SumsAreUnique`) is shown by way of the smallest number at which they
would fail. `PlacesAreRanks` says that the places of a tier are a permutation, so
that the last seat and the one after it are somebody's; `FillIsNameless` then says what the fill
does without mentioning an order: with `b` the result on the last seat, the seats go to
those with `b` or better if these are just as many, else those with exactly `b` are
tied. `TheRoundGoes` lists the four ways the scoring round goes, from which
`EveryCountDecides` has the first two theorems. For the third, two profiles `Mirror` each
other if one is the other under an exchange of names, and totals, head-to-head results, fills
(`FillMirrors`: only one `b` can be on the last seat), rounds and runoffs are carried along by it.

`AccountsProofs` proves, for any number of requests, accounts, people, addresses and letters,
and from `AccountsAssumption` and `OpeningsAssumption` (an opening is a table the
constraints allow, whose credentials are backed):

| Theorem | Statement |
|---|---|
| `AccountsInvariance`, `AccountsTypeCorrect` | the inductive invariant and the types of `AccountsSpec`, whatever overlaps |

and, of requests that come one at a time (`OneAtATime`), as in the run `serial`:

| Theorem | Statement |
|---|---|
| `SerialInvariance` | `AccountsSpec => []SerialInv` |
| `CredentialsAreBacked` | `CredentialsMatch`: whatever an account can be entered by, it stands behind |
| `LoginsStay` | `LoginsKeepTheirPeople`: whose an account is changes only as it may, and a provisioning serves everybody |

Types alone need an invariant here, because a commit merges columns. `AccountsInv` says that
a row of the table, of what a request read and of what it wants satisfies its own constraints
(`SoundRow`), and that a row in use stays in use (`StaysInUse`); so a merged row has an
address if it is in use, and is untouched if it is not (`MergedIsSound`).

`SerialInv` says that the tables are, when a request commits, as it read them (`Prepared`), and
that what it wants is in order (`Ready`): every row it writes is backed by the letters it
mails (`Backed`), nobody joins an account but at its address (`Joins`), and a provisioning
serves everybody (`ServedIn`). That the link on a row is the last one mailed rests on the
numbering (`NoGaps`): the free number a request takes is above all the mailed ones, so a row
that takes it up is backed, and every other stays so (`BackedByNext`).

`Provisioned` is a recursive function, one volunteer after another. That it has values is
shown first (`ProvisionEnds`); then each volunteer's step is shown to keep three things:
soundness (`Provisions`), order (`InOrder`), and the count of rows and links taken, which is
never more than of volunteers served, so that the guard of `Provision` leaves a free row and
link for each of them (`OneMoreTaken`).

Overlaps take this away, and `CredentialsMatch` is false of them: two requests that change
different columns of one row are each right and wrong together.

`NightlyNoticesProofs` proves of the scheduler (`JobScheduler`), for any jobs, hours, intervals
and limits:

| Theorem | Statement |
|---|---|
| `SchedulerInvariance`, `SchedulerTypeCorrect` | the inductive invariant, and the types, of `SchedulerSpec` |
| `RecordIsKnown` | what is on record the running loop knows |
| `NightIsOver` | `RecordedNightIsOver`: a nightly job on record as done today is not started by the loop again today |
| `PaceSurvivesRestarts` | `PacedAcrossRestarts`: an interval job is taken up only when its interval has passed since the last attempt on record |

`SchedulerInv`: memory is never behind the record (`LoopKnowsTheRecord`); what the tick
has decided to run is still due, until midnight passes over it (`PendingIsDue`); no success
and no attempt is later than the tick that is going on (`NoLaterSuccess`,
`NoLaterAttempt`), which is what lets a stale `now` be compared at all; and, the part that
is easy to lose, memory is written before the record (`MemoryFirst`), so that a record that
fails leaves the loop knowing more, never less, and a restart falls back to the record.

and of the digest in it, for any people, events and assignments:

| Theorem | Statement |
|---|---|
| `SchedulerIsImplemented` | `Spec => ImplementsScheduler`: every step of digest and loop is a step of the scheduler or a stutter |
| `NightInvariance`, `NightTypeCorrect` | the inductive invariant and `TypeOK` |
| `StampsAreEarned` | `StampedWasInformed` |
| `RemindersGoOnce` | `NoReminderTwice` |

`NightInv` is the scheduler's types and `NoticesInv` (a digest that was mailed stamps
only what it said, and a stamp was earned), with two facts that tie them: a run is on only
while its runner holds the job's lock (`OneAtATime`), and no reminder it has still to send
is on record (`UnsentIsFresh`). The second stays true because nobody else records a
reminder while the lock is held; of a "scheduled" notice it is false.

`CalendarMirrorProofs`, for any events and number of entries:

| Theorem | Statement |
|---|---|
| `MirrorInvariance`, `MirrorTypeCorrect` | the inductive invariant and the types |
| `EntriesKeepTheirNames` | `EntriesNamed`, the first conjunct of `EntriesAccountedFor`: an entry on the calendar whose stamp was written is the one its event names, unless the event was deleted |
| `EntriesAreAccountedFor` | `EntriesAccountedFor`: and an event has no more entries beyond the one it names than there were setbacks |
| `LiveEntriesAreKept` | `LiveEntriesStay`: no run takes the entry of a scheduled event off the calendar, by a planned delete or by the sweep |

`MirrorInv` relates what a run has planned to what the rows say now: a row names an entry
of its own event (`RowsNameEntries`); an event that has an entry and was not read as
scheduled is not scheduled since, as nothing brings one back (`LiveIsCurrent`); and each
operation still to do, or done and not stamped, is about the entry its row names
(`PlanIsCurrent`, `PushIsCurrent`), since only a run writes that id and there is one run,
even though the event's text may have moved on. The count has an invariant of its own
(`EntriesCounted`): an event whose row names no entry on the calendar, or for which a run has
still to insert one, has no more entries than there were setbacks; so the one that is inserted
next is the one more it may have. A lost answer or a failed stamp pays for the entry it leaves.

`TaskForcesProofs`, for any teams, people, events, requesters and tree, cycles included:

| Theorem | Statement |
|---|---|
| `TeamsInvariance`, `TeamsTypeCorrect` | the inductive invariant and the types |
| `TaskForcesKeepTheirEvent` | `TaskForcesHaveTheirEvent`: a task-force team that exists has its event |
| `EventsSurvive` | `TaskForceEventsSurvive`: an event with a task force is deleted neither by the teardown nor by the deletion of any team |
| `NobodyIsLent` | `CollaborationLendsNoPeople`: joining, refreshing, keeping and dismantling a task force gives nobody rights over people they had none over |

`TeamsInv` is soundness of the rows (`RowsAreSound`: an event with a task force is on its
team, and apart from its owner) and of the requests in flight (`RequestsAreSound`). Two
facts about these carry the proof. A first collaborator and a teardown have the event to
themselves (`Apart`), by the row lock or the foreign key's share of it. And a request that
read an event without a task force, and finds itself second, finds the owner's source row
there (`FirstIsCurrent`), on which its own insert then fails.

`NobodyIsLent` is about the closure of the tree. `Below` is a recursive function; that it
exists, and is reachability, is shown first by ways down the tree of each length
(`ReachUnfolds`), for trees with cycles too. Then a team is `Idle` if
it is a task force with nothing but task forces below it, or does not exist; and if two trees,
with their rosters, differ in an idle team alone, everybody has the same rights in both
(`RightsKept`). Joining changes the roster of a task force, forming makes one out of a team
that does not exist, and tearing it down is the reverse. That a team not yet made has nothing
below it is a small invariant of its own (`ParentsAreMade`: a parent has been made).

`RosterSheetsProofs`, for any people, addresses, files and typed rows:

| Theorem | Statement |
|---|---|
| `SheetsInvariance`, `SheetsTypeCorrect` | the inductive invariant and the types |
| `SheetKeepsToTeam` | `SheetKeepsToItsTeam`: an import changes the people of its team, the archived and those it adds, and nobody else |

`SheetsInv` says of each sync that its open transaction is sound (`SyncIsSound`): a person
it has made (`Made`) is nobody to everyone else until it commits, and a person it has
changed (`Changed`) was on the team or archived when it loaded them. The other sync and
the app may change the same people in between; the fact survives `Merged` because a commit
writes columns, not rows. That a sync under way has a file (`FilesAreKnown`) is proved
beside it, for the types.

`SignInProofs`, for any callers, accounts, teams that call, limits and windows:

| Theorem | Statement |
|---|---|
| `SignInInvariance`, `SignInTypeCorrect` | the inductive invariant and the types of `SignInSpec` |
| `FloodIsBounded` | `SignInSpec => []FloodBound` |
| `WaitNamed` | `SignInSpec => []WaitIsExact` |
| `TriesAreBounded` | `SignInSpec => []TriesPerCodeBounded`: a code takes fewer wrong guesses than the `choose(MaxGuesses + n, n)` ways in which the n requests in flight can be spread over the counter's values |

`SignInInv` counts debts: a request that has passed the check and not yet charged *owes* its
keys (`Owes`), and what still counts under a key, together with those who owe it, stays
within the limit and the overrun allowed (`RoomForThoseWhoOwe`). Letting somebody in adds
a debt, but only while fewer hits than the limit count, and no more than everyone can owe
at once (`AdmissionKeepsRoom`); charging turns a debt into a hit (`SettlementKeepsRoom`);
time, restarts, right answers and calls that were not committed only make room. That what is
owed is owed to the key of its door is an invariant beside it (`KeysFit`). For an address change,
charged as it is checked, nobody
is ever in debt, so that its limit is never overrun. All this is about every hit since the
process started; the ledger, which drops old ones, blocks by the same count since it loses
none that still counts (`LedgerKnows`). That the wait is exact rests on the lemma
`NewestExists`: a list with at least n hits has an n-th newest.

`TriesAreBounded` is about a counter that overlapping verifications set back, each writing
what it read and one, so that no counter measures progress. What does is a profile: of
each code, how many requests stand at x wrong guesses or past them, for every x (`Past`,
`Profile`). The counter itself counts for every request, and what a request read counts for
the one that will write it. A wrong guess read at r may pull requests back from beyond
r + 1, but takes its own from r to r + 1 and none back from there or before, so that the
first entry of the profile that changes rises (`OneMoreGetsThere`); mailing a code, a right
one and a restart set nobody back. This is a strict order on finitely many profiles
(`RisesIsAnOrder`), and `GuessInv` says that a code's tries are no more than the profiles
before its own. That holds also of a code that has been replaced, whose guesses are still
being compared and whose successor's counter is written by them. There are
`choose(MaxGuesses + n, n)` profiles: they satisfy Pascal's rule by two bijections
(`ShapesThatEndAtNone`, `ShapesThatEndAtSome`), and what the community module's recursive
`factorial` computes is shown without induction, by functions that satisfy its equation up
to each number, and by the smallest counterexample (`FactorialFacts`, `ShapesAreCounted`).
TLC evaluated `GuessInv` on the `services` instance before it was proved.

The proofs assume what the modules' `ASSUME`s say of their constants and nothing else; TLC
evaluates each of these in a passing run.

### Only model-checked

* Liveness: `NothingStaysOwed`, `MirrorCatchesUp`, `SheetSettles`. Fairness is out of the
  prover's reach. Every other property of the passing runs is the statement of a theorem.

## 6. Not modelled

* *In events:* availability answers, reminder preferences, attendance and hours, event
  deletion, and mail. A volunteer being deleted (which nulls the claimant of a call and
  takes their assignments) and a membership removed under a request.
* *In elections:* deletion of a proposal or a volunteer, the read models, the secrecy of
  ballots (a matter of what reads return).
* *In notices:* the proposal digest, which goes through the same `send_digests` over
  another query; the wording of digests.
* *In accounts:* calendar feed tokens, the admin flag and the gates on who may ask, the
  confidentiality stamp; accounts that are no person's by design (`link_by_email`).
* *In teams and permissions:* the per-session memo of the tree, links and descriptions of
  teams, gates that are predicates over the same scopes, views as of a date.
* *In the calendar mirror:* sharing rules, entries made by hand, retries inside one HTTP
  call.
* *In roster sheets:* the upload of a `.csv` file, the parish export, a Team column that
  names other teams, parsing and escaping of cells, decoration.
* *Mail and its quota ledger:* the mailer is the environment of the notices, where a send
  succeeds or fails; the monthly gauge is a memo for a page header.
* *Everything else listed `not_modelled` in PROJECT.json*, with the reason there: record
  keeping and queries, history kept by database triggers, parsing, formatting and content,
  thin API handlers and pages over the modelled services, migrations and deployment.
