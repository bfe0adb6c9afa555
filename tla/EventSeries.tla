---------------------------- MODULE EventSeries ----------------------------
(***************************************************************************)
(* Signing up for a weekly series (services/events.py): one request joins  *)
(* a slot, and then the slot of the same name in every later week, each in *)
(* a savepoint, all in one transaction.  So it takes row after row and     *)
(* keeps what it took until it commits: the lock of each slot it joined    *)
(* (SELECT ... FOR UPDATE in _join_slot), and its place in the unique      *)
(* index over event and volunteer, on which the INSERT of another request  *)
(* waits as long as this one may still roll back.                          *)
(*                                                                         *)
(* A slot is a pair of a week and a place in it: rows are found by name    *)
(* once and by id from then on.  What has not committed is in signing.     *)
(***************************************************************************)
EXTENDS Naturals

CONSTANTS
    Signers,      \* requests that may be in flight at once
    Helpers,      \* members of the team
    Weeks,        \* events of one series; a number, the row's id
    Places,       \* slots of each week
    Limited,      \* those of them for one person; the others are unlimited
    LastStart,    \* bound: when the last week may start
    MaxEdits,     \* bound: changes to the events and their slots
    NoOne         \* SQL NULL

ASSUME SeriesAssumption ==
    /\ Weeks \subseteq 1..LastStart
    /\ Limited \subseteq Places
    /\ "gone" \notin Places /\ "renamed" \notin Places
    /\ LastStart \in Nat /\ MaxEdits \in Nat
    /\ NoOne \notin Helpers \cup (Weeks \X Places)

VARIABLES
    starts,       \* when each week's event starts
    open,         \* weeks not cancelled; none is over yet
    labels,       \* the name of each slot, "gone" once deleted
    serving,      \* <<slot, volunteer>>: the assignments
    signing,      \* the request of each session
    edits,
    moved         \* an event of the series was moved under a request

seriesVars == <<starts, open, labels, serving, signing, edits, moved>>

Slots == Weeks \X Places
Ops == {"sign_up", "sign_up_series"}
Labels == Places \cup {"renamed", "gone"}

\* A row of the sweep over the later weeks, with the start it was sorted by.
Rows == [slot : Slots, start : 1..LastStart]

SignUps ==
    [at : {"idle", "locking", "checking", "inserting", "sweeping", "committing"},
     vol : Helpers \cup {NoOne},
     op : Ops,                    \* which of the two it is
     from : 0..LastStart,         \* the start of the week it began with, as read
     slot : Slots \cup {NoOne},  \* the slot it is at
     rest : SUBSET Rows,          \* weeks yet to come
     joined : SUBSET Slots]       \* rows inserted, whose locks it holds

NoSignUp ==
    [at |-> "idle", vol |-> NoOne, op |-> "sign_up", from |-> 0,
     slot |-> NoOne, rest |-> {}, joined |-> {}]

SeriesTypeOK ==
    /\ starts \in [Weeks -> 1..LastStart]
    /\ open \subseteq Weeks
    /\ labels \in [Slots -> Labels]
    /\ serving \subseteq Slots \X Helpers
    /\ signing \in [Signers -> SignUps]
    /\ edits \in 0..MaxEdits
    /\ moved \in BOOLEAN

-----------------------------------------------------------------------------
(* What the database keeps for a request until it ends.                    *)

Week(k) == k[1]

\* The slots whose rows it has locked: those it joined, and the one it is at.
Locks(s) ==
    signing[s].joined
        \cup (IF signing[s].at \in {"checking", "inserting"} THEN {signing[s].slot}
              ELSE {})

Locked(k) == \E s \in Signers : k \in Locks(s)

\* Request t has inserted a row for volunteer v in the week of slot k.
HasInserted(t, v, k) ==
    signing[t].vol = v /\ \E j \in signing[t].joined : Week(j) = Week(k)

Serves(v, w) == \E n \in serving : Week(n[1]) = w /\ n[2] = v

\* The people on slot k as a request that joined "own" itself counts them.
Taken(k, own) == (\E n \in serving : n[1] = k) \/ k \in own

-----------------------------------------------------------------------------
(* sign_up and sign_up_series, week by week.                               *)

Starts(s, v, k, op) ==
    /\ signing[s].at = "idle"
    /\ labels[k] # "gone"
    /\ signing' = [signing EXCEPT ![s] =
                     [at |-> "locking", vol |-> v, op |-> op, from |-> 0,
                      slot |-> k, rest |-> {}, joined |-> {}]]
    /\ UNCHANGED <<starts, open, labels, serving, edits, moved>>

\* Broken: ORDER BY is missing.
AnyRow(rows) == rows

\* ORDER BY starts_at, id.
NextRow(rows) ==
    {r \in rows : \A q \in rows :
        \/ r.start < q.start
        \/ r.start = q.start /\ Week(r.slot) <= Week(q.slot)}

\* On to the next row of the sweep, or to the end.
GoesOn(s, r) ==
    \/ /\ r.rest = {}
       /\ signing' = [signing EXCEPT ![s] =
                         [r EXCEPT !.at = "committing", !.slot = NoOne]]
    \/ \E row \in NextRow(r.rest) :
         signing' = [signing EXCEPT ![s] =
                       [r EXCEPT !.at = "locking", !.slot = row.slot,
                                 !.rest = r.rest \ {row}]]

\* A refusal of the week it began with ends the request; one of a later week
\* rolls back to the savepoint, which lets go of that week's lock.
Refuses(s) ==
    IF signing[s].joined = {}
    THEN signing' = [signing EXCEPT ![s] = NoSignUp]
    ELSE GoesOn(s, signing[s])

LocksSlot(s) ==
    /\ signing[s].at = "locking"
    /\ IF labels[signing[s].slot] = "gone" THEN Refuses(s)
       ELSE /\ ~Locked(signing[s].slot)
            /\ signing' = [signing EXCEPT ![s].at = "checking"]
    /\ UNCHANGED <<starts, open, labels, serving, edits, moved>>

\* The event must stand, the volunteer not on it yet, the slot not full, as
\* far as what has committed by now goes.
Checks(s) ==
    LET r == signing[s]
        welcome == /\ Week(r.slot) \in open
                   /\ ~Serves(r.vol, Week(r.slot))
                   /\ r.slot[2] \in Limited => ~Taken(r.slot, r.joined)
    IN
    /\ r.at = "checking"
    /\ \/ ~welcome /\ Refuses(s)
       \/ /\ welcome
          /\ signing' = [signing EXCEPT ![s].at = "inserting",
                           ![s].from = IF r.joined = {} THEN starts[Week(r.slot)] ELSE @]
    /\ UNCHANGED <<starts, open, labels, serving, edits, moved>>

\* The INSERT waits for whoever has inserted the same person in this week and
\* has not ended.  If they committed, uq_event_assignment refuses the row; that
\* is an exception, not a refusal, and takes the whole request with it.
Inserts(s) ==
    LET r == signing[s]
        now == [r EXCEPT !.joined = @ \cup {r.slot}]
    IN
    /\ r.at = "inserting"
    /\ \A t \in Signers \ {s} : ~HasInserted(t, r.vol, r.slot)
    /\ \/ /\ Serves(r.vol, Week(r.slot))
          /\ signing' = [signing EXCEPT ![s] = NoSignUp]
       \/ /\ ~Serves(r.vol, Week(r.slot))
          /\ IF r.op = "sign_up_series" /\ r.joined = {}
             THEN signing' = [signing EXCEPT ![s] = [now EXCEPT !.at = "sweeping"]]
             ELSE GoesOn(s, now)
    /\ UNCHANGED <<starts, open, labels, serving, edits, moved>>

\* Broken: the weeks before the one clicked are swept too.
OtherWeeks(r) ==
    {row \in Rows :
        /\ row.start = starts[Week(row.slot)]
        /\ Week(row.slot) \in open
        /\ \E first \in r.joined :
             /\ labels[row.slot] = labels[first]
             /\ Week(row.slot) # Week(first)}

\* The rows of the series that start after the week it began with and have a
\* slot of the same name.
LaterWeeks(r) ==
    {row \in Rows :
        /\ row.start = starts[Week(row.slot)]
        /\ row.start > r.from
        /\ Week(row.slot) \in open
        /\ \E first \in r.joined :
             labels[row.slot] # "gone" /\ labels[row.slot] = labels[first]}

Sweeps(s) ==
    /\ signing[s].at = "sweeping"
    /\ GoesOn(s, [signing[s] EXCEPT !.rest = LaterWeeks(signing[s])])
    /\ UNCHANGED <<starts, open, labels, serving, edits, moved>>

Commits(s) ==
    /\ signing[s].at = "committing"
    /\ serving' = serving \cup {<<k, signing[s].vol>> : k \in signing[s].joined}
    /\ signing' = [signing EXCEPT ![s] = NoSignUp]
    /\ UNCHANGED <<starts, open, labels, edits, moved>>

\* A lost connection, or the victim of a deadlock.
RollsBack(s) ==
    /\ signing[s].at # "idle"
    /\ signing' = [signing EXCEPT ![s] = NoSignUp]
    /\ UNCHANGED <<starts, open, labels, serving, edits, moved>>

-----------------------------------------------------------------------------
(* What others do meanwhile.                                               *)

Edits ==
    /\ edits < MaxEdits
    /\ edits' = edits + 1

\* update_event, with another time.
Moves(w) ==
    /\ Edits
    /\ \E t \in 1..LastStart : starts' = [starts EXCEPT ![w] = t]
    /\ moved' = (moved \/ \E s \in Signers : signing[s].at # "idle")
    /\ UNCHANGED <<open, labels, serving, signing>>

\* cancel_event.
Cancels(w) ==
    /\ Edits
    /\ open' = open \ {w}
    /\ UNCHANGED <<starts, labels, serving, signing, moved>>

\* update_slot with another name.
Renames(k) ==
    /\ Edits
    /\ labels[k] # "gone"
    /\ ~Locked(k)
    /\ labels' = [labels EXCEPT ![k] = "renamed"]
    /\ \A p \in Places \ {k[2]} : labels[<<Week(k), p>>] # "renamed"
    /\ UNCHANGED <<starts, open, serving, signing, moved>>

\* delete_slot: nobody is on it when the request looks, and another one is left.
Deletes(k) ==
    /\ Edits
    /\ ~Locked(k)
    /\ labels[k] # "gone"
    /\ \A n \in serving : n[1] # k
    /\ \E p \in Places \ {k[2]} : labels[<<Week(k), p>>] # "gone"
    /\ labels' = [labels EXCEPT ![k] = "gone"]
    /\ UNCHANGED <<starts, open, serving, signing, moved>>

\* remove_assignment.
Withdraws(n) ==
    /\ Edits
    /\ serving' = serving \ {n}
    /\ UNCHANGED <<starts, open, labels, signing, moved>>

\* create_event with repeat_weekly_until: a row per week, each with its own
\* copy of the slots.
SeriesInit ==
    /\ starts = [w \in Weeks |-> w]
    /\ open = Weeks
    /\ labels = [k \in Slots |-> k[2]]
    /\ serving = {}
    /\ signing = [s \in Signers |-> NoSignUp]
    /\ edits = 0
    /\ moved = FALSE

SeriesNext ==
    \/ \E s \in Signers :
         \/ \E v \in Helpers, k \in Slots, op \in Ops : Starts(s, v, k, op)
         \/ LocksSlot(s) \/ Checks(s) \/ Inserts(s) \/ Sweeps(s) \/ Commits(s)
         \/ RollsBack(s)
    \/ \E w \in Weeks : Moves(w) \/ Cancels(w)
    \/ \E k \in Slots : Renames(k) \/ Deletes(k)
    \/ \E n \in serving : Withdraws(n)

SeriesSpec == SeriesInit /\ [][SeriesNext]_seriesVars

-----------------------------------------------------------------------------
\* Request s waits for t: for the row of a slot, or to learn what becomes of a
\* row with the same person in the same week.
WaitsFor(s, t) ==
    /\ s # t
    /\ \/ signing[s].at = "locking" /\ signing[s].slot \in Locks(t)
       \/ signing[s].at = "inserting" /\ HasInserted(t, signing[s].vol, signing[s].slot)

Before(v, w) == starts[v] < starts[w] \/ (starts[v] = starts[w] /\ v < w)

\* Request t is further on than s: it waits for nothing any more, or in a later
\* week, or in the same one with its lock.
FurtherOn(t, s) ==
    LET v == Week(signing[s].slot)
        w == Week(signing[t].slot)
    IN  \/ signing[t].at \notin {"locking", "inserting"}
        \/ Before(v, w)
        \/ v = w /\ signing[s].at = "locking" /\ signing[t].at = "inserting"

\* Sign-ups never wait for one another in a circle, however many there are and
\* wherever in the series each began: whoever waits, waits for one that is
\* further on.  The order of the sweep is all that stands behind this, so it
\* needs the events to keep their times meanwhile.
WaitsLookAhead ==
    moved \/ \A s, t \in Signers : WaitsFor(s, t) => FurtherOn(t, s)
=============================================================================
