---------------------------- MODULE RosterSheets ----------------------------
(***************************************************************************)
(* The sync of one team's roster with its Google Sheet                     *)
(* (services/roster_sheets.py, jobs/roster_sync.py, sheets/importer.py,    *)
(* sheets/exporter.py).  A sync reads the sheet, imports its rows in one   *)
(* transaction that adds and updates only, reads the roster back, clears   *)
(* the sheet and writes the roster into it.  The job does this every       *)
(* night; a leader may ask for it meanwhile, in either direction, with     *)
(* nothing to keep the two apart.  People edit the sheet by hand and the   *)
(* roster in the app, before, between and during the syncs.                *)
(*                                                                         *)
(* A sheet is the set of its rows, in the order of the roster or not: an   *)
(* import may come upon them in any.  A person's two names are one; phone  *)
(* and notes go the way of the address.  A row's role is Null also where   *)
(* its team or role cell cannot be made out.  The team is active and no    *)
(* task force.  Left out: the same row twice, a list of matches in which   *)
(* two rows of one sync have put one person twice, a spreadsheet made and  *)
(* never recorded, and more than one sync asked for at a time.             *)
(***************************************************************************)
EXTENDS Naturals, FiniteSets

CONSTANTS
    People,         \* bound: ids of the volunteers there ever are
    Names, Addresses, Roles,
    Parishes,       \* who may be on record when the first sync comes
    Files,          \* bound: spreadsheets the team is ever linked to
    TypedRows,      \* rows people type into a sheet
    MaxEdits,       \* bound: edits by hand, in the app, and syncs asked for
    MaxMishaps,     \* bound: failed calls to Google, and crashes
    Null

Out == "out"

Persons ==
    [st : {"none", "active", "archived", "deleted"}, name : Names \cup {Null},
     email : Addresses \cup {Null}, role : Roles \cup {Out}]

Nobody == [st |-> "none", name |-> Null, email |-> Null, role |-> Out]

Rows ==
    [id : People \cup {Null}, name : Names \cup {Null},
     email : Addresses \cup {Null}, role : Roles \cup {Null}]

ASSUME SheetsAssumption ==
    /\ Null \notin Names /\ Null \notin Addresses /\ Null \notin Roles
    /\ Null \notin People /\ Null \notin Files
    /\ Out \notin Roles
    /\ Names \cap Addresses = {}
    /\ TypedRows \subseteq Rows
    /\ MaxEdits \in Nat /\ MaxMishaps \in Nat
    /\ Parishes \subseteq [People -> Persons]
    /\ \A parish \in Parishes, p \in People :
         IF parish[p].st = "none" THEN parish[p] = Nobody
         ELSE parish[p].st # "deleted" /\ parish[p].name # Null

VARIABLES
    people,     \* volunteer rows, each with its membership of the team
    sheets,     \* the spreadsheets in Google
    link,       \* team_sheet.file_id
    status,     \* team_sheet.last_status; "applied" stands for "unchanged" too
    syncs,      \* the syncs in progress
    edits, mishaps

sheetVars == <<people, sheets, link, status, syncs, edits, mishaps>>

Runs == {"nightly", "asked"}

\* A sheet without the header row of the roster is illegible.
SheetsOf ==
    [made : BOOLEAN, legible : BOOLEAN, sorted : BOOLEAN, rows : SUBSET Rows]

Unmade == [made |-> FALSE, legible |-> FALSE, sorted |-> TRUE, rows |-> {}]
Blank == [Unmade EXCEPT !.made = TRUE]
Template == [Blank EXCEPT !.legible = TRUE]

Syncs ==
    [at : {"idle", "creating", "to_import", "to_export", "reading", "loading",
           "importing", "exporting", "comparing", "clearing", "putting",
           "decorating"},
     file : Files \cup {Null},
     rows : SUBSET Rows,            \* still to import, or to write
     base : [People -> Persons],    \* as loaded by the transaction
     mine : [People -> Persons],    \* with what it has changed so far
     index : SUBSET ((Names \cup Addresses) \X People),
     licensed : SUBSET People,      \* whose details the sheet may rewrite
     gone : SUBSET People]          \* whose loaded membership is deleted by now

Empty == [p \in People |-> Nobody]

Idle ==
    [at |-> "idle", file |-> Null, rows |-> {}, base |-> Empty, mine |-> Empty,
     index |-> {}, licensed |-> {}, gone |-> {}]

SheetsTypeOK ==
    /\ people \in [People -> Persons]
    /\ sheets \in [Files -> SheetsOf]
    /\ link \in Files \cup {Null}
    /\ status \in {"none", "error", "applied"}
    /\ syncs \in [Runs -> Syncs]
    /\ edits \in 0..MaxEdits
    /\ mishaps \in 0..MaxMishaps

SheetsInit ==
    /\ people \in Parishes
    /\ sheets = [f \in Files |-> Unmade]
    /\ link = Null
    /\ status = "none"
    /\ syncs = [s \in Runs |-> Idle]
    /\ edits = 0 /\ mishaps = 0

Known(parish) == {p \in People : parish[p].st \in {"active", "archived"}}

Members(parish) == {p \in People : parish[p].role # Out}

\* build_roster_rows: one row per member, archived or not.
Listing(parish) ==
    {[id |-> p, name |-> parish[p].name, email |-> parish[p].email,
      role |-> parish[p].role] : p \in Members(parish)}

Step(s, at) == syncs' = [syncs EXCEPT ![s].at = at]

\* The sync ends, and its outcome is recorded.
End(s, outcome) ==
    /\ syncs' = [syncs EXCEPT ![s] = Idle]
    /\ status' = outcome

-----------------------------------------------------------------------------
(* How a sync starts: by the night, or asked for.                          *)

\* The job lists the teams first: one without a sheet is given one.
StartNightly ==
    /\ syncs["nightly"].at = "idle"
    /\ Step("nightly", IF link = Null THEN "creating" ELSE "to_import")
    /\ UNCHANGED <<people, sheets, link, status, edits, mishaps>>

\* An export skips the read and the import.
StartAsked(first) ==
    /\ syncs["asked"].at = "idle"
    /\ link # Null
    /\ edits < MaxEdits /\ edits' = edits + 1
    /\ syncs' = [syncs EXCEPT !["asked"].at = first, !["asked"].file = link]
    /\ UNCHANGED <<people, sheets, link, status, mishaps>>

IsNewFile(f) ==
    /\ ~sheets[f].made
    /\ f = CHOOSE g \in Files : ~sheets[g].made

\* create_for_team: whatever the link is by now, it becomes the new sheet.
CreateSheet(s) ==
    /\ syncs[s].at = "creating"
    /\ \E f \in Files :
         /\ IsNewFile(f)
         /\ sheets' = [sheets EXCEPT ![f] = Blank]
         /\ link' = f
    /\ Step(s, "to_export")
    /\ UNCHANGED <<people, status, edits, mishaps>>

\* sync_team goes by the link there is now, the way decided by the listing.
TakeLink(s) ==
    /\ syncs[s].at \in {"to_import", "to_export"}
    /\ syncs' = [syncs EXCEPT
                   ![s].at = IF @ = "to_import" THEN "reading" ELSE "exporting",
                   ![s].file = link]
    /\ UNCHANGED <<people, sheets, link, status, edits, mishaps>>

-----------------------------------------------------------------------------
(* The import: run_team_sync and apply_rows.                               *)

\* A sheet that cannot be parsed ends the sync, with nothing written back.
ReadSheet(s) ==
    LET sheet == sheets[syncs[s].file] IN
    /\ syncs[s].at = "reading"
    /\ IF sheet.legible
       THEN /\ syncs' = [syncs EXCEPT ![s].at = "loading", ![s].rows = sheet.rows]
            /\ UNCHANGED status
       ELSE End(s, "error")
    /\ UNCHANGED <<people, sheets, link, edits, mishaps>>

\* by_email and by_name, over everybody on record.
IndexOf(parish) ==
    {e \in (Names \cup Addresses) \X Known(parish) :
       e[1] \in {parish[e[2]].name, parish[e[2]].email}}

\* resolve_row.  By id when there is one, else by address, among those of one
\* address by name, and by name only where the address is blank.
Matches(row, parish, index) ==
    LET under(k) == {p \in People : <<k, p>> \in index}
        namesakes == {p \in under(row.email) : parish[p].name = row.name}
    IN
    CASE row.id # Null -> {row.id} \cap Known(parish)
      [] row.id = Null /\ row.email = Null -> under(row.name)
      [] OTHER -> IF Cardinality(under(row.email)) > 1 /\ namesakes # {}
                  THEN namesakes ELSE under(row.email)

\* Broken: whoever the sheet names may be rewritten.
LicensedIfNamed(rows, parish, index) ==
    Members(parish) \cup UNION {Matches(row, parish, index) : row \in rows}

\* The team's members, and the archived the sheet names.
Licensed(rows, parish, index) ==
    Members(parish)
    \cup {p \in Known(parish) \ Members(parish) :
            parish[p].st = "archived"
            /\ \E row \in rows : Matches(row, parish, index) = {p}}

LoadPeople(s) ==
    LET index == IndexOf(people) IN
    /\ syncs[s].at = "loading"
    /\ syncs' = [syncs EXCEPT ![s].at = "importing",
                              ![s].base = people, ![s].mine = people,
                              ![s].index = index,
                              ![s].licensed = Licensed(syncs[s].rows, people, index)]
    /\ UNCHANGED <<people, sheets, link, status, edits, mishaps>>

Found(s, row) == Matches(row, syncs[s].mine, syncs[s].index)

\* A name and a role are required; an id must be known and the match be one
\* person whom the sheet may rewrite.
Refused(s, row) ==
    \/ row.name = Null \/ row.role = Null
    \/ Cardinality(Found(s, row)) > 1
    \/ Found(s, row) = {} /\ row.id # Null
    \/ ~(Found(s, row) \subseteq syncs[s].licensed)

\* One bad row refuses the sheet whole: rolled back, and not written back.
RefuseSheet(s) ==
    /\ syncs[s].at = "importing"
    /\ \E row \in syncs[s].rows : Refused(s, row)
    /\ End(s, "error")
    /\ UNCHANGED <<people, sheets, link, edits, mishaps>>

\* The serial id the next INSERT takes: neither on record nor taken in flight.
IsNextPerson(p) ==
    LET Unused(q) == people[q] = Nobody /\ \A s \in Runs : syncs[s].mine[q] = Nobody
    IN  Unused(p) /\ p = CHOOSE q \in People : Unused(q)

AddPerson(s, row) ==
    /\ Found(s, row) = {}
    /\ \E p \in People :
         /\ IsNextPerson(p)
         /\ syncs' = [syncs EXCEPT
              ![s].rows = @ \ {row},
              ![s].mine[p] = [st |-> "active", name |-> row.name,
                              email |-> row.email, role |-> row.role],
              ![s].index = @ \cup ({row.name, row.email} \ {Null}) \X {p}]

\* A blank cell clears nothing.  Joining the team reactivates; being listed
\* on it does not.
UpdatePerson(s, row) ==
    \E p \in Found(s, row) :
       LET was == syncs[s].mine[p]
           email == IF row.email = Null THEN was.email ELSE row.email
       IN
       syncs' = [syncs EXCEPT
          ![s].rows = @ \ {row},
          ![s].mine[p] = [st |-> IF was.role = Out THEN "active" ELSE was.st,
                          name |-> row.name, email |-> email, role |-> row.role],
          ![s].index = @ \cup ({email} \ {was.email, Null}) \X {p}]

ImportRow(s, row) ==
    /\ syncs[s].at = "importing"
    /\ row \in syncs[s].rows
    /\ ~Refused(s, row)
    /\ AddPerson(s, row) \/ UpdatePerson(s, row)
    /\ UNCHANGED <<people, sheets, link, status, edits, mishaps>>

\* An UPDATE of a row deleted since it was loaded, or an INSERT of a
\* membership there is by now, or of somebody deleted.
Clashes(s) ==
    \E p \in People :
      LET was == syncs[s].base[p]
          mine == syncs[s].mine[p]
      IN  /\ was # Nobody /\ mine # was
          /\ \/ people[p].st = "deleted"
             \/ mine.role # was.role /\ p \in syncs[s].gone
             \/ was.role = Out /\ mine.role # Out /\ people[p].role # Out

\* Only changed columns are written.
Merged(base, mine) ==
    LET Column(was, now, there) == IF now # was THEN now ELSE there IN
    [p \in People |->
       IF base[p] = Nobody /\ mine[p] # Nobody THEN mine[p]
       ELSE [st |-> Column(base[p].st, mine[p].st, people[p].st),
             name |-> Column(base[p].name, mine[p].name, people[p].name),
             email |-> Column(base[p].email, mine[p].email, people[p].email),
             role |-> Column(base[p].role, mine[p].role, people[p].role)]]

CommitImport(s) ==
    /\ syncs[s].at = "importing" /\ syncs[s].rows = {}
    /\ ~Clashes(s)
    /\ people' = Merged(syncs[s].base, syncs[s].mine)
    /\ syncs' = [syncs EXCEPT ![s] = [Idle EXCEPT !.at = "exporting",
                                                  !.file = syncs[s].file]]
    /\ UNCHANGED <<sheets, link, status, edits, mishaps>>

\* The exception rolls everything back.  The job records it and goes on.
ImportFails(s) ==
    /\ syncs[s].at = "importing" /\ syncs[s].rows = {}
    /\ Clashes(s)
    /\ End(s, IF s = "nightly" THEN "error" ELSE status)
    /\ UNCHANGED <<people, sheets, link, edits, mishaps>>

-----------------------------------------------------------------------------
(* The write-back: export_sheet and write_rows.                            *)

ExportRoster(s) ==
    /\ syncs[s].at = "exporting"
    /\ syncs' = [syncs EXCEPT ![s].at = "comparing", ![s].rows = Listing(people)]
    /\ UNCHANGED <<people, sheets, link, status, edits, mishaps>>

\* A sheet that says the same already, in the same order, is not written.
Compare(s) ==
    LET sheet == sheets[syncs[s].file] IN
    /\ syncs[s].at = "comparing"
    /\ Step(s, IF sheet.legible /\ sheet.sorted /\ sheet.rows = syncs[s].rows
               THEN "decorating" ELSE "clearing")
    /\ UNCHANGED <<people, sheets, link, status, edits, mishaps>>

\* A sheet that cannot be read back is written anyway.
CompareUnread(s) ==
    /\ syncs[s].at = "comparing"
    /\ mishaps < MaxMishaps /\ mishaps' = mishaps + 1
    /\ Step(s, "clearing")
    /\ UNCHANGED <<people, sheets, link, status, edits>>

\* Broken: the old rows are left for the new to be written over.
ClearNothing(s) ==
    /\ syncs[s].at = "clearing"
    /\ Step(s, "putting")
    /\ UNCHANGED <<people, sheets, link, status, edits, mishaps>>

ClearSheet(s) ==
    /\ syncs[s].at = "clearing"
    /\ sheets' = [sheets EXCEPT ![syncs[s].file] = Blank]
    /\ Step(s, "putting")
    /\ UNCHANGED <<people, link, status, edits, mishaps>>

\* The header and the rows go over what has been typed since, or some of it.
PutRows(s) ==
    LET f == syncs[s].file IN
    /\ syncs[s].at = "putting"
    /\ \E rest \in SUBSET sheets[f].rows :
         sheets' = [sheets EXCEPT ![f] = [Template EXCEPT
                      !.rows = syncs[s].rows \cup rest, !.sorted = rest = {}]]
    /\ Step(s, "decorating")
    /\ UNCHANGED <<people, link, status, edits, mishaps>>

Decorate(s) ==
    /\ syncs[s].at = "decorating"
    /\ End(s, "applied")
    /\ UNCHANGED <<people, sheets, link, edits, mishaps>>

\* A call fails, or its answer is lost (which is its success and the failure of
\* the next): recorded against the team, whatever its link is by now.
CallFails(s) ==
    /\ syncs[s].at \in {"creating", "reading", "exporting", "clearing", "putting",
                        "decorating"}
    /\ mishaps < MaxMishaps /\ mishaps' = mishaps + 1
    /\ End(s, "error")
    /\ UNCHANGED <<people, sheets, link, edits>>

Crash ==
    /\ \E s \in Runs : syncs[s].at # "idle"
    /\ mishaps < MaxMishaps /\ mishaps' = mishaps + 1
    /\ syncs' = [s \in Runs |-> Idle]
    /\ UNCHANGED <<people, sheets, link, status, edits>>

-----------------------------------------------------------------------------
(* What people do meanwhile.                                               *)

\* In the sheet: a row typed, dropped, or typed over another; the rows moved;
\* the header row damaged or mended.
EditSheet(f) ==
    /\ sheets[f].made
    /\ \/ \E dropped \in SUBSET sheets[f].rows, typed \in SUBSET TypedRows,
            sorted \in BOOLEAN :
            /\ Cardinality(dropped) <= 1 /\ Cardinality(typed) <= 1
            /\ sheets' = [sheets EXCEPT ![f].rows = (@ \ dropped) \cup typed,
                                        ![f].sorted = sorted]
       \/ sheets' = [sheets EXCEPT ![f].legible = ~@]
    /\ sheets' # sheets
    /\ UNCHANGED <<people, link, status, syncs>>

\* set_roster_sheet, with a copy of the template or a sheet there was before.
LinkSheet(f) ==
    /\ link # f
    /\ \/ sheets[f].made /\ UNCHANGED sheets
       \/ /\ IsNewFile(f)
          /\ \E g \in Files \ {f} : ~sheets[g].made
          /\ sheets' = [sheets EXCEPT ![f] = Template]
    /\ link' = f
    /\ status' = "none"
    /\ UNCHANGED <<people, syncs>>

\* memberships.assign and set_role.
AssignRole(p, role) ==
    /\ p \in Known(people) /\ people[p].role # role
    /\ people' = [people EXCEPT ![p].role = role]
    /\ UNCHANGED <<sheets, link, status, syncs>>

\* Syncs in progress will not find the membership they loaded.
Forget(p) == syncs' = [s \in Runs |-> IF syncs[s].at = "importing"
                                     THEN [syncs[s] EXCEPT !.gone = @ \cup {p}]
                                     ELSE syncs[s]]

\* memberships.remove.
RemoveMember(p) ==
    /\ people[p].role # Out
    /\ people' = [people EXCEPT ![p].role = Out]
    /\ Forget(p)
    /\ UNCHANGED <<sheets, link, status>>

\* volunteers.update: the address, or is_active.
CorrectAddress(p, email) ==
    /\ p \in Known(people) /\ people[p].email # email
    /\ people' = [people EXCEPT ![p].email = email]
    /\ UNCHANGED <<sheets, link, status, syncs>>

ArchiveOrRestore(p) ==
    /\ p \in Known(people)
    /\ people' = [people EXCEPT ![p].st = IF @ = "active" THEN "archived" ELSE "active"]
    /\ UNCHANGED <<sheets, link, status, syncs>>

\* volunteers.delete: the membership goes with the row.
DeletePerson(p) ==
    /\ p \in Known(people)
    /\ people' = [people EXCEPT ![p] = [Nobody EXCEPT !.st = "deleted"]]
    /\ Forget(p)
    /\ UNCHANGED <<sheets, link, status>>

Edit ==
    /\ edits < MaxEdits /\ edits' = edits + 1
    /\ UNCHANGED mishaps
    /\ \/ \E f \in Files : EditSheet(f) \/ LinkSheet(f)
       \/ \E p \in People :
            \/ \E role \in Roles : AssignRole(p, role)
            \/ \E email \in Addresses \cup {Null} : CorrectAddress(p, email)
            \/ RemoveMember(p) \/ ArchiveOrRestore(p) \/ DeletePerson(p)

SyncStep(s) ==
    \/ CreateSheet(s) \/ TakeLink(s) \/ ReadSheet(s) \/ LoadPeople(s) \/ RefuseSheet(s)
    \/ \E row \in syncs[s].rows : ImportRow(s, row)
    \/ CommitImport(s) \/ ImportFails(s)
    \/ ExportRoster(s) \/ Compare(s) \/ ClearSheet(s) \/ PutRows(s) \/ Decorate(s)

NightlyStep == StartNightly \/ SyncStep("nightly")

SheetsNext ==
    \/ NightlyStep \/ SyncStep("asked")
    \/ \E first \in {"reading", "exporting"} : StartAsked(first)
    \/ \E s \in Runs : CompareUnread(s) \/ CallFails(s)
    \/ Crash
    \/ Edit

\* Every night brings a sync, and a sync goes on until it ends.  Syncs asked
\* for may be left half done.
SheetsSpec ==
    SheetsInit /\ [][SheetsNext]_sheetVars /\ WF_sheetVars(NightlyStep)

-----------------------------------------------------------------------------
(* Properties.                                                             *)

InStep ==
    link # Null /\ sheets[link].legible /\ sheets[link].rows = Listing(people)

\* Once people leave both sides alone the sheet comes to show the roster and
\* keeps showing it, or the team page keeps saying that it cannot: however
\* edits, syncs, failed calls and crashes fell between a read, an import, a
\* clear and a write, they leave no half-written sheet that reads as synced
\* and no two sides that go on rewriting each other.
SheetSettles == <>[](InStep \/ status = "error")

\* An import takes nobody off the team and blanks no address; whom it changes
\* was new, on the team or archived when it began; and whom it brings back
\* from the archive has joined the team by it.
SheetKeepsToItsTeam ==
    [][\A s \in Runs :
         (syncs[s].at = "importing" /\ syncs'[s].at = "exporting")
           => \A p \in People :
                LET was == syncs[s].base[p]
                    now == people'[p]
                IN  now # people[p] =>
                      /\ was = Nobody \/ was.role # Out \/ was.st = "archived"
                      /\ people[p].role # Out => now.role # Out
                      /\ people[p].email # Null => now.email # Null
                      /\ now.st # people[p].st => was.role = Out /\ now.role # Out
      ]_sheetVars
=============================================================================
