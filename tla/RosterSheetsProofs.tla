------------------------- MODULE RosterSheetsProofs -------------------------
(* What a sync of a roster sheet can do to the people on record, whatever  *)
(* the number of people, rows, files, edits and failed calls: that it      *)
(* keeps to its team.  The invariant says what a transaction in progress   *)
(* has changed, and of whom, while others commit around it.                *)
EXTENDS RosterSheets, TLAPS

\* A person without an id yet is nobody.
NobodyIsNone == \A p \in People : people[p].st = "none" => people[p] = Nobody

\* A person the sync is adding: known to nobody else.
Made(s, p) ==
    /\ syncs[s].base[p] = Nobody
    /\ syncs[s].mine[p].st = "active" /\ syncs[s].mine[p].role # Out
    /\ people[p] = Nobody
    /\ \A t \in Runs \ {s} : syncs[t].mine[p] = Nobody

\* A person the sync found, and what it may have changed of them.
Changed(s, p) ==
    LET was == syncs[s].base[p]
        now == syncs[s].mine[p]
    IN  /\ was.role # Out \/ was.st = "archived"
        /\ now.role # Out
        /\ now.email # was.email => now.email # Null
        /\ now.st # was.st => was.role = Out /\ now.st = "active"

\* Only an import holds anything; whom it may rewrite was of the team or
\* archived; nobody it has loaded is unknown by now.
SyncIsSound(s) ==
    /\ syncs[s].at # "importing" =>
         syncs[s].base = Empty /\ syncs[s].mine = Empty /\ syncs[s].licensed = {}
    /\ \A p \in syncs[s].licensed :
         syncs[s].base[p].role # Out \/ syncs[s].base[p].st = "archived"
    /\ \A p \in People : syncs[s].base[p] # Nobody => people[p] # Nobody
    /\ \A p \in People :
         syncs[s].mine[p] # syncs[s].base[p] => Made(s, p) \/ Changed(s, p)

SheetsInv ==
    /\ SheetsTypeOK
    /\ NobodyIsNone
    /\ \A s \in Runs : SyncIsSound(s)

\* A sync under way has a sheet; the team has one when a sync is about to
\* take it.
FilesAreKnown ==
    \A s \in Runs :
      /\ syncs[s].at \in {"to_import", "to_export"} => link \in Files
      /\ syncs[s].at \in {"reading", "loading", "importing", "exporting", "comparing",
                          "clearing", "putting", "decorating"}
           => syncs[s].file \in Files

USE DEF Runs

-----------------------------------------------------------------------------
(* Persons and syncs are records of their types.                           *)

LEMMA PersonFields ==
    ASSUME NEW q \in Persons
    PROVE  /\ q.st \in {"none", "active", "archived", "deleted"}
           /\ q.name \in Names \cup {Null}
           /\ q.email \in Addresses \cup {Null}
           /\ q.role \in Roles \cup {Out}
           /\ q = [st |-> q.st, name |-> q.name, email |-> q.email, role |-> q.role]
  BY DEF Persons

LEMMA NobodyIsAPerson == Nobody \in Persons
  BY DEF Nobody, Persons

LEMMA IdleIsASync == Idle \in Syncs
  BY NobodyIsAPerson DEF Idle, Syncs, Empty

\* A step that leaves the transactions in progress alone, or ends them, and
\* makes nobody of somebody nor somebody of nobody, keeps them sound.
LEMMA CalmStep ==
    ASSUME SheetsInv, SheetsTypeOK', NobodyIsNone',
           \A p \in People : people'[p] = Nobody <=> people[p] = Nobody,
           \A s \in Runs :
             \/ syncs'[s] = Idle
             \/ /\ syncs'[s].base = syncs[s].base
                /\ syncs'[s].mine = syncs[s].mine
                /\ syncs'[s].licensed = syncs[s].licensed
                /\ syncs'[s].at = "importing" <=> syncs[s].at = "importing"
    PROVE  SheetsInv'
<1>1. ASSUME NEW s \in Runs PROVE SyncIsSound(s)'
  <2>0. SyncIsSound(s)
    BY DEF SheetsInv
  <2>1. CASE syncs'[s] = Idle
    BY <2>1 DEF SyncIsSound, Idle, Empty
  <2>2. CASE /\ syncs'[s].base = syncs[s].base
             /\ syncs'[s].mine = syncs[s].mine
             /\ syncs'[s].licensed = syncs[s].licensed
             /\ syncs'[s].at = "importing" <=> syncs[s].at = "importing"
    <3>1. ASSUME NEW p \in People, Made(s, p) PROVE Made(s, p)'
      <4>1. ASSUME NEW t \in Runs \ {s} PROVE syncs'[t].mine[p] = Nobody
        BY <3>1, <4>1 DEF Made, Idle, Empty
      <4> QED BY <2>2, <3>1, <4>1 DEF Made
    <3>2. ASSUME NEW p \in People, Changed(s, p) PROVE Changed(s, p)'
      BY <2>2, <3>2 DEF Changed
    <3>3. \A p \in People : syncs'[s].base[p] # Nobody => people'[p] # Nobody
      BY <2>0, <2>2 DEF SyncIsSound
    <3>4. \A p \in People : syncs'[s].mine[p] # syncs'[s].base[p]
                              => Made(s, p)' \/ Changed(s, p)'
      BY <2>0, <2>2, <3>1, <3>2 DEF SyncIsSound
    <3>5. /\ syncs'[s].at # "importing" =>
               syncs'[s].base = Empty /\ syncs'[s].mine = Empty
               /\ syncs'[s].licensed = {}
          /\ \A p \in syncs'[s].licensed :
               syncs'[s].base[p].role # Out \/ syncs'[s].base[p].st = "archived"
      BY <2>0, <2>2 DEF SyncIsSound
    <3> QED BY <3>3, <3>4, <3>5 DEF SyncIsSound, Empty
  <2> QED BY <2>1, <2>2
<1> QED BY <1>1 DEF SheetsInv

-----------------------------------------------------------------------------
(* The initial states, and the steps that touch nobody.                    *)

LEMMA SheetsInitInv == ASSUME SheetsAssumption, SheetsInit PROVE SheetsInv
<1>1. SheetsTypeOK
  <2>1. people \in [People -> Persons]
    BY DEF SheetsInit, SheetsAssumption
  <2>2. sheets \in [Files -> SheetsOf]
    BY DEF SheetsInit, SheetsOf, Unmade
  <2>3. syncs \in [Runs -> Syncs]
    BY IdleIsASync DEF SheetsInit
  <2> QED BY <2>1, <2>2, <2>3 DEF SheetsInit, SheetsTypeOK, SheetsAssumption
<1>2. NobodyIsNone
  BY DEF SheetsInit, SheetsAssumption, NobodyIsNone
<1>3. \A s \in Runs : SyncIsSound(s)
  BY DEF SheetsInit, SyncIsSound, Idle, Empty
<1> QED BY <1>1, <1>2, <1>3 DEF SheetsInv

\* Where a sync that holds no transaction may stand.
Places ==
    {"idle", "creating", "to_import", "to_export", "reading", "loading",
     "exporting", "comparing", "clearing", "putting", "decorating"}

\* A step of one sync that is outside its transaction before and after.
LEMMA OutsideStep ==
    ASSUME SheetsInv, NEW s \in Runs, syncs[s].at \in Places,
           NEW u \in Syncs, u.at \in Places,
           u = Idle \/ (u.base = syncs[s].base /\ u.mine = syncs[s].mine
                        /\ u.licensed = syncs[s].licensed),
           syncs' = [syncs EXCEPT ![s] = u],
           people' = people, sheets' \in [Files -> SheetsOf],
           link' \in Files \cup {Null}, status' \in {"none", "error", "applied"},
           edits' \in 0..MaxEdits, mishaps' \in 0..MaxMishaps
    PROVE  SheetsInv'
<1>1. SheetsTypeOK'
  BY DEF SheetsInv, SheetsTypeOK
<1>2. NobodyIsNone'
  BY DEF SheetsInv, NobodyIsNone
<1>3. ASSUME NEW t \in Runs
      PROVE  \/ syncs'[t] = Idle
             \/ /\ syncs'[t].base = syncs[t].base
                /\ syncs'[t].mine = syncs[t].mine
                /\ syncs'[t].licensed = syncs[t].licensed
                /\ syncs'[t].at = "importing" <=> syncs[t].at = "importing"
  <2>1. syncs \in [Runs -> Syncs]
    BY DEF SheetsInv, SheetsTypeOK
  <2>2. CASE t = s
    BY <2>1, <2>2 DEF Places
  <2>3. CASE t # s
    BY <2>1, <2>3
  <2> QED BY <2>2, <2>3
<1> QED BY <1>1, <1>2, <1>3, CalmStep

\* Step moves one sync and leaves the rest of it alone.
LEMMA StepMoves ==
    ASSUME SheetsInv, NEW s \in Runs, NEW at \in Places, Step(s, at)
    PROVE  \E u \in Syncs :
             /\ u.at = at /\ u.base = syncs[s].base /\ u.mine = syncs[s].mine
             /\ u.licensed = syncs[s].licensed
             /\ syncs' = [syncs EXCEPT ![s] = u]
<1> DEFINE u == [syncs[s] EXCEPT !.at = at]
<1>1. syncs[s] \in Syncs
  BY DEF SheetsInv, SheetsTypeOK
<1>2. u \in Syncs /\ u.at = at /\ u.base = syncs[s].base /\ u.mine = syncs[s].mine
      /\ u.licensed = syncs[s].licensed
  BY <1>1 DEF Syncs, Places
<1>3. syncs' = [syncs EXCEPT ![s] = u]
  BY DEF Step
<1> QED BY <1>2, <1>3

LEMMA ListingIsRows == ASSUME people \in [People -> Persons] PROVE Listing(people) \subseteq Rows
<1> SUFFICES ASSUME NEW p \in People, people[p].role # Out
             PROVE  [id |-> p, name |-> people[p].name, email |-> people[p].email,
                     role |-> people[p].role] \in Rows
  BY DEF Listing, Members
<1>1. people[p] \in Persons
  OBVIOUS
<1> QED BY <1>1, PersonFields DEF Rows

LEMMA StartNightlyInv == ASSUME SheetsInv, StartNightly PROVE SheetsInv'
<1> DEFINE at == IF link = Null THEN "creating" ELSE "to_import"
<1>1. at \in Places /\ Step("nightly", at) /\ syncs["nightly"].at \in Places
  BY DEF StartNightly, Places
<1>2. PICK u \in Syncs :
         /\ u.at = at /\ u.base = syncs["nightly"].base
         /\ u.mine = syncs["nightly"].mine
         /\ u.licensed = syncs["nightly"].licensed
         /\ syncs' = [syncs EXCEPT !["nightly"] = u]
  BY <1>1, StepMoves
<1> HIDE DEF at
<1> QED BY <1>1, <1>2, OutsideStep DEF StartNightly, SheetsInv, SheetsTypeOK

LEMMA StartAskedInv ==
    ASSUME SheetsInv, SheetsAssumption, NEW first \in {"reading", "exporting"}, StartAsked(first)
    PROVE  SheetsInv'
<1> DEFINE u == [syncs["asked"] EXCEPT !.at = first, !.file = link]
<1>1. syncs["asked"] \in Syncs /\ link \in Files \cup {Null} /\ edits \in 0..MaxEdits
  BY DEF SheetsInv, SheetsTypeOK
<1>2. u \in Syncs /\ u.at \in Places /\ u.base = syncs["asked"].base
      /\ u.mine = syncs["asked"].mine /\ u.licensed = syncs["asked"].licensed
  BY <1>1 DEF Syncs, Places
<1>3. syncs' = [syncs EXCEPT !["asked"] = u] /\ syncs["asked"].at \in Places
  BY DEF StartAsked, Places
<1>4. edits' \in 0..MaxEdits
  BY <1>1 DEF StartAsked, SheetsAssumption
<1> HIDE DEF u
<1> QED BY <1>2, <1>3, <1>4, OutsideStep DEF StartAsked, SheetsInv, SheetsTypeOK

LEMMA CreateSheetInv ==
    ASSUME SheetsInv, NEW s \in Runs, CreateSheet(s)
    PROVE  SheetsInv'
<1>1. Step(s, "to_export") /\ syncs[s].at \in Places /\ "to_export" \in Places
  BY DEF CreateSheet, Places
<1>2. PICK u \in Syncs :
         /\ u.at = "to_export" /\ u.base = syncs[s].base /\ u.mine = syncs[s].mine
         /\ u.licensed = syncs[s].licensed
         /\ syncs' = [syncs EXCEPT ![s] = u]
  BY <1>1, StepMoves
<1>3. PICK f \in Files : sheets' = [sheets EXCEPT ![f] = Blank] /\ link' = f
  BY DEF CreateSheet
<1>4. sheets' \in [Files -> SheetsOf] /\ link' \in Files \cup {Null}
  BY <1>3 DEF SheetsInv, SheetsTypeOK, Blank, Unmade, SheetsOf
<1> QED BY <1>1, <1>2, <1>4, OutsideStep DEF CreateSheet, SheetsInv, SheetsTypeOK

LEMMA TakeLinkInv == ASSUME SheetsInv, NEW s \in Runs, TakeLink(s) PROVE SheetsInv'
<1> DEFINE u == [syncs[s] EXCEPT
                   !.at = IF @ = "to_import" THEN "reading" ELSE "exporting",
                   !.file = link]
<1>1. syncs[s] \in Syncs /\ link \in Files \cup {Null}
  BY DEF SheetsInv, SheetsTypeOK
<1>2. u \in Syncs /\ u.at \in Places /\ u.base = syncs[s].base
      /\ u.mine = syncs[s].mine /\ u.licensed = syncs[s].licensed
  BY <1>1, ZenonT(60) DEF Syncs, Places
<1>3. syncs' = [syncs EXCEPT ![s] = u] /\ syncs[s].at \in Places
  BY DEF TakeLink, Places
<1> HIDE DEF u
<1> QED BY <1>2, <1>3, OutsideStep DEF TakeLink, SheetsInv, SheetsTypeOK

\* A sync that ends outside its transaction.
LEMMA EndInv ==
    ASSUME SheetsInv, NEW s \in Runs,
           NEW outcome \in {"none", "error", "applied"}, End(s, outcome),
           people' = people, sheets' = sheets, link' = link, edits' = edits,
           mishaps' \in 0..MaxMishaps
    PROVE  SheetsInv'
<1>1. SheetsTypeOK'
  BY IdleIsASync DEF SheetsInv, SheetsTypeOK, End
<1>2. NobodyIsNone'
  BY DEF SheetsInv, NobodyIsNone
<1>3. ASSUME NEW t \in Runs
      PROVE  \/ syncs'[t] = Idle
             \/ /\ syncs'[t].base = syncs[t].base
                /\ syncs'[t].mine = syncs[t].mine
                /\ syncs'[t].licensed = syncs[t].licensed
                /\ syncs'[t].at = "importing" <=> syncs[t].at = "importing"
  BY DEF End, SheetsInv, SheetsTypeOK
<1> QED BY <1>1, <1>2, <1>3, CalmStep

LEMMA ReadSheetInv ==
    ASSUME SheetsInv, FilesAreKnown, NEW s \in Runs, ReadSheet(s)
    PROVE  SheetsInv'
<1> DEFINE rows == sheets[syncs[s].file].rows
           u == [syncs[s] EXCEPT !.at = "loading", !.rows = rows]
<1>1. CASE sheets[syncs[s].file].legible
  <2>1. syncs' = [syncs EXCEPT ![s] = u] /\ syncs[s].at \in Places /\ status' = status
    BY <1>1 DEF ReadSheet, Places
  <2>2. syncs[s] \in Syncs
    BY DEF SheetsInv, SheetsTypeOK
  <2>3. rows \subseteq Rows
    BY DEF FilesAreKnown, ReadSheet, SheetsInv, SheetsTypeOK, SheetsOf
  <2>4. u \in Syncs /\ u.at \in Places /\ u.base = syncs[s].base
        /\ u.mine = syncs[s].mine /\ u.licensed = syncs[s].licensed
    BY <2>2, <2>3 DEF Syncs, Places
  <2> HIDE DEF u
  <2> QED BY <2>1, <2>4, OutsideStep DEF ReadSheet, SheetsInv, SheetsTypeOK
<1>2. CASE ~sheets[syncs[s].file].legible
  BY <1>2, EndInv DEF ReadSheet, SheetsInv, SheetsTypeOK
<1> QED BY <1>1, <1>2

LEMMA ExportRosterInv ==
    ASSUME SheetsInv, NEW s \in Runs, ExportRoster(s)
    PROVE  SheetsInv'
<1> DEFINE u == [syncs[s] EXCEPT !.at = "comparing", !.rows = Listing(people)]
<1>1. syncs[s] \in Syncs /\ Listing(people) \subseteq Rows
  BY ListingIsRows DEF SheetsInv, SheetsTypeOK
<1>2. u \in Syncs /\ u.at \in Places /\ u.base = syncs[s].base
      /\ u.mine = syncs[s].mine /\ u.licensed = syncs[s].licensed
  BY <1>1 DEF Syncs, Places
<1>3. syncs' = [syncs EXCEPT ![s] = u] /\ syncs[s].at \in Places
  BY DEF ExportRoster, Places
<1> HIDE DEF u
<1> QED BY <1>2, <1>3, OutsideStep DEF ExportRoster, SheetsInv, SheetsTypeOK

\* A step that moves one sync and at most rewrites sheets.
LEMMA StepInv ==
    ASSUME SheetsInv, NEW s \in Runs, syncs[s].at \in Places, NEW at \in Places, Step(s, at),
           people' = people, sheets' \in [Files -> SheetsOf], link' = link,
           status' = status, edits' = edits, mishaps' \in 0..MaxMishaps
    PROVE  SheetsInv'
<1>1. PICK u \in Syncs :
         /\ u.at = at /\ u.base = syncs[s].base /\ u.mine = syncs[s].mine
         /\ u.licensed = syncs[s].licensed
         /\ syncs' = [syncs EXCEPT ![s] = u]
  BY StepMoves
<1> QED BY <1>1, OutsideStep, ZenonT(40) DEF SheetsInv, SheetsTypeOK

LEMMA CompareInv == ASSUME SheetsInv, NEW s \in Runs, Compare(s) PROVE SheetsInv'
<1>1. PICK at \in {"decorating", "clearing"} : Step(s, at)
  BY DEF Compare
<1>2. at \in Places /\ syncs[s].at \in Places
  BY <1>1 DEF Compare, Places
<1> QED BY <1>1, <1>2, StepInv DEF Compare, SheetsInv, SheetsTypeOK

LEMMA CompareUnreadInv ==
    ASSUME SheetsInv, SheetsAssumption, NEW s \in Runs, CompareUnread(s)
    PROVE  SheetsInv'
<1>1. Step(s, "clearing") /\ syncs[s].at \in Places /\ "clearing" \in Places
  BY DEF CompareUnread, Places
<1>2. mishaps' \in 0..MaxMishaps
  BY DEF CompareUnread, SheetsInv, SheetsTypeOK, SheetsAssumption
<1> QED BY <1>1, <1>2, StepInv DEF CompareUnread, SheetsInv, SheetsTypeOK

LEMMA ClearSheetInv == ASSUME SheetsInv, NEW s \in Runs, ClearSheet(s) PROVE SheetsInv'
<1>1. Step(s, "putting") /\ syncs[s].at \in Places /\ "putting" \in Places
  BY DEF ClearSheet, Places
<1>2. sheets' \in [Files -> SheetsOf]
  BY DEF ClearSheet, SheetsInv, SheetsTypeOK, Blank, Unmade, SheetsOf
<1> QED BY <1>1, <1>2, StepInv DEF ClearSheet, SheetsInv, SheetsTypeOK

LEMMA PutRowsInv ==
    ASSUME SheetsInv, FilesAreKnown, NEW s \in Runs, PutRows(s)
    PROVE  SheetsInv'
<1> DEFINE f == syncs[s].file
<1>1. Step(s, "decorating") /\ syncs[s].at \in Places /\ "decorating" \in Places
  BY DEF PutRows, Places
<1>2. PICK rest \in SUBSET sheets[f].rows :
         sheets' = [sheets EXCEPT ![f] = [Template EXCEPT
                      !.rows = syncs[s].rows \cup rest, !.sorted = rest = {}]]
  BY DEF PutRows
<1>3. f \in Files /\ sheets[f] \in SheetsOf /\ syncs[s] \in Syncs
  BY DEF PutRows, FilesAreKnown, SheetsInv, SheetsTypeOK
<1>4. syncs[s].rows \cup rest \in SUBSET Rows
  BY <1>3 DEF SheetsOf, Syncs
<1>5. [Template EXCEPT !.rows = syncs[s].rows \cup rest, !.sorted = rest = {}] \in SheetsOf
  BY <1>4 DEF Template, Blank, Unmade, SheetsOf
<1>6. sheets' \in [Files -> SheetsOf]
  BY <1>2, <1>5 DEF SheetsInv, SheetsTypeOK
<1> QED BY <1>1, <1>6, StepInv DEF PutRows, SheetsInv, SheetsTypeOK

LEMMA DecorateInv == ASSUME SheetsInv, NEW s \in Runs, Decorate(s) PROVE SheetsInv'
  BY EndInv DEF Decorate, SheetsInv, SheetsTypeOK

LEMMA RefuseSheetInv == ASSUME SheetsInv, NEW s \in Runs, RefuseSheet(s) PROVE SheetsInv'
  BY EndInv DEF RefuseSheet, SheetsInv, SheetsTypeOK

LEMMA ImportFailsInv == ASSUME SheetsInv, NEW s \in Runs, ImportFails(s) PROVE SheetsInv'
  BY EndInv DEF ImportFails, SheetsInv, SheetsTypeOK

LEMMA CallFailsInv ==
    ASSUME SheetsInv, SheetsAssumption, NEW s \in Runs, CallFails(s)
    PROVE  SheetsInv'
<1>1. mishaps' \in 0..MaxMishaps
  BY DEF CallFails, SheetsInv, SheetsTypeOK, SheetsAssumption
<1> QED BY <1>1, EndInv DEF CallFails

LEMMA CrashInv == ASSUME SheetsInv, SheetsAssumption, Crash PROVE SheetsInv'
<1>1. SheetsTypeOK'
  <2>1. mishaps' \in 0..MaxMishaps
    BY DEF Crash, SheetsInv, SheetsTypeOK, SheetsAssumption
  <2>2. syncs' \in [Runs -> Syncs]
    BY IdleIsASync DEF Crash
  <2> QED BY <2>1, <2>2 DEF Crash, SheetsInv, SheetsTypeOK
<1>2. NobodyIsNone'
  BY DEF Crash, SheetsInv, NobodyIsNone
<1>3. \A t \in Runs : syncs'[t] = Idle
  BY DEF Crash
<1> QED BY <1>1, <1>2, <1>3, CalmStep DEF Crash

-----------------------------------------------------------------------------
(* The import.                                                             *)

\* Whom a sheet may rewrite was of the team, or is archived.
LEMMA LicensedAreKnown ==
    ASSUME NEW rows, NEW index, NEW p \in Licensed(rows, people, index)
    PROVE  p \in People /\ (people[p].role # Out \/ people[p].st = "archived")
  BY DEF Licensed, Members, Known

\* Transactions in progress elsewhere, when one sync changes its own.
LEMMA OthersAreSound ==
    ASSUME SheetsInv, NEW s \in Runs, NEW u, syncs' = [syncs EXCEPT ![s] = u],
           people' = people, NEW t \in Runs \ {s},
           \A p \in People : Made(t, p) => u.mine[p] = Nobody
    PROVE  SyncIsSound(t)'
<1>1. syncs'[t] = syncs[t] /\ syncs'[s] = u
  BY DEF SheetsInv, SheetsTypeOK
<1>2. SyncIsSound(t)
  BY DEF SheetsInv
<1>3. ASSUME NEW p \in People, Made(t, p) PROVE Made(t, p)'
  <2>1. ASSUME NEW r \in Runs \ {t} PROVE syncs'[r].mine[p] = Nobody
    BY <1>1, <1>3
  <2> QED BY <1>1, <1>3, <2>1 DEF Made
<1>4. \A p \in People : Changed(t, p) => Changed(t, p)'
  BY <1>1 DEF Changed
<1> QED BY <1>1, <1>2, <1>3, <1>4 DEF SyncIsSound, Empty

LEMMA LoadPeopleInv == ASSUME SheetsInv, NEW s \in Runs, LoadPeople(s) PROVE SheetsInv'
<1> DEFINE index == IndexOf(people)
           u == [syncs[s] EXCEPT !.at = "importing", !.base = people, !.mine = people,
                                 !.index = index,
                                 !.licensed = Licensed(syncs[s].rows, people, index)]
<1>1. /\ syncs[s] \in Syncs /\ syncs \in [Runs -> Syncs]
      /\ people \in [People -> Persons]
  BY DEF SheetsInv, SheetsTypeOK
<1>2. syncs' = [syncs EXCEPT ![s] = u] /\ people' = people
  BY DEF LoadPeople
<1>3. index \in SUBSET ((Names \cup Addresses) \X People)
  BY DEF IndexOf, Known
<1>4. Licensed(syncs[s].rows, people, index) \subseteq People
  BY LicensedAreKnown
<1>5. u \in Syncs
  BY <1>1, <1>3, <1>4 DEF Syncs
<1>6. SheetsTypeOK'
  BY <1>2, <1>5 DEF LoadPeople, SheetsInv, SheetsTypeOK
<1>7. NobodyIsNone'
  BY <1>2 DEF SheetsInv, NobodyIsNone
<1>8. SyncIsSound(s)'
  <2>1. /\ syncs'[s].at = "importing" /\ syncs'[s].base = people
        /\ syncs'[s].mine = people
        /\ syncs'[s].licensed = Licensed(syncs[s].rows, people, index)
    BY <1>1, <1>2 DEF Syncs
  <2> HIDE DEF index
  <2> QED BY <1>2, <2>1, LicensedAreKnown DEF SyncIsSound
<1>9. ASSUME NEW t \in Runs \ {s} PROVE SyncIsSound(t)'
  <2>1. u.mine = people
    BY <1>1 DEF Syncs
  <2>2. \A p \in People : Made(t, p) => u.mine[p] = Nobody
    BY <2>1 DEF Made
  <2> HIDE DEF u
  <2> QED BY <1>2, <2>2, OthersAreSound
<1> QED BY <1>6, <1>7, <1>8, <1>9 DEF SheetsInv

\* Whom a row is taken for is on record, or was added by the sync.
LEMMA FoundAreKnown ==
    ASSUME SheetsInv, NEW s \in Runs, NEW row, NEW p \in Found(s, row)
    PROVE  p \in People
  BY DEF Found, Matches, Known

LEMMA AddPersonInv ==
    ASSUME SheetsInv, SheetsAssumption, NEW s \in Runs, NEW row \in syncs[s].rows,
           syncs[s].at = "importing", ~Refused(s, row), AddPerson(s, row),
           UNCHANGED <<people, sheets, link, status, edits, mishaps>>
    PROVE  SheetsInv'
<1> DEFINE new == [st |-> "active", name |-> row.name, email |-> row.email, role |-> row.role]
<1>0. /\ syncs[s] \in Syncs /\ syncs \in [Runs -> Syncs]
      /\ people \in [People -> Persons]
  BY DEF SheetsInv, SheetsTypeOK
<1>1. PICK q \in People :
         /\ IsNextPerson(q)
         /\ syncs' = [syncs EXCEPT
              ![s].rows = @ \ {row},
              ![s].mine[q] = new,
              ![s].index = @ \cup ({row.name, row.email} \ {Null}) \X {q}]
  BY DEF AddPerson
<1> DEFINE u == [syncs[s] EXCEPT
                   !.rows = @ \ {row},
                   !.mine[q] = new,
                   !.index = @ \cup ({row.name, row.email} \ {Null}) \X {q}]
<1>2. people[q] = Nobody /\ \A t \in Runs : syncs[t].mine[q] = Nobody
  BY <1>1 DEF IsNextPerson
<1>3. row \in Rows /\ row.name # Null /\ row.role # Null
  BY <1>0 DEF Refused, Syncs
<1>4. /\ row.name \in Names /\ row.email \in Addresses \cup {Null} /\ row.role \in Roles
      /\ new \in Persons
  BY <1>3 DEF Rows, Persons
<1>5. u.rows \subseteq Rows /\ u.mine = [syncs[s].mine EXCEPT ![q] = new]
      /\ u.index \in SUBSET ((Names \cup Addresses) \X People)
      /\ u.at = "importing" /\ u.base = syncs[s].base
      /\ u.licensed = syncs[s].licensed
  BY <1>0, <1>4 DEF Syncs
<1>6. u.mine \in [People -> Persons] /\ syncs[s].mine \in [People -> Persons]
  BY <1>0, <1>4, <1>5 DEF Syncs
<1>7. u \in Syncs
  BY <1>0, <1>5, <1>6 DEF Syncs
<1>8. syncs' = [syncs EXCEPT ![s] = u]
  BY <1>1, ZenonT(90)
<1>9. SheetsTypeOK'
  BY <1>7, <1>8 DEF SheetsInv, SheetsTypeOK
<1>10. NobodyIsNone'
  BY DEF SheetsInv, NobodyIsNone
<1>11. syncs'[s] = u
  BY <1>0, <1>8
<1>12. SyncIsSound(s)'
  <2>0. SyncIsSound(s)
    BY DEF SheetsInv
  <2>1. new.st = "active" /\ new.role # Out
    BY <1>4 DEF SheetsAssumption
  <2> HIDE DEF u, new
  <2>2. syncs[s].base[q] = Nobody
    BY <1>2, <2>0 DEF SyncIsSound
  <2>3. Made(s, q)'
    <3>1. ASSUME NEW t \in Runs \ {s} PROVE syncs'[t].mine[q] = Nobody
      BY <1>0, <1>2, <1>8
    <3>2. syncs'[s].mine[q] = new /\ syncs'[s].base[q] = Nobody
      BY <1>5, <1>6, <1>11, <2>2
    <3> QED BY <1>2, <2>1, <3>1, <3>2 DEF Made
  <2>4. ASSUME NEW p \in People, p # q, syncs'[s].mine[p] # syncs'[s].base[p]
        PROVE  Made(s, p)' \/ Changed(s, p)'
    <3>1. syncs'[s].mine[p] = syncs[s].mine[p] /\ syncs'[s].base = syncs[s].base
      BY <1>5, <1>6, <1>11, <2>4
    <3>2. CASE Made(s, p)
      <4>1. ASSUME NEW t \in Runs \ {s} PROVE syncs'[t].mine[p] = Nobody
        BY <1>0, <1>8, <3>2 DEF Made
      <4> QED BY <3>1, <3>2, <4>1 DEF Made
    <3>3. CASE Changed(s, p)
      BY <3>1, <3>3 DEF Changed
    <3> QED BY <2>0, <2>4, <3>1, <3>2, <3>3 DEF SyncIsSound
  <2> QED BY <1>5, <1>11, <2>0, <2>3, <2>4 DEF SyncIsSound
<1>13. ASSUME NEW t \in Runs \ {s} PROVE SyncIsSound(t)'
  <2>1. ASSUME NEW p \in People, Made(t, p) PROVE u.mine[p] = Nobody
    <3>1. syncs[s].mine[p] = Nobody /\ syncs[t].mine[p] # Nobody
      BY <2>1 DEF Made, Nobody
    <3>2. p # q
      BY <1>2, <3>1
    <3> HIDE DEF u
    <3> QED BY <1>5, <1>6, <3>1, <3>2
  <2> HIDE DEF u
  <2> QED BY <1>8, <2>1, OthersAreSound
<1> QED BY <1>9, <1>10, <1>12, <1>13 DEF SheetsInv

LEMMA UpdatePersonInv ==
    ASSUME SheetsInv, SheetsAssumption, NEW s \in Runs, NEW row \in syncs[s].rows,
           syncs[s].at = "importing", ~Refused(s, row), UpdatePerson(s, row),
           UNCHANGED <<people, sheets, link, status, edits, mishaps>>
    PROVE  SheetsInv'
<1>0. /\ syncs[s] \in Syncs /\ syncs \in [Runs -> Syncs]
      /\ people \in [People -> Persons] /\ SyncIsSound(s)
  BY DEF SheetsInv, SheetsTypeOK
<1> DEFINE was(q) == syncs[s].mine[q]
           email(q) == IF row.email = Null THEN was(q).email ELSE row.email
           new(q) == [st |-> IF was(q).role = Out THEN "active" ELSE was(q).st,
                      name |-> row.name, email |-> email(q), role |-> row.role]
<1>1. PICK q \in Found(s, row) :
         syncs' = [syncs EXCEPT
              ![s].rows = @ \ {row},
              ![s].mine[q] = new(q),
              ![s].index = @ \cup ({email(q)} \ {was(q).email, Null}) \X {q}]
  BY DEF UpdatePerson
<1> DEFINE u == [syncs[s] EXCEPT
                   !.rows = @ \ {row},
                   !.mine[q] = new(q),
                   !.index = @ \cup ({email(q)} \ {was(q).email, Null}) \X {q}]
<1>2. q \in People /\ q \in syncs[s].licensed
  BY FoundAreKnown DEF Refused
<1>3. row \in Rows /\ row.name # Null /\ row.role # Null
  BY <1>0 DEF Refused, Syncs
<1>4. was(q) \in Persons /\ syncs[s].base[q] \in Persons
  BY <1>0, <1>2 DEF Syncs
<1>5. /\ row.name \in Names /\ row.email \in Addresses \cup {Null} /\ row.role \in Roles
      /\ email(q) \in Addresses \cup {Null}
  BY <1>3, <1>4, PersonFields DEF Rows
<1>6. new(q) \in Persons
  <2>1. (IF was(q).role = Out THEN "active" ELSE was(q).st)
          \in {"none", "active", "archived", "deleted"}
    BY <1>4, PersonFields
  <2> QED BY <1>5, <2>1 DEF Persons
<1>7. u.rows \subseteq Rows /\ u.mine = [syncs[s].mine EXCEPT ![q] = new(q)]
      /\ u.index \in SUBSET ((Names \cup Addresses) \X People)
      /\ u.at = "importing" /\ u.base = syncs[s].base
      /\ u.licensed = syncs[s].licensed
  BY <1>0, <1>2, <1>5, SMTT(20) DEF Syncs
<1>8. u.mine \in [People -> Persons] /\ syncs[s].mine \in [People -> Persons]
  BY <1>0, <1>6, <1>7 DEF Syncs
<1>9. u \in Syncs
  BY <1>0, <1>7, <1>8 DEF Syncs
<1>10. syncs' = [syncs EXCEPT ![s] = u]
  BY <1>1, ZenonT(90)
<1>11. SheetsTypeOK'
  BY <1>9, <1>10 DEF SheetsInv, SheetsTypeOK
<1>12. NobodyIsNone'
  BY DEF SheetsInv, NobodyIsNone
<1>13. syncs'[s] = u
  BY <1>0, <1>10
<1>14. syncs[s].base[q] # Nobody /\ people[q] # Nobody
  BY <1>0, <1>2 DEF SyncIsSound, Nobody
<1>15. syncs[s].mine[q] # syncs[s].base[q] => Changed(s, q)
  BY <1>0, <1>2, <1>14 DEF SyncIsSound, Made
<1>16. Changed(s, q)'
  <2>1. syncs'[s].mine[q] = new(q) /\ syncs'[s].base[q] = syncs[s].base[q]
    BY <1>2, <1>7, <1>8, <1>13
  <2>2. syncs[s].base[q].role # Out \/ syncs[s].base[q].st = "archived"
    BY <1>0, <1>2 DEF SyncIsSound
  <2>3. new(q).role # Out
    BY <1>5 DEF SheetsAssumption
  <2>4. new(q).email # syncs[s].base[q].email => new(q).email # Null
    <3>1. new(q).email = email(q)
      OBVIOUS
    <3>2. was(q).email # syncs[s].base[q].email => was(q).email # Null
      BY <1>15 DEF Changed
    <3> QED BY <3>1, <3>2
  <2>5. new(q).st # syncs[s].base[q].st =>
          syncs[s].base[q].role = Out /\ new(q).st = "active"
    <3>1. new(q).st = IF was(q).role = Out THEN "active" ELSE was(q).st
      OBVIOUS
    <3>2. CASE was(q).role = Out
      BY <1>15, <3>1, <3>2 DEF Changed
    <3>3. CASE was(q).role # Out
      BY <1>15, <3>1, <3>3 DEF Changed
    <3> QED BY <3>2, <3>3
  <2> HIDE DEF new
  <2> QED BY <2>1, <2>2, <2>3, <2>4, <2>5 DEF Changed
<1> HIDE DEF u, new
<1>17. SyncIsSound(s)'
  <2>1. ASSUME NEW p \in People, p # q, syncs'[s].mine[p] # syncs'[s].base[p]
        PROVE  Made(s, p)' \/ Changed(s, p)'
    <3>1. syncs'[s].mine[p] = syncs[s].mine[p] /\ syncs'[s].base = syncs[s].base
      BY <1>7, <1>8, <1>13, <2>1
    <3>2. CASE Made(s, p)
      <4>1. ASSUME NEW t \in Runs \ {s} PROVE syncs'[t].mine[p] = Nobody
        BY <1>0, <1>10, <3>2 DEF Made
      <4> QED BY <3>1, <3>2, <4>1 DEF Made
    <3>3. CASE Changed(s, p)
      BY <3>1, <3>3 DEF Changed
    <3> QED BY <1>0, <2>1, <3>1, <3>2, <3>3 DEF SyncIsSound
  <2> QED BY <1>0, <1>7, <1>13, <1>16, <2>1 DEF SyncIsSound
<1>18. ASSUME NEW t \in Runs \ {s} PROVE SyncIsSound(t)'
  <2>1. ASSUME NEW p \in People, Made(t, p) PROVE u.mine[p] = Nobody
    <3>1. syncs[s].mine[p] = Nobody /\ people[p] = Nobody
      BY <2>1 DEF Made
    <3>2. p # q
      BY <1>14, <3>1
    <3> QED BY <1>7, <1>8, <3>1, <3>2
  <2> QED BY <1>10, <2>1, OthersAreSound
<1> QED BY <1>11, <1>12, <1>17, <1>18 DEF SheetsInv

LEMMA ImportRowInv ==
    ASSUME SheetsInv, SheetsAssumption, NEW s \in Runs, NEW row \in syncs[s].rows,
           ImportRow(s, row)
    PROVE  SheetsInv'
  BY AddPersonInv, UpdatePersonInv DEF ImportRow

-----------------------------------------------------------------------------
(* The commit.                                                             *)

Merge(s) == Merged(syncs[s].base, syncs[s].mine)

\* Whom the transaction left alone is as the others have left them.
LEMMA MergedAlone ==
    ASSUME SheetsInv, NEW s \in Runs, NEW p \in People,
           syncs[s].mine[p] = syncs[s].base[p]
    PROVE  Merge(s)[p] = people[p]
<1>1. people[p] \in Persons
  BY DEF SheetsInv, SheetsTypeOK
<1>2. Merge(s)[p] = [st |-> people[p].st, name |-> people[p].name,
                     email |-> people[p].email, role |-> people[p].role]
  BY DEF Merge, Merged
<1> QED BY <1>1, <1>2, PersonFields

\* Whom it made is as it made them.
LEMMA MergedMade ==
    ASSUME SheetsInv, NEW s \in Runs, NEW p \in People, Made(s, p)
    PROVE  Merge(s)[p] = syncs[s].mine[p]
  BY DEF Merge, Merged, Made, Nobody

\* Whom it changed has its columns where it changed them.
LEMMA MergedChanged ==
    ASSUME SheetsInv, NEW s \in Runs, NEW p \in People, Changed(s, p)
    PROVE  LET was == syncs[s].base[p]
               mine == syncs[s].mine[p]
               now == Merge(s)[p]
           IN  /\ was # Nobody /\ people[p] # Nobody
               /\ now.st = IF mine.st # was.st THEN mine.st ELSE people[p].st
               /\ now.name = IF mine.name # was.name THEN mine.name ELSE people[p].name
               /\ now.email = IF mine.email # was.email THEN mine.email ELSE people[p].email
               /\ now.role = IF mine.role # was.role THEN mine.role ELSE people[p].role
               /\ now = [st |-> now.st, name |-> now.name, email |-> now.email,
                         role |-> now.role]
<1>1. syncs[s].base[p] # Nobody
  BY DEF Changed, Nobody
<1>2. people[p] # Nobody
  BY <1>1 DEF SheetsInv, SyncIsSound
<1> QED BY <1>1, <1>2 DEF Merge, Merged

LEMMA MergedIsAPerson ==
    ASSUME SheetsInv, NEW s \in Runs, NEW p \in People
    PROVE  Merge(s)[p] \in Persons
<1>1. people[p] \in Persons /\ syncs[s].mine[p] \in Persons
  BY DEF SheetsInv, SheetsTypeOK, Syncs
<1>2. CASE syncs[s].mine[p] = syncs[s].base[p]
  BY <1>1, <1>2, MergedAlone
<1>3. CASE Made(s, p)
  BY <1>1, <1>3, MergedMade
<1>4. CASE Changed(s, p)
  <2> DEFINE now == Merge(s)[p]
  <2>1. /\ now.st \in {people[p].st, syncs[s].mine[p].st}
        /\ now.name \in {people[p].name, syncs[s].mine[p].name}
        /\ now.email \in {people[p].email, syncs[s].mine[p].email}
        /\ now.role \in {people[p].role, syncs[s].mine[p].role}
        /\ now = [st |-> now.st, name |-> now.name, email |-> now.email,
                  role |-> now.role]
    BY <1>4, MergedChanged
  <2> HIDE DEF now
  <2>2. /\ now.st \in {"none", "active", "archived", "deleted"}
        /\ now.name \in Names \cup {Null}
        /\ now.email \in Addresses \cup {Null}
        /\ now.role \in Roles \cup {Out}
    BY <1>1, <2>1, PersonFields
  <2>3. now \in Persons
    BY <2>1, <2>2 DEF Persons
  <2> QED BY <2>3 DEF now
<1> QED BY <1>2, <1>3, <1>4 DEF SheetsInv, SyncIsSound

\* Only whom the transaction made was nobody and is somebody.
LEMMA MergedNobody ==
    ASSUME SheetsInv, NEW s \in Runs, NEW p \in People
    PROVE  /\ Merge(s)[p].st = "none" => Merge(s)[p] = Nobody
           /\ ~Made(s, p) => (Merge(s)[p] = Nobody <=> people[p] = Nobody)
<1>0. people[p].st = "none" => people[p] = Nobody
  BY DEF SheetsInv, NobodyIsNone
<1>1. CASE syncs[s].mine[p] = syncs[s].base[p]
  BY <1>0, <1>1, MergedAlone
<1>2. CASE Made(s, p)
  BY <1>2, MergedMade DEF Made
<1>3. CASE Changed(s, p) /\ syncs[s].mine[p] # syncs[s].base[p]
  <2>1. Merge(s)[p].st # "none"
    BY <1>0, <1>3, MergedChanged DEF Changed
  <2>2. Merge(s)[p] # Nobody
    BY <2>1 DEF Nobody
  <2>3. people[p] # Nobody
    BY <1>3, MergedChanged
  <2> QED BY <2>1, <2>2, <2>3
<1> QED BY <1>1, <1>2, <1>3 DEF SheetsInv, SyncIsSound

LEMMA CommitImportInv == ASSUME SheetsInv, NEW s \in Runs, CommitImport(s) PROVE SheetsInv'
<1> DEFINE u == [Idle EXCEPT !.at = "exporting", !.file = syncs[s].file]
<1>1. people' = Merge(s) /\ syncs' = [syncs EXCEPT ![s] = u]
  BY DEF CommitImport, Merge
<1>2. syncs \in [Runs -> Syncs] /\ syncs[s] \in Syncs
  BY DEF SheetsInv, SheetsTypeOK
<1>3. u \in Syncs /\ u.at = "exporting" /\ u.base = Empty /\ u.mine = Empty
      /\ u.licensed = {}
  <2>1. Idle \in Syncs
    BY IdleIsASync
  <2> QED BY <1>2, <2>1 DEF Idle, Syncs
<1>4. SheetsTypeOK'
  <2>1. people' \in [People -> Persons]
    <3>1. Merge(s) = [p \in People |-> Merge(s)[p]]
      BY DEF Merge, Merged
    <3> QED BY <1>1, <3>1, MergedIsAPerson
  <2>2. syncs' \in [Runs -> Syncs]
    BY <1>1, <1>2, <1>3
  <2> QED BY <2>1, <2>2 DEF CommitImport, SheetsInv, SheetsTypeOK
<1>5. NobodyIsNone'
  BY <1>1, MergedNobody DEF NobodyIsNone
<1> HIDE DEF u
<1>6. SyncIsSound(s)'
  <2>1. syncs'[s] = u
    BY <1>1, <1>2
  <2> QED BY <1>3, <2>1 DEF SyncIsSound, Empty
<1>7. ASSUME NEW t \in Runs \ {s} PROVE SyncIsSound(t)'
  <2>0. SyncIsSound(t) /\ syncs'[t] = syncs[t] /\ syncs'[s] = u
    BY <1>1, <1>2 DEF SheetsInv
  <2>1. ASSUME NEW p \in People, people[p] # Nobody PROVE people'[p] # Nobody
    BY <1>1, <2>1, MergedNobody DEF Made
  <2>2. ASSUME NEW p \in People, Made(t, p) PROVE Made(t, p)'
    <3>1. ~Made(s, p)
      BY <2>2 DEF Made, Nobody
    <3>2. people'[p] = Nobody
      BY <1>1, <2>2, <3>1, MergedNobody DEF Made
    <3>3. ASSUME NEW r \in Runs \ {t} PROVE syncs'[r].mine[p] = Nobody
      BY <1>1, <1>2, <1>3, <2>0, <2>2 DEF Made, Empty
    <3> QED BY <2>0, <2>2, <3>2, <3>3 DEF Made
  <2>3. \A p \in People : Changed(t, p) => Changed(t, p)'
    BY <2>0 DEF Changed
  <2> QED BY <2>0, <2>1, <2>2, <2>3 DEF SyncIsSound, Empty
<1> QED BY <1>4, <1>5, <1>6, <1>7 DEF SheetsInv

-----------------------------------------------------------------------------
(* What people do meanwhile.                                               *)

\* Forget marks a membership as gone, and nothing else.
LEMMA ForgetIsCalm ==
    ASSUME SheetsInv, NEW p \in People, Forget(p)
    PROVE  /\ syncs' \in [Runs -> Syncs]
           /\ \A s \in Runs :
                /\ syncs'[s].base = syncs[s].base
                /\ syncs'[s].mine = syncs[s].mine
                /\ syncs'[s].licensed = syncs[s].licensed
                /\ syncs'[s].at = syncs[s].at
                /\ syncs'[s].file = syncs[s].file
<1>1. syncs \in [Runs -> Syncs]
  BY DEF SheetsInv, SheetsTypeOK
<1>2. ASSUME NEW s \in Runs
      PROVE  /\ syncs'[s] \in Syncs
             /\ syncs'[s].base = syncs[s].base
             /\ syncs'[s].mine = syncs[s].mine
             /\ syncs'[s].licensed = syncs[s].licensed
             /\ syncs'[s].at = syncs[s].at
             /\ syncs'[s].file = syncs[s].file
  <2>1. syncs[s] \in Syncs
    BY <1>1
  <2>2. CASE syncs[s].at = "importing"
    <3>1. syncs'[s] = [syncs[s] EXCEPT !.gone = @ \cup {p}]
      BY <2>2 DEF Forget
    <3> QED BY <2>1, <3>1 DEF Syncs
  <2>3. CASE syncs[s].at # "importing"
    BY <2>1, <2>3 DEF Forget
  <2> QED BY <2>2, <2>3
<1>3. syncs' = [s \in Runs |-> syncs'[s]]
  BY DEF Forget
<1> QED BY <1>2, <1>3

\* A change to one person on record, who stays on record or is deleted.
LEMMA PersonEditInv ==
    ASSUME SheetsInv, NEW p \in People, people[p] # Nobody,
           NEW q \in Persons, q.st # "none", people' = [people EXCEPT ![p] = q],
           sheets' = sheets, link' = link, status' = status,
           edits' \in 0..MaxEdits, mishaps' = mishaps,
           UNCHANGED syncs \/ Forget(p)
    PROVE  SheetsInv'
<1>1. /\ syncs' \in [Runs -> Syncs]
      /\ \A s \in Runs :
           /\ syncs'[s].base = syncs[s].base
           /\ syncs'[s].mine = syncs[s].mine
           /\ syncs'[s].licensed = syncs[s].licensed
           /\ syncs'[s].at = syncs[s].at
  BY ForgetIsCalm DEF SheetsInv, SheetsTypeOK
<1>2. people \in [People -> Persons]
  BY DEF SheetsInv, SheetsTypeOK
<1>3. SheetsTypeOK'
  BY <1>1, <1>2 DEF SheetsInv, SheetsTypeOK
<1>4. NobodyIsNone'
  BY <1>2 DEF SheetsInv, NobodyIsNone
<1>5. \A r \in People : people'[r] = Nobody <=> people[r] = Nobody
  BY <1>2 DEF Nobody
<1> QED BY <1>1, <1>3, <1>4, <1>5, CalmStep

LEMMA EditInv == ASSUME SheetsInv, SheetsAssumption, Edit PROVE SheetsInv'
<1>0. edits' \in 0..MaxEdits /\ mishaps' = mishaps
  BY DEF Edit, SheetsInv, SheetsTypeOK, SheetsAssumption
<1>1. ASSUME NEW f \in Files, EditSheet(f) \/ LinkSheet(f) PROVE SheetsInv'
  <2>1. sheets' \in [Files -> SheetsOf]
    <3>1. sheets[f] \in SheetsOf /\ sheets \in [Files -> SheetsOf]
      BY DEF SheetsInv, SheetsTypeOK
    <3>2. CASE EditSheet(f)
      <4>1. CASE sheets' = [sheets EXCEPT ![f].legible = ~@]
        BY <3>1, <4>1 DEF SheetsOf
      <4>2. ASSUME NEW dropped \in SUBSET sheets[f].rows, NEW typed \in SUBSET TypedRows,
                   NEW sorted \in BOOLEAN,
                   sheets' = [sheets EXCEPT ![f].rows = (@ \ dropped) \cup typed,
                                            ![f].sorted = sorted]
            PROVE  sheets' \in [Files -> SheetsOf]
        <5>1. (sheets[f].rows \ dropped) \cup typed \in SUBSET Rows
          BY <3>1 DEF SheetsOf, SheetsAssumption
        <5> QED BY <3>1, <4>2, <5>1 DEF SheetsOf
      <4> QED BY <3>2, <4>1, <4>2 DEF EditSheet
    <3>3. CASE LinkSheet(f)
      <4>1. Template \in SheetsOf
        BY DEF Template, Blank, Unmade, SheetsOf
      <4>2. sheets' = sheets \/ sheets' = [sheets EXCEPT ![f] = Template]
        BY <3>3 DEF LinkSheet
      <4> HIDE DEF Template
      <4> QED BY <3>1, <4>1, <4>2
    <3> QED BY <1>1, <3>2, <3>3
  <2>2. people' = people /\ syncs' = syncs /\ link' \in Files \cup {Null}
        /\ status' \in {"none", "error", "applied"}
    BY <1>1 DEF EditSheet, LinkSheet, SheetsInv, SheetsTypeOK
  <2>3. SheetsTypeOK'
    BY <1>0, <2>1, <2>2 DEF SheetsInv, SheetsTypeOK
  <2>4. NobodyIsNone'
    BY <2>2 DEF SheetsInv, NobodyIsNone
  <2> QED BY <2>2, <2>3, <2>4, CalmStep
<1>2. ASSUME NEW p \in People,
             \/ \E role \in Roles : AssignRole(p, role)
             \/ \E email \in Addresses \cup {Null} : CorrectAddress(p, email)
             \/ RemoveMember(p) \/ ArchiveOrRestore(p) \/ DeletePerson(p)
      PROVE  SheetsInv'
  <2>0. people \in [People -> Persons] /\ people[p] \in Persons
    BY DEF SheetsInv, SheetsTypeOK
  <2>1. people[p] # Nobody /\ people[p].st # "none"
    <3>1. people[p] # Nobody
      BY <1>2 DEF AssignRole, CorrectAddress, RemoveMember, ArchiveOrRestore,
                  DeletePerson, Known, Nobody
    <3> QED BY <3>1 DEF SheetsInv, NobodyIsNone
  <2>2. \E q \in Persons : q.st # "none" /\ people' = [people EXCEPT ![p] = q]
    <3>1. CASE \E role \in Roles : AssignRole(p, role)
      <4>1. PICK role \in Roles : AssignRole(p, role)
        BY <3>1
      <4> DEFINE q == [people[p] EXCEPT !.role = role]
      <4>2. q \in Persons /\ q.st = people[p].st
        BY <2>0 DEF Persons
      <4>3. people' = [people EXCEPT ![p] = q]
        BY <4>1 DEF AssignRole
      <4> QED BY <2>1, <4>2, <4>3
    <3>2. CASE \E email \in Addresses \cup {Null} : CorrectAddress(p, email)
      <4>1. PICK email \in Addresses \cup {Null} : CorrectAddress(p, email)
        BY <3>2
      <4> DEFINE q == [people[p] EXCEPT !.email = email]
      <4>2. q \in Persons /\ q.st = people[p].st
        BY <2>0 DEF Persons
      <4>3. people' = [people EXCEPT ![p] = q]
        BY <4>1 DEF CorrectAddress
      <4> QED BY <2>1, <4>2, <4>3
    <3>3. CASE RemoveMember(p)
      <4> DEFINE q == [people[p] EXCEPT !.role = Out]
      <4>1. q \in Persons /\ q.st = people[p].st
        BY <2>0 DEF Persons
      <4>2. people' = [people EXCEPT ![p] = q]
        BY <3>3 DEF RemoveMember
      <4> QED BY <2>1, <4>1, <4>2
    <3>4. CASE ArchiveOrRestore(p)
      <4> DEFINE q == [people[p] EXCEPT !.st = IF @ = "active" THEN "archived" ELSE "active"]
      <4>1. q \in Persons /\ q.st # "none"
        BY <2>0 DEF Persons
      <4>2. people' = [people EXCEPT ![p] = q]
        BY <3>4 DEF ArchiveOrRestore
      <4> QED BY <4>1, <4>2
    <3>5. CASE DeletePerson(p)
      <4> DEFINE q == [Nobody EXCEPT !.st = "deleted"]
      <4>1. q \in Persons /\ q.st # "none"
        BY NobodyIsAPerson DEF Persons
      <4>2. people' = [people EXCEPT ![p] = q]
        BY <3>5 DEF DeletePerson
      <4> QED BY <4>1, <4>2
    <3> QED BY <1>2, <3>1, <3>2, <3>3, <3>4, <3>5
  <2>3. UNCHANGED <<sheets, link, status>> /\ (UNCHANGED syncs \/ Forget(p))
    BY <1>2 DEF AssignRole, CorrectAddress, RemoveMember, ArchiveOrRestore, DeletePerson
  <2> QED BY <1>0, <2>1, <2>2, <2>3, PersonEditInv
<1> QED BY <1>1, <1>2 DEF Edit
-----------------------------------------------------------------------------
(* The sheet of a sync.                                                    *)

\* Where a sync has a sheet.
Working ==
    {"reading", "loading", "importing", "exporting", "comparing", "clearing",
     "putting", "decorating"}

\* A step of one sync, which keeps its sheet, takes the team's, or ends.
LEMMA OneSyncFiles ==
    ASSUME SheetsInv, FilesAreKnown, NEW s \in Runs, NEW u,
           syncs' = [syncs EXCEPT ![s] = u],
           link' = link \/ link' \in Files,
           u.at \in {"to_import", "to_export"} => link' \in Files,
           u.at \in Working => u.file \in Files
    PROVE  FilesAreKnown'
<1>1. syncs'[s] = u /\ \A t \in Runs \ {s} : syncs'[t] = syncs[t]
  BY DEF SheetsInv, SheetsTypeOK
<1> QED BY <1>1 DEF FilesAreKnown, Working

LEMMA StepFiles ==
    ASSUME SheetsInv, FilesAreKnown, NEW s \in Runs, syncs[s].at \in Working,
           NEW at \in Working, Step(s, at), link' = link
    PROVE  FilesAreKnown'
<1> DEFINE u == [syncs[s] EXCEPT !.at = at]
<1>1. syncs' = [syncs EXCEPT ![s] = u] /\ syncs[s] \in Syncs
  BY DEF Step, SheetsInv, SheetsTypeOK
<1>2. u.at = at /\ u.file = syncs[s].file
  BY <1>1 DEF Syncs
<1>3. u.file \in Files
  BY <1>2 DEF FilesAreKnown, Working
<1> HIDE DEF u
<1> QED BY <1>1, <1>2, <1>3, OneSyncFiles DEF Working

LEMMA EndFiles ==
    ASSUME SheetsInv, FilesAreKnown, NEW s \in Runs, NEW outcome, End(s, outcome),
           link' = link
    PROVE  FilesAreKnown'
<1>1. syncs' = [syncs EXCEPT ![s] = Idle] /\ Idle.at = "idle"
  BY DEF End, Idle
<1> QED BY <1>1, OneSyncFiles DEF Working

\* A step that only works on the rows, the people or the matches.
LEMMA WorkFiles ==
    ASSUME SheetsInv, FilesAreKnown, NEW s \in Runs, syncs[s].at \in Working,
           NEW u, syncs' = [syncs EXCEPT ![s] = u], u.file = syncs[s].file,
           u.at \in Working, link' = link
    PROVE  FilesAreKnown'
<1>1. u.file \in Files
  BY DEF FilesAreKnown, Working
<1> QED BY <1>1, OneSyncFiles DEF Working

LEMMA StartFiles ==
    ASSUME SheetsInv, FilesAreKnown,
           StartNightly \/ \E first \in {"reading", "exporting"} : StartAsked(first)
    PROVE  FilesAreKnown'
<1>0. syncs \in [Runs -> Syncs] /\ link \in Files \cup {Null}
  BY DEF SheetsInv, SheetsTypeOK
<1>1. CASE StartNightly
  <2> DEFINE at == IF link = Null THEN "creating" ELSE "to_import"
             u == [syncs["nightly"] EXCEPT !.at = at]
  <2>1. syncs' = [syncs EXCEPT !["nightly"] = u] /\ link' = link
    BY <1>0, <1>1 DEF StartNightly, Step
  <2>2. u.at = at
    BY <1>0 DEF Syncs
  <2>3. at = "to_import" => link \in Files
    BY <1>0
  <2>4. at \in {"creating", "to_import"}
    OBVIOUS
  <2> HIDE DEF u, at
  <2> QED BY <2>1, <2>2, <2>3, <2>4, OneSyncFiles DEF Working
<1>2. ASSUME NEW first \in {"reading", "exporting"}, StartAsked(first)
      PROVE  FilesAreKnown'
  <2> DEFINE u == [syncs["asked"] EXCEPT !.at = first, !.file = link]
  <2>1. syncs' = [syncs EXCEPT !["asked"] = u] /\ link' = link /\ link \in Files
    BY <1>0, <1>2 DEF StartAsked
  <2>2. u.at = first /\ u.file = link
    BY <1>0 DEF Syncs
  <2> HIDE DEF u
  <2> QED BY <2>1, <2>2, OneSyncFiles DEF Working
<1> QED BY <1>1, <1>2

LEMMA TakeFiles ==
    ASSUME SheetsInv, FilesAreKnown, NEW s \in Runs, CreateSheet(s) \/ TakeLink(s)
    PROVE  FilesAreKnown'
<1>0. syncs \in [Runs -> Syncs]
  BY DEF SheetsInv, SheetsTypeOK
<1>1. CASE CreateSheet(s)
  <2> DEFINE u == [syncs[s] EXCEPT !.at = "to_export"]
  <2>1. syncs' = [syncs EXCEPT ![s] = u] /\ link' \in Files
    BY <1>0, <1>1 DEF CreateSheet, Step
  <2>2. u.at = "to_export"
    BY <1>0 DEF Syncs
  <2> HIDE DEF u
  <2> QED BY <2>1, <2>2, OneSyncFiles DEF Working
<1>2. CASE TakeLink(s)
  <2> DEFINE at == IF syncs[s].at = "to_import" THEN "reading" ELSE "exporting"
             u == [syncs[s] EXCEPT !.at = at, !.file = link]
  <2>1. syncs' = [syncs EXCEPT ![s] = u] /\ link' = link /\ link \in Files
    BY <1>0, <1>2 DEF TakeLink, FilesAreKnown
  <2>2. u.at = at /\ u.file = link /\ at \in Working
    BY <1>0 DEF Syncs, Working
  <2> HIDE DEF u, at
  <2> QED BY <2>1, <2>2, OneSyncFiles DEF Working
<1> QED BY <1>1, <1>2

\* A row takes a row off the sync's, and touches one person of its own.
RowStep(s, row) ==
    \E p, new, index :
       syncs' = [syncs EXCEPT ![s].rows = @ \ {row}, ![s].mine[p] = new,
                              ![s].index = @ \cup index]

LEMMA ImportRowStep ==
    ASSUME NEW s \in Runs, NEW row, ImportRow(s, row)
    PROVE  RowStep(s, row)
<1>1. CASE AddPerson(s, row)
  <2>1. PICK p \in People :
          syncs' = [syncs EXCEPT
              ![s].rows = @ \ {row},
              ![s].mine[p] = [st |-> "active", name |-> row.name,
                              email |-> row.email, role |-> row.role],
              ![s].index = @ \cup ({row.name, row.email} \ {Null}) \X {p}]
    BY <1>1 DEF AddPerson
  <2> QED BY <2>1, Zenon DEF RowStep
<1>2. CASE UpdatePerson(s, row)
  <2> DEFINE was(p) == syncs[s].mine[p]
             email(p) == IF row.email = Null THEN was(p).email ELSE row.email
             new(p) == [st |-> IF was(p).role = Out THEN "active" ELSE was(p).st,
                        name |-> row.name, email |-> email(p), role |-> row.role]
             index(p) == ({email(p)} \ {was(p).email, Null}) \X {p}
  <2>1. PICK p \in Found(s, row) :
          syncs' = [syncs EXCEPT ![s].rows = @ \ {row}, ![s].mine[p] = new(p),
                                 ![s].index = @ \cup index(p)]
    BY <1>2, Zenon DEF UpdatePerson
  <2> HIDE DEF new, index
  <2> QED BY <2>1, Zenon DEF RowStep
<1> QED BY <1>1, <1>2 DEF ImportRow

LEMMA ImportFiles ==
    ASSUME SheetsInv, FilesAreKnown, NEW s \in Runs,
           \/ ReadSheet(s) \/ LoadPeople(s) \/ RefuseSheet(s)
           \/ \E row \in syncs[s].rows : ImportRow(s, row)
           \/ CommitImport(s) \/ ImportFails(s)
    PROVE  FilesAreKnown'
<1>0. syncs \in [Runs -> Syncs] /\ syncs[s] \in Syncs
  BY DEF SheetsInv, SheetsTypeOK
<1>1. CASE ReadSheet(s)
  <2> DEFINE u == [syncs[s] EXCEPT !.at = "loading", !.rows = sheets[syncs[s].file].rows]
  <2>1. syncs[s].at \in Working /\ link' = link
    BY <1>1 DEF ReadSheet, Working
  <2>2. End(s, "error") \/ syncs' = [syncs EXCEPT ![s] = u]
    BY <1>0, <1>1 DEF ReadSheet
  <2>3. u.at \in Working /\ u.file = syncs[s].file
    BY <1>0 DEF Syncs, Working
  <2> HIDE DEF u
  <2> QED BY <2>1, <2>2, <2>3, EndFiles, WorkFiles
<1>2. CASE LoadPeople(s)
  <2> DEFINE u == [syncs[s] EXCEPT
                     !.at = "importing", !.base = people, !.mine = people,
                     !.index = IndexOf(people),
                     !.licensed = Licensed(syncs[s].rows, people, IndexOf(people))]
  <2>1. syncs[s].at \in Working /\ link' = link /\ syncs' = [syncs EXCEPT ![s] = u]
    BY <1>0, <1>2 DEF LoadPeople, Working
  <2>2. u.at \in Working /\ u.file = syncs[s].file
    BY <1>0 DEF Syncs, Working
  <2> HIDE DEF u
  <2> QED BY <2>1, <2>2, WorkFiles
<1>3. CASE RefuseSheet(s) \/ ImportFails(s)
  BY <1>3, EndFiles DEF RefuseSheet, ImportFails
<1>4. ASSUME NEW row \in syncs[s].rows, ImportRow(s, row) PROVE FilesAreKnown'
  <2>0. RowStep(s, row)
    BY <1>4, ImportRowStep
  <2>1. PICK p, new, index :
          syncs' = [syncs EXCEPT ![s].rows = @ \ {row}, ![s].mine[p] = new,
                                 ![s].index = @ \cup index]
    BY <2>0, Zenon DEF RowStep
  <2> DEFINE u == [syncs[s] EXCEPT !.rows = @ \ {row}, !.mine[p] = new,
                                   !.index = @ \cup index]
  <2>2. syncs[s].at \in Working /\ link' = link /\ syncs' = [syncs EXCEPT ![s] = u]
    BY <1>0, <1>4, <2>1, ZenonT(40) DEF ImportRow, Working
  <2>3. u.at = syncs[s].at /\ u.file = syncs[s].file
    BY <1>0 DEF Syncs
  <2> HIDE DEF u
  <2> QED BY <2>2, <2>3, WorkFiles
<1>5. CASE CommitImport(s)
  <2> DEFINE u == [Idle EXCEPT !.at = "exporting", !.file = syncs[s].file]
  <2>1. syncs[s].at \in Working /\ link' = link /\ syncs' = [syncs EXCEPT ![s] = u]
    BY <1>5 DEF CommitImport, Working
  <2>2. u.at \in Working /\ u.file = syncs[s].file
    BY DEF Idle, Working
  <2> HIDE DEF u
  <2> QED BY <2>1, <2>2, WorkFiles
<1> QED BY <1>1, <1>2, <1>3, <1>4, <1>5

LEMMA ExportFiles ==
    ASSUME SheetsInv, FilesAreKnown, NEW s \in Runs,
           \/ ExportRoster(s) \/ Compare(s) \/ CompareUnread(s)
           \/ ClearSheet(s) \/ PutRows(s) \/ Decorate(s) \/ CallFails(s)
    PROVE  FilesAreKnown'
<1>0. syncs \in [Runs -> Syncs] /\ syncs[s] \in Syncs
  BY DEF SheetsInv, SheetsTypeOK
<1>1. CASE ExportRoster(s)
  <2> DEFINE u == [syncs[s] EXCEPT !.at = "comparing", !.rows = Listing(people)]
  <2>1. syncs[s].at \in Working /\ link' = link /\ syncs' = [syncs EXCEPT ![s] = u]
    BY <1>0, <1>1 DEF ExportRoster, Working
  <2>2. u.at \in Working /\ u.file = syncs[s].file
    BY <1>0 DEF Syncs, Working
  <2> HIDE DEF u
  <2> QED BY <2>1, <2>2, WorkFiles
<1>2. CASE Compare(s)
  <2>1. PICK at \in {"decorating", "clearing"} : Step(s, at)
    BY <1>2 DEF Compare
  <2>2. at \in Working /\ syncs[s].at \in Working /\ link' = link
    BY <1>2 DEF Compare, Working
  <2> QED BY <2>1, <2>2, StepFiles
<1>3. CASE CompareUnread(s) \/ ClearSheet(s) \/ PutRows(s)
  <2>1. PICK at \in Working : Step(s, at)
    BY <1>3, ZenonT(40) DEF CompareUnread, ClearSheet, PutRows, Working
  <2>2. syncs[s].at \in Working /\ link' = link
    BY <1>3 DEF CompareUnread, ClearSheet, PutRows, Working
  <2> QED BY <2>1, <2>2, StepFiles, SMTT(20)
<1>4. CASE Decorate(s) \/ CallFails(s)
  BY <1>4, EndFiles DEF Decorate, CallFails
<1> QED BY <1>1, <1>2, <1>3, <1>4

LEMMA EditFiles == ASSUME SheetsInv, FilesAreKnown, Edit PROVE FilesAreKnown'
<1>1. link' = link \/ link' \in Files
  BY DEF Edit, EditSheet, LinkSheet, AssignRole, CorrectAddress, RemoveMember,
         ArchiveOrRestore, DeletePerson
<1>2. \A s \in Runs : syncs'[s].at = syncs[s].at /\ syncs'[s].file = syncs[s].file
  <2>1. CASE UNCHANGED syncs
    BY <2>1
  <2>2. CASE \E p \in People : Forget(p)
    BY <2>2, ForgetIsCalm
  <2> QED BY <2>1, <2>2 DEF Edit, EditSheet, LinkSheet, AssignRole, CorrectAddress,
                            RemoveMember, ArchiveOrRestore, DeletePerson
<1> QED BY <1>1, <1>2 DEF FilesAreKnown

-----------------------------------------------------------------------------
(* The theorems.                                                           *)

\* In every reachable state a transaction in progress has made only persons
\* nobody else knows, has changed only persons of its team or archived, and
\* none of those it has loaded is unknown.
THEOREM SheetsInvariance == SheetsSpec => [](SheetsInv /\ FilesAreKnown)
<1>1. SheetsInit => SheetsInv /\ FilesAreKnown
  BY SheetsAssumption, SheetsInitInv DEF SheetsInit, FilesAreKnown, Idle
<1>2. SheetsInv /\ FilesAreKnown /\ [SheetsNext]_sheetVars
        => (SheetsInv /\ FilesAreKnown)'
  <2> SUFFICES ASSUME SheetsInv, FilesAreKnown, [SheetsNext]_sheetVars
               PROVE  SheetsInv' /\ FilesAreKnown'
    OBVIOUS
  <2>1. ASSUME NEW s \in Runs, SyncStep(s) PROVE SheetsInv' /\ FilesAreKnown'
    <3>1. CASE CreateSheet(s) \/ TakeLink(s)
      BY <3>1, CreateSheetInv, TakeLinkInv, TakeFiles
    <3>2. CASE \/ ReadSheet(s) \/ LoadPeople(s) \/ RefuseSheet(s)
               \/ \E row \in syncs[s].rows : ImportRow(s, row)
               \/ CommitImport(s) \/ ImportFails(s)
      <4>1. SheetsInv'
        BY <3>2, SheetsAssumption, ReadSheetInv, LoadPeopleInv, RefuseSheetInv,
           ImportRowInv, CommitImportInv, ImportFailsInv
      <4> QED BY <3>2, <4>1, ImportFiles
    <3>3. CASE \/ ExportRoster(s) \/ Compare(s) \/ ClearSheet(s) \/ PutRows(s)
               \/ Decorate(s)
      <4>1. SheetsInv'
        BY <3>3, ExportRosterInv, CompareInv, ClearSheetInv, PutRowsInv, DecorateInv
      <4> QED BY <3>3, <4>1, ExportFiles
    <3> QED BY <2>1, <3>1, <3>2, <3>3 DEF SyncStep
  <2>2. CASE StartNightly \/ \E first \in {"reading", "exporting"} : StartAsked(first)
    <3>1. SheetsInv'
      BY <2>2, SheetsAssumption, StartNightlyInv, StartAskedInv
    <3> QED BY <2>2, <3>1, StartFiles
  <2>3. ASSUME NEW s \in Runs, CompareUnread(s) \/ CallFails(s)
        PROVE  SheetsInv' /\ FilesAreKnown'
    <3>1. SheetsInv'
      BY <2>3, SheetsAssumption, CompareUnreadInv, CallFailsInv
    <3> QED BY <2>3, <3>1, ExportFiles
  <2>4. CASE Crash
    <3>1. SheetsInv'
      BY <2>4, SheetsAssumption, CrashInv
    <3>2. FilesAreKnown'
      BY <2>4 DEF Crash, FilesAreKnown, Idle
    <3> QED BY <3>1, <3>2
  <2>5. CASE Edit
    BY <2>5, SheetsAssumption, EditInv, EditFiles
  <2>6. CASE UNCHANGED sheetVars
    <3>1. SheetsTypeOK' /\ NobodyIsNone'
      BY <2>6 DEF sheetVars, SheetsInv, SheetsTypeOK, NobodyIsNone
    <3>2. SheetsInv'
      BY <2>6, <3>1, CalmStep DEF sheetVars
    <3> QED BY <2>6, <3>2 DEF sheetVars, FilesAreKnown
  <2>7. "nightly" \in Runs /\ "asked" \in Runs
    OBVIOUS
  <2> QED BY <2>1, <2>2, <2>3, <2>4, <2>5, <2>6, <2>7 DEF SheetsNext, NightlyStep
<1> QED BY <1>1, <1>2, PTL DEF SheetsSpec

\* People, sheets, links and syncs in progress keep their types: a person on
\* record has no half of one, and a row read from a sheet is a row.
THEOREM SheetsTypeCorrect == SheetsSpec => []SheetsTypeOK
<1>1. SheetsInv /\ FilesAreKnown => SheetsTypeOK
  BY DEF SheetsInv
<1> QED BY <1>1, SheetsInvariance, PTL

\* Only a commit goes from the import to the write-back.
LEMMA OnlyCommitExports ==
    ASSUME SheetsInv, SheetsNext, NEW s \in Runs,
           syncs[s].at = "importing", syncs'[s].at = "exporting"
    PROVE  CommitImport(s)
<1>0. syncs \in [Runs -> Syncs] /\ syncs[s] \in Syncs
  BY DEF SheetsInv, SheetsTypeOK
<1>1. ASSUME NEW t \in Runs, SyncStep(t) PROVE CommitImport(s)
  <2>1. CASE t = s
    <3>1. ~ (\E row \in syncs[s].rows : ImportRow(s, row))
      <4> SUFFICES ASSUME NEW row \in syncs[s].rows, ImportRow(s, row) PROVE FALSE
        OBVIOUS
      <4>1. PICK p, new, index :
              syncs' = [syncs EXCEPT ![s].rows = @ \ {row}, ![s].mine[p] = new,
                                     ![s].index = @ \cup index]
        BY ImportRowStep, ZenonT(90) DEF RowStep
      <4>2. syncs'[s].at = syncs[s].at
        BY <1>0, <4>1 DEF Syncs
      <4> QED BY <4>2
    <3>2. ~RefuseSheet(s) /\ ~ImportFails(s)
      BY <1>0 DEF RefuseSheet, ImportFails, End, Idle
    <3>3. /\ ~CreateSheet(s) /\ ~TakeLink(s) /\ ~ReadSheet(s) /\ ~LoadPeople(s)
          /\ ~ExportRoster(s) /\ ~Compare(s) /\ ~ClearSheet(s) /\ ~PutRows(s)
          /\ ~Decorate(s)
      BY DEF CreateSheet, TakeLink, ReadSheet, LoadPeople, ExportRoster, Compare,
             ClearSheet, PutRows, Decorate
    <3> QED BY <1>1, <2>1, <3>1, <3>2, <3>3 DEF SyncStep
  <2>2. CASE t # s
    <3>1. \E u : syncs' = [syncs EXCEPT ![t] = u]
      <4>1. ASSUME NEW row \in syncs[t].rows, ImportRow(t, row)
            PROVE  \E u : syncs' = [syncs EXCEPT ![t] = u]
        <5>0. RowStep(t, row)
          BY <4>1, ImportRowStep
        <5>1. PICK p, new, index :
                syncs' = [syncs EXCEPT ![t].rows = @ \ {row}, ![t].mine[p] = new,
                                       ![t].index = @ \cup index]
          BY <5>0, Zenon DEF RowStep
        <5> QED BY <1>0, <5>1, SMTT(20)
      <4>2. CASE CreateSheet(t) \/ Compare(t) \/ ClearSheet(t) \/ PutRows(t)
        BY <4>2 DEF CreateSheet, Compare, ClearSheet, PutRows, Step
      <4>3. CASE RefuseSheet(t) \/ ImportFails(t) \/ Decorate(t)
        BY <4>3 DEF RefuseSheet, ImportFails, Decorate, End
      <4>4. CASE TakeLink(t)
        BY <4>4 DEF TakeLink
      <4>5. CASE ReadSheet(t)
        BY <4>5 DEF ReadSheet, End
      <4>6. CASE LoadPeople(t)
        BY <4>6 DEF LoadPeople
      <4>7. CASE CommitImport(t)
        BY <4>7 DEF CommitImport
      <4>8. CASE ExportRoster(t)
        BY <4>8 DEF ExportRoster
      <4> QED BY <1>1, <4>1, <4>2, <4>3, <4>4, <4>5, <4>6, <4>7, <4>8 DEF SyncStep
    <3>2. syncs'[s] = syncs[s]
      BY <1>0, <2>2, <3>1
    <3> QED BY <3>2
  <2> QED BY <2>1, <2>2
<1>2. ~StartNightly /\ ~ (\E first \in {"reading", "exporting"} : StartAsked(first))
  BY <1>0 DEF StartNightly, StartAsked, Step
<1>3. ~ (\E t \in Runs : CompareUnread(t) \/ CallFails(t))
  BY <1>0 DEF CompareUnread, CallFails, End, Step, Idle
<1>4. ~Crash
  BY DEF Crash, Idle
<1>5. ~Edit
  <2>1. CASE UNCHANGED syncs
    BY <2>1
  <2>2. CASE \E p \in People : Forget(p)
    BY <2>2, ForgetIsCalm
  <2> QED BY <2>1, <2>2 DEF Edit, EditSheet, LinkSheet, AssignRole, CorrectAddress,
                            RemoveMember, ArchiveOrRestore, DeletePerson
<1> QED BY <1>1, <1>2, <1>3, <1>4, <1>5 DEF SheetsNext, NightlyStep

\* What an import commits, over whatever others have committed since it loaded
\* the people: nobody is taken off the team, no address is blanked, and whom
\* it changes is new, of the team or archived.
LEMMA CommitKeepsToTeam ==
    ASSUME SheetsInv, NEW s \in Runs, CommitImport(s), NEW p \in People,
           people'[p] # people[p]
    PROVE  LET was == syncs[s].base[p]
               now == people'[p]
           IN  /\ was = Nobody \/ was.role # Out \/ was.st = "archived"
               /\ people[p].role # Out => now.role # Out
               /\ people[p].email # Null => now.email # Null
               /\ now.st # people[p].st => was.role = Out /\ now.role # Out
<1>1. people'[p] = Merge(s)[p]
  BY DEF CommitImport, Merge
<1>2. CASE syncs[s].mine[p] = syncs[s].base[p]
  BY <1>1, <1>2, MergedAlone
<1>3. CASE Made(s, p)
  BY <1>1, <1>3, MergedMade DEF Made, Nobody
<1>4. CASE Changed(s, p)
  <2> DEFINE was == syncs[s].base[p]
             mine == syncs[s].mine[p]
             now == people'[p]
  <2>1. /\ now.st = IF mine.st # was.st THEN mine.st ELSE people[p].st
        /\ now.email = IF mine.email # was.email THEN mine.email ELSE people[p].email
        /\ now.role = IF mine.role # was.role THEN mine.role ELSE people[p].role
    <3>1. LET there == Merge(s)[p] IN
          /\ there.st = IF mine.st # was.st THEN mine.st ELSE people[p].st
          /\ there.email = IF mine.email # was.email THEN mine.email ELSE people[p].email
          /\ there.role = IF mine.role # was.role THEN mine.role ELSE people[p].role
      BY <1>4, MergedChanged
    <3> QED BY <1>1, <3>1
  <2>2. /\ was.role # Out \/ was.st = "archived"
        /\ mine.role # Out
        /\ mine.email # was.email => mine.email # Null
        /\ mine.st # was.st => was.role = Out
    BY <1>4 DEF Changed
  <2> HIDE DEF was, mine, now
  <2>3. /\ people[p].role # Out => now.role # Out
        /\ people[p].email # Null => now.email # Null
        /\ now.st # people[p].st => was.role = Out /\ now.role # Out
    BY <2>1, <2>2
  <2> QED BY <2>2, <2>3 DEF was, now
<1> QED BY <1>2, <1>3, <1>4 DEF SheetsInv, SyncIsSound

\* A nightly or asked import keeps to its team whatever is committed between
\* its load and its commit, in the app or by the other import.
THEOREM SheetKeepsToTeam == SheetsSpec => SheetKeepsToItsTeam
<1> DEFINE Keeps ==
      \A s \in Runs :
         (syncs[s].at = "importing" /\ syncs'[s].at = "exporting")
           => \A p \in People :
                LET was == syncs[s].base[p]
                    now == people'[p]
                IN  now # people[p] =>
                      /\ was = Nobody \/ was.role # Out \/ was.st = "archived"
                      /\ people[p].role # Out => now.role # Out
                      /\ people[p].email # Null => now.email # Null
                      /\ now.st # people[p].st => was.role = Out /\ now.role # Out
<1>1. (SheetsInv /\ FilesAreKnown) /\ [SheetsNext]_sheetVars => [Keeps]_sheetVars
  BY OnlyCommitExports, CommitKeepsToTeam
<1> QED BY <1>1, SheetsInvariance, PTL DEF SheetsSpec, SheetKeepsToItsTeam
=============================================================================
