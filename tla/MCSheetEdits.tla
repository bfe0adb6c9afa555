---------------------------- MODULE MCSheetEdits ----------------------------
(* RosterSheets with a watch kept on the edits made in the app.            *)
EXTENDS MCRosterSheets

\* History: people edited in the app since the sheet was last edited by hand.
VARIABLE recent

Watch ==
    recent' = IF edits' = edits THEN recent
              ELSE IF sheets' # sheets THEN {}
              ELSE recent \cup {p \in People : people'[p] # people[p]}

\* Nobody edits anything, or asks for a sync, while a sync is under way.
EditsBetweenSyncs ==
    edits' # edits => \A s \in Runs : syncs[s] = Idle /\ syncs'[s] = Idle

WatchedSpec ==
    /\ SheetsInit /\ recent = {}
    /\ [][SheetsNext /\ Watch /\ EditsBetweenSyncs]_<<sheetVars, recent>>

\* A sync leaves alone whom the app edited since anybody touched the sheet
\* (docs/how-to/roster-spreadsheets.md: "Edits made in the app survive").
AppEditsSurvive ==
    [][\A p \in recent : edits' = edits => people'[p] = people[p]]_<<sheetVars, recent>>
=============================================================================
