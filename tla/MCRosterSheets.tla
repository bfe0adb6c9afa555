--------------------------- MODULE MCRosterSheets ---------------------------
(* An instance of RosterSheets small enough for TLC.                       *)
EXTENDS RosterSheets

CONSTANTS mary, john, ann, home, work

\* Two people of one family share an address.  The second is no member, or an
\* archived member, or was one and is archived.
MCParishes ==
    {[p \in People |->
        CASE p = 1 -> [st |-> "active", name |-> mary, email |-> home, role |-> "leader"]
          [] p = 2 -> [st |-> second[1], name |-> john, email |-> home,
                       role |-> second[2]]
          [] OTHER -> Nobody]
       : second \in {<<"active", Out>>, <<"archived", "member">>, <<"archived", Out>>}}

Typed(id, name, email, role) ==
    [id |-> id, name |-> name, email |-> email, role |-> role]

\* Somebody new, by address and by name alone; a blank id for somebody on
\* record; another's address; another's id; no role.
MCTypedRows ==
    {Typed(Null, ann, work, "member"), Typed(Null, ann, Null, "leader"),
     Typed(Null, john, home, "leader"), Typed(1, mary, work, "leader"),
     Typed(2, john, Null, "member"), Typed(Null, mary, work, Null)}
=============================================================================
