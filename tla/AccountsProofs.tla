--------------------------- MODULE AccountsProofs ---------------------------
(***************************************************************************)
(* What TLAPS proves of Accounts, for every number of accounts, people,    *)
(* addresses and letters: that the rows keep their types whatever requests *)
(* overlap, and, when they do not, that whatever an account can be entered *)
(* by is backed by a letter or a password, and that nobody's login becomes *)
(* somebody else's.                                                        *)
(***************************************************************************)
EXTENDS Accounts, FiniteSetTheorems, WellFoundedInduction, TLAPS

\* A table of accounts whose rows satisfy the constraints.
SoundTable(rows) ==
    /\ rows \in [AccountIds -> AccountRows]
    /\ \A a \in AccountIds : SoundRow(rows[a])

\* A row once in use is never out of it.
StaysInUse(rows, later) ==
    \A a \in AccountIds : rows[a].st # "unused" => later[a].st # "unused"

SoundRequest(r) ==
    /\ r \in AccountRequests
    /\ SoundTable(r.was) /\ SoundTable(r.want)
    /\ StaysInUse(r.was, r.want) /\ StaysInUse(r.was, accounts)
    /\ \A x \in r.rewrites : r.was[x[1]].st # "unused"

\* The inductive invariant, whatever overlaps.
AccountsInv ==
    /\ AccountsTypeOK
    /\ SoundTable(accounts)
    /\ \A s \in AccountSessions : SoundRequest(desk[s])

-----------------------------------------------------------------------------
(* Rows.                                                                   *)

LEMMA UnusedRow == Unused \in AccountRows /\ SoundRow(Unused) /\ Null \notin PersonIds
  BY AccountsAssumption DEF Unused, AccountRows, SoundRow

LEMMA NothingIsSound ==
    /\ NothingAsked \in AccountRequests
    /\ SoundTable(NoRows) /\ StaysInUse(NoRows, NoRows)
    /\ \A rows : StaysInUse(NoRows, rows)
<1>1. NoRows \in [AccountIds -> AccountRows] /\ \A a \in AccountIds : NoRows[a] = Unused
  BY UnusedRow DEF NoRows
<1>2. NoPeople \in [PersonIds -> PeopleRows]
  BY DEF NoPeople, PeopleRows
<1>3. NothingAsked \in AccountRequests
  BY <1>1, <1>2 DEF NothingAsked, AccountRequests
<1>4. Unused.st = "unused"
  BY DEF Unused
<1> QED  BY <1>1, <1>3, <1>4, UnusedRow DEF SoundTable, StaysInUse

\* What the columns of a table's rows are.
LEMMA Columns ==
    ASSUME NEW row \in AccountRows
    PROVE  /\ row.st \in {"unused", "active", "off"} /\ row.email \in Addresses \cup {Null}
           /\ row.volunteer_id \in PersonIds \cup {Null}
           /\ row.password \in BOOLEAN /\ row.seen \in BOOLEAN /\ row.api_token \in BOOLEAN
           /\ row.invite \in LinkIds \cup {Null} /\ row.pending \in Addresses \cup {Null}
           /\ row.change \in LinkIds \cup {Null} /\ row.otp \in LinkIds \cup {Null}
  BY DEF AccountRows

\* Only the columns that differ are merged.
LEMMA MergedColumns ==
    ASSUME NEW r \in AccountRequests, NEW a \in AccountIds,
           accounts \in [AccountIds -> AccountRows]
    PROVE  /\ MergedRow(r, a) \in AccountRows
           /\ \A c \in DOMAIN Unused :
                MergedRow(r, a)[c] = IF r.want[a][c] # r.was[a][c] \/ <<a, c>> \in r.rewrites
                                     THEN r.want[a][c] ELSE accounts[a][c]
<1>1. r.want[a] \in AccountRows /\ r.was[a] \in AccountRows /\ accounts[a] \in AccountRows
  BY DEF AccountRequests
<1>2. DOMAIN Unused = {"st", "email", "volunteer_id", "password", "seen", "api_token",
                       "invite", "pending", "change", "otp"}
  BY DEF Unused
<1>3. \A c \in DOMAIN Unused :
        MergedRow(r, a)[c] = IF r.want[a][c] # r.was[a][c] \/ <<a, c>> \in r.rewrites
                             THEN r.want[a][c] ELSE accounts[a][c]
  BY DEF MergedRow
<1>4. MergedRow(r, a) \in AccountRows
  BY <1>1, <1>2 DEF MergedRow, AccountRows
<1> QED  BY <1>3, <1>4

-----------------------------------------------------------------------------
(* A request begins.                                                       *)

\* A set of numbers that is not empty has a lowest.
LEMMA LowestIsLeast ==
    ASSUME NEW S \in SUBSET Nat, S # {}
    PROVE  Lowest(S) \in S /\ \A i \in S : Lowest(S) <= i
<1>1. PICK x \in S : \A y \in S : ~(<<y, x>> \in OpToRel(<, Nat))
  BY NatLessThanWellFounded, WFMin, Zenon
<1>2. \A y \in S : ~(y < x)
  BY <1>1 DEF OpToRel
<1>3. \E i \in S : \A j \in S : i <= j
  BY <1>2
<1> QED  BY <1>3 DEF Lowest

LEMMA FreeAccount ==
    ASSUME NEW s \in AccountSessions, FreeAccounts(s) # {}
    PROVE  Lowest(FreeAccounts(s)) \in AccountIds
           /\ accounts[Lowest(FreeAccounts(s))].st = "unused"
<1>1. FreeAccounts(s) \in SUBSET Nat
  BY AccountsAssumption DEF FreeAccounts
<1>2. Lowest(FreeAccounts(s)) \in FreeAccounts(s)
  BY <1>1, LowestIsLeast
<1> QED  BY <1>2 DEF FreeAccounts

LEMMA FreeLink ==
    ASSUME NEW s \in AccountSessions, FreeLinks(s) # {}
    PROVE  Lowest(FreeLinks(s)) \in LinkIds /\ mailed[Lowest(FreeLinks(s))] = Null
<1>1. FreeLinks(s) \in SUBSET Nat
  BY AccountsAssumption DEF FreeLinks
<1>2. Lowest(FreeLinks(s)) \in FreeLinks(s)
  BY <1>1, LowestIsLeast
<1> QED  BY <1>2 DEF FreeLinks

\* What a request may ask for.
Sound(want, wantPeople, letters, rewrites) ==
    /\ SoundTable(want) /\ StaysInUse(accounts, want)
    /\ wantPeople \in [PersonIds -> PeopleRows]
    /\ letters \subseteq LinkIds \X Letters
    /\ rewrites \subseteq Known \X {"password", "api_token"}

Ops == {"create", "create_for", "set_password", "clear_password", "invite", "redeem",
        "start_otp", "verify_otp", "sign_in", "change_email", "set_flags",
        "set_volunteer", "provision", "volunteers"}

LEMMA TablesBegin ==
    ASSUME AccountsInv, NEW s \in AccountSessions, NEW op \in Ops,
           NEW want, NEW wantPeople, NEW letters, NEW rewrites,
           Sound(want, wantPeople, letters, rewrites),
           BeginTables(s, op, want, wantPeople, letters, rewrites)
    PROVE  AccountsInv'
<1> DEFINE r == [op |-> op, was |-> accounts, want |-> want, wasPeople |-> people,
                 wantPeople |-> wantPeople, letters |-> letters, rewrites |-> rewrites]
<1>1. /\ desk' = [desk EXCEPT ![s] = r] /\ asks > 0 /\ asks' = asks - 1
      /\ UNCHANGED <<accounts, people, mailed, expired>>
  BY DEF BeginTables
<1>2. r \in AccountRequests
  BY DEF AccountsInv, AccountsTypeOK, Sound, SoundTable, Known, Ops, AccountRequests
<1>3. SoundRequest(r)
  BY <1>2 DEF AccountsInv, Sound, SoundRequest, Known, StaysInUse
<1> HIDE DEF r
<1>4. desk' \in [AccountSessions -> AccountRequests] /\ asks' \in 0..MaxRequests
  BY <1>1, <1>2, AccountsAssumption DEF AccountsInv, AccountsTypeOK
<1>5. \A o \in AccountSessions : desk'[o] = IF o = s THEN r ELSE desk[o]
  BY <1>1 DEF AccountsInv, AccountsTypeOK
<1>6. ASSUME NEW o \in AccountSessions PROVE SoundRequest(desk[o])'
  BY <1>1, <1>3, <1>5 DEF AccountsInv, SoundRequest
<1>7. AccountsTypeOK'
  BY <1>1, <1>4 DEF AccountsInv, AccountsTypeOK
<1> QED  BY <1>1, <1>6, <1>7 DEF AccountsInv

\* One account's row may become this.
GoodRow(a, row) ==
    /\ row \in AccountRows /\ SoundRow(row)
    /\ accounts[a].st # "unused" => row.st # "unused"

LEMMA RowIsSound ==
    ASSUME AccountsInv, NEW a \in AccountIds, NEW row, GoodRow(a, row),
           NEW letters \in SUBSET (LinkIds \X Letters),
           NEW rewrites \in SUBSET (Known \X {"password", "api_token"})
    PROVE  Sound([accounts EXCEPT ![a] = row], people, letters, rewrites)
<1> DEFINE want == [accounts EXCEPT ![a] = row]
<1>1. /\ want \in [AccountIds -> AccountRows]
      /\ \A b \in AccountIds : want[b] = IF b = a THEN row ELSE accounts[b]
  BY DEF AccountsInv, AccountsTypeOK, GoodRow
<1> HIDE DEF want
<1>2. SoundTable(want) /\ StaysInUse(accounts, want)
  BY <1>1 DEF SoundTable, StaysInUse, GoodRow, AccountsInv
<1> QED  BY <1>2 DEF want, Sound, AccountsInv, AccountsTypeOK

LEMMA RowBegins ==
    ASSUME AccountsInv, NEW s \in AccountSessions, NEW op \in Ops,
           NEW a \in AccountIds, NEW row, GoodRow(a, row), BeginRow(s, op, a, row)
    PROVE  AccountsInv'
<1>1. Sound([accounts EXCEPT ![a] = row], people, {}, {})
  BY RowIsSound
<1> QED  BY <1>1, TablesBegin DEF BeginRow

LEMMA MailedRowBegins ==
    ASSUME AccountsInv, NEW s \in AccountSessions, NEW op \in Ops,
           NEW a \in AccountIds, NEW row, GoodRow(a, row),
           NEW letter \in LinkIds \X Letters, BeginMailed(s, op, a, row, letter)
    PROVE  AccountsInv'
<1>1. Sound([accounts EXCEPT ![a] = row], people, {letter}, {})
  BY RowIsSound
<1> QED  BY <1>1, TablesBegin DEF BeginMailed

LEMMA PeopleBegin ==
    ASSUME AccountsInv, NEW s \in AccountSessions,
           NEW wantPeople \in [PersonIds -> PeopleRows], BeginPeople(s, wantPeople)
    PROVE  AccountsInv'
<1>1. Sound(accounts, wantPeople, {}, {})
  BY DEF Sound, AccountsInv, StaysInUse
<1> QED  BY <1>1, TablesBegin DEF BeginPeople, Ops

LEMMA LetterIsOne ==
    ASSUME NEW l \in LinkIds, NEW kind \in {"invite", "code", "change"},
           NEW a \in AccountIds, NEW to \in Addresses
    PROVE  Letter(l, kind, a, to) \in LinkIds \X Letters
  BY DEF Letter, Letters

\* A new account's row, and what it is made with.
LEMMA NewRowIsGood ==
    ASSUME NEW email \in Addresses, NEW v \in PersonIds \cup {Null},
           NEW a \in AccountIds
    PROVE  /\ GoodRow(a, [NewRow(email, v) EXCEPT !.password = TRUE])
           /\ \A l \in LinkIds : GoodRow(a, [NewRow(email, v) EXCEPT !.invite = l])
  BY AccountsAssumption DEF NewRow, Unused, GoodRow, SoundRow, AccountRows

LEMMA AdoptedIsSomebody ==
    ASSUME NEW email PROVE Adopted(email) \in PersonIds \cup {Null}
<1> DEFINE holders == {v \in PersonIds : people[v].st = "active" /\ people[v].email = email}
<1>1. Cardinality(holders) = 1 => holders # {}
  BY FS_EmptySet
<1>2. holders \subseteq PersonIds
  OBVIOUS
<1>3. Adopted(email) = IF Cardinality(holders) = 1 /\ \A v \in holders : LoginOf(accounts, v) = {}
                       THEN CHOOSE v \in holders : TRUE ELSE Null
  BY DEF Adopted
<1> HIDE DEF holders
<1>4. holders # {} => (CHOOSE v \in holders : TRUE) \in holders
  OBVIOUS
<1> QED  BY <1>1, <1>2, <1>3, <1>4

-----------------------------------------------------------------------------
(* Accounts made, and rows changed: each request begins soundly.           *)

LEMMA CreatesSoundly ==
    ASSUME AccountsInv, NEW s \in AccountSessions, NEW email \in Addresses,
           NEW v \in PersonIds \cup {Null},
           CreateWithPassword(s, email, v) \/ CreateWithLink(s, email, v)
    PROVE  AccountsInv'
<1> DEFINE who == IF v = Null THEN Adopted(email) ELSE v
           a == Lowest(FreeAccounts(s))
           l == Lowest(FreeLinks(s))
<1>1. who \in PersonIds \cup {Null} /\ CreateOp(v) \in Ops
  BY AdoptedIsSomebody DEF CreateOp, Ops
<1>2. CASE CreateWithPassword(s, email, v)
  <2>1. a \in AccountIds
    BY <1>2, FreeAccount DEF CreateWithPassword
  <2>2. GoodRow(a, [NewRow(email, who) EXCEPT !.password = TRUE])
    BY <1>1, <2>1, NewRowIsGood
  <2>3. BeginRow(s, CreateOp(v), a, [NewRow(email, who) EXCEPT !.password = TRUE])
    BY <1>2 DEF CreateWithPassword
  <2> HIDE DEF who, a
  <2> QED  BY <1>1, <2>1, <2>2, <2>3, RowBegins
<1>3. CASE CreateWithLink(s, email, v)
  <2>1. a \in AccountIds /\ l \in LinkIds
    BY <1>3, FreeAccount, FreeLink DEF CreateWithLink
  <2>2. GoodRow(a, [NewRow(email, who) EXCEPT !.invite = l])
    BY <1>1, <2>1, NewRowIsGood
  <2>3. BeginMailed(s, CreateOp(v), a, [NewRow(email, who) EXCEPT !.invite = l],
                    Letter(l, "invite", a, email))
    BY <1>3 DEF CreateWithLink
  <2>4. Letter(l, "invite", a, email) \in LinkIds \X Letters
    BY <2>1, LetterIsOne
  <2> HIDE DEF who, a, l
  <2> QED  BY <1>1, <2>1, <2>2, <2>3, <2>4, MailedRowBegins
<1> QED  BY <1>2, <1>3

LEMMA InvitesSoundly ==
    ASSUME AccountsInv, NEW s \in AccountSessions, NEW v \in PersonIds,
           InviteVolunteer(s, v)
    PROVE  AccountsInv'
<1> DEFINE email == people[v].email
           a == Lowest(FreeAccounts(s))
           l == Lowest(FreeLinks(s))
<1>1. a \in AccountIds /\ l \in LinkIds
  BY FreeAccount, FreeLink DEF InviteVolunteer
<1>2. email \in Addresses
  BY DEF InviteVolunteer, AccountsInv, AccountsTypeOK, PeopleRows
<1>3. BeginMailed(s, "invite", a, [NewRow(email, v) EXCEPT !.invite = l],
                  Letter(l, "invite", a, email))
  BY DEF InviteVolunteer
<1> HIDE DEF a, l, email
<1>4. GoodRow(a, [NewRow(email, v) EXCEPT !.invite = l])
  BY <1>1, <1>2, NewRowIsGood
<1>5. Letter(l, "invite", a, email) \in LinkIds \X Letters /\ "invite" \in Ops
  BY <1>1, <1>2, LetterIsOne DEF Ops
<1> QED  BY <1>1, <1>3, <1>4, <1>5, MailedRowBegins

\* A row in use, with some of its columns changed, is good.
LEMMA GoodChanges ==
    ASSUME AccountsInv, NEW a \in Known
    PROVE  /\ a \in AccountIds /\ accounts[a] \in AccountRows
           /\ accounts[a].st # "unused" /\ accounts[a].email \in Addresses
           /\ accounts[a].pending = Null <=> accounts[a].change = Null
           /\ \A row \in AccountRows :
                /\ row.st # "unused" /\ row.email \in Addresses
                /\ row.pending = Null <=> row.change = Null
                => GoodRow(a, row)
  BY DEF AccountsInv, AccountsTypeOK, SoundTable, SoundRow, Known, GoodRow

\* The changes that mail a letter,
LEMMA MailsSoundly ==
    ASSUME AccountsInv, NEW s \in AccountSessions, NEW a \in Known,
           FreeLinks(s) # {},
           NEW op \in Ops, NEW kind \in {"invite", "code", "change"},
           NEW to \in Addresses, NEW row \in AccountRows,
           row.st # "unused" /\ row.email \in Addresses,
           row.pending = Null <=> row.change = Null,
           BeginMailed(s, op, a, row, Letter(Lowest(FreeLinks(s)), kind, a, to))
    PROVE  AccountsInv'
<1>1. Letter(Lowest(FreeLinks(s)), kind, a, to) \in LinkIds \X Letters
  BY FreeLink, GoodChanges, LetterIsOne
<1> QED  BY <1>1, GoodChanges, MailedRowBegins

LEMMA LettersSoundly ==
    ASSUME AccountsInv, NEW s \in AccountSessions, NEW a \in AccountIds,
           \/ \E v \in PersonIds : InviteAgain(s, v)
           \/ ReissueInvite(s, a) \/ StartOtp(s, a)
           \/ \E addr \in Addresses : StartEmailChange(s, a, addr)
    PROVE  AccountsInv'
<1> DEFINE l == Lowest(FreeLinks(s))
<1>0. Active \subseteq Known
  BY DEF Active, Known
<1>1. CASE \E v \in PersonIds : InviteAgain(s, v)
  <2>1. PICK v \in PersonIds, b \in Active :
           /\ FreeLinks(s) # {}
           /\ BeginMailed(s, "invite", b, [accounts[b] EXCEPT !.invite = l],
                          Letter(l, "invite", b, accounts[b].email))
    BY <1>1 DEF InviteAgain
  <2>2. b \in Known /\ l \in LinkIds
    BY <1>0, <2>1, FreeLink
  <2>3. [accounts[b] EXCEPT !.invite = l] \in AccountRows
    BY <2>2, GoodChanges DEF AccountRows
  <2> QED  BY <2>1, <2>2, <2>3, GoodChanges, MailsSoundly DEF Ops, AccountRows
<1>2. CASE ReissueInvite(s, a)
  <2> DEFINE row == [accounts[a] EXCEPT !.invite = l, !.password = FALSE,
                                         !.api_token = FALSE]
  <2>1. a \in Known /\ FreeLinks(s) # {} /\ l \in LinkIds
    BY <1>2, FreeLink DEF ReissueInvite
  <2>2. BeginMailed(s, "invite", a, row, Letter(l, "invite", a, accounts[a].email))
    BY <1>2 DEF ReissueInvite
  <2>3. /\ row \in AccountRows /\ row.st = accounts[a].st /\ row.email = accounts[a].email
        /\ row.pending = accounts[a].pending /\ row.change = accounts[a].change
    BY <2>1, GoodChanges DEF AccountRows
  <2> HIDE DEF row
  <2> QED  BY <2>1, <2>2, <2>3, GoodChanges, MailsSoundly DEF Ops
<1>3. CASE StartOtp(s, a)
  <2> DEFINE row == [accounts[a] EXCEPT !.otp = l]
  <2>1. a \in Known /\ FreeLinks(s) # {} /\ l \in LinkIds
    BY <1>0, <1>3, FreeLink DEF StartOtp
  <2>2. BeginMailed(s, "start_otp", a, row, Letter(l, "code", a, accounts[a].email))
    BY <1>3 DEF StartOtp
  <2>3. /\ row \in AccountRows /\ row.st = accounts[a].st /\ row.email = accounts[a].email
        /\ row.pending = accounts[a].pending /\ row.change = accounts[a].change
    BY <2>1, GoodChanges DEF AccountRows
  <2> HIDE DEF row
  <2> QED  BY <2>1, <2>2, <2>3, GoodChanges, MailsSoundly DEF Ops
<1>4. CASE \E addr \in Addresses : StartEmailChange(s, a, addr)
  <2>0. PICK addr \in Addresses : StartEmailChange(s, a, addr)
    BY <1>4
  <2> DEFINE row == [accounts[a] EXCEPT !.pending = addr, !.change = l]
  <2>1. a \in Known /\ FreeLinks(s) # {} /\ l \in LinkIds
    BY <1>0, <2>0, FreeLink DEF StartEmailChange
  <2>2. BeginMailed(s, "change_email", a, row, Letter(l, "change", a, addr))
    BY <2>0 DEF StartEmailChange
  <2>3. /\ row \in AccountRows /\ row.st = accounts[a].st /\ row.email = accounts[a].email
        /\ row.pending # Null /\ row.change # Null
    BY <2>1, GoodChanges, AccountsAssumption DEF AccountRows
  <2> HIDE DEF row
  <2> QED  BY <2>1, <2>2, <2>3, GoodChanges, MailsSoundly DEF Ops
<1> QED  BY <1>1, <1>2, <1>3, <1>4

\* the others that touch one row,
LEMMA KeepsSoundly ==
    ASSUME AccountsInv, NEW s \in AccountSessions, NEW a \in AccountIds,
           \/ ClearPassword(s, a) \/ VerifyOtp(s, a) \/ CancelEmailChange(s, a)
           \/ SetFlags(s, a) \/ \E v \in PersonIds \cup {Null} : SetVolunteer(s, a, v)
    PROVE  AccountsInv'
<1>1. a \in Known
  BY DEF ClearPassword, VerifyOtp, CancelEmailChange, SetFlags, SetVolunteer, Active, Known
<1>2. \E op \in Ops, row \in AccountRows :
        /\ BeginRow(s, op, a, row) /\ row.st # "unused" /\ row.email \in Addresses
        /\ row.pending = Null <=> row.change = Null
  <2>1. CASE ClearPassword(s, a)
    <3> DEFINE row == [accounts[a] EXCEPT !.password = FALSE, !.api_token = FALSE]
    <3>1. /\ row \in AccountRows /\ row.st = accounts[a].st /\ row.email = accounts[a].email
          /\ row.pending = accounts[a].pending /\ row.change = accounts[a].change
      BY <1>1, GoodChanges DEF AccountRows
    <3>2. BeginRow(s, "clear_password", a, row)
      BY <2>1 DEF ClearPassword
    <3> HIDE DEF row
    <3> QED  BY <1>1, <3>1, <3>2, GoodChanges DEF Ops
  <2>2. CASE VerifyOtp(s, a)
    <3> DEFINE row == [accounts[a] EXCEPT !.otp = Null, !.invite = Null, !.seen = TRUE]
    <3>1. /\ row \in AccountRows /\ row.st = accounts[a].st /\ row.email = accounts[a].email
          /\ row.pending = accounts[a].pending /\ row.change = accounts[a].change
      BY <1>1, GoodChanges DEF AccountRows
    <3>2. BeginRow(s, "verify_otp", a, row)
      BY <2>2 DEF VerifyOtp
    <3> HIDE DEF row
    <3> QED  BY <1>1, <3>1, <3>2, GoodChanges DEF Ops
  <2>3. CASE CancelEmailChange(s, a)
    <3> DEFINE row == NoChange(accounts[a])
    <3>1. /\ row \in AccountRows /\ row.st = accounts[a].st /\ row.email = accounts[a].email
          /\ row.pending = Null /\ row.change = Null
      BY <1>1, GoodChanges DEF AccountRows, NoChange
    <3>2. BeginRow(s, "change_email", a, row)
      BY <2>3 DEF CancelEmailChange
    <3> HIDE DEF row
    <3> QED  BY <1>1, <3>1, <3>2, GoodChanges DEF Ops
  <2>4. CASE SetFlags(s, a)
    <3>1. PICK st \in {"active", "off"} :
             BeginRow(s, "set_flags", a, [accounts[a] EXCEPT !.st = st])
      BY <2>4 DEF SetFlags
    <3> DEFINE row == [accounts[a] EXCEPT !.st = st]
    <3>2. /\ row \in AccountRows /\ row.st = st /\ row.email = accounts[a].email
          /\ row.pending = accounts[a].pending /\ row.change = accounts[a].change
      BY <1>1, GoodChanges DEF AccountRows
    <3>3. BeginRow(s, "set_flags", a, row)
      BY <3>1
    <3> HIDE DEF row
    <3> QED  BY <1>1, <3>2, <3>3, GoodChanges DEF Ops
  <2>5. CASE \E v \in PersonIds \cup {Null} : SetVolunteer(s, a, v)
    <3>1. PICK v \in PersonIds \cup {Null} :
             BeginRow(s, "set_volunteer", a, [accounts[a] EXCEPT !.volunteer_id = v])
      BY <2>5 DEF SetVolunteer
    <3> DEFINE row == [accounts[a] EXCEPT !.volunteer_id = v]
    <3>2. /\ row \in AccountRows /\ row.st = accounts[a].st /\ row.email = accounts[a].email
          /\ row.pending = accounts[a].pending /\ row.change = accounts[a].change
      BY <1>1, GoodChanges DEF AccountRows
    <3>3. BeginRow(s, "set_volunteer", a, row)
      BY <3>1
    <3> HIDE DEF row
    <3> QED  BY <1>1, <3>2, <3>3, GoodChanges DEF Ops
  <2> QED  BY <2>1, <2>2, <2>3, <2>4, <2>5
<1> QED  BY <1>1, <1>2, GoodChanges, RowBegins

\* and those that store something anew, or change a person too.
LEMMA StoredRowBegins ==
    ASSUME AccountsInv, NEW s \in AccountSessions, NEW op \in Ops, NEW a \in Known,
           NEW row \in AccountRows, row.st # "unused", row.email \in Addresses,
           row.pending = Null <=> row.change = Null,
           NEW rewrites \in SUBSET (Known \X {"password", "api_token"}),
           BeginTables(s, op, [accounts EXCEPT ![a] = row], people, {}, rewrites)
    PROVE  AccountsInv'
<1>1. a \in AccountIds /\ GoodRow(a, row)
  BY GoodChanges
<1>2. Sound([accounts EXCEPT ![a] = row], people, {}, rewrites)
  BY <1>1, RowIsSound
<1> QED  BY <1>2, TablesBegin

LEMMA StoresSoundly ==
    ASSUME AccountsInv, NEW s \in AccountSessions, NEW a \in AccountIds,
           \/ SetPassword(s, a)
           \/ \E password \in BOOLEAN : RedeemInvite(s, a, password)
           \/ \E forApi, stretch \in BOOLEAN : SignIn(s, a, forApi, stretch)
    PROVE  AccountsInv'
<1>1. a \in Known
  BY DEF SetPassword, RedeemInvite, SignIn, Active, Known
<1>2. /\ accounts \in [AccountIds -> AccountRows] /\ accounts[a] \in AccountRows
      /\ accounts[a].st # "unused" /\ accounts[a].email \in Addresses
      /\ accounts[a].pending = Null <=> accounts[a].change = Null
  BY <1>1, GoodChanges DEF AccountsInv, AccountsTypeOK
<1>3. CASE SetPassword(s, a)
  <2> DEFINE row == [accounts[a] EXCEPT !.password = TRUE, !.invite = Null]
             anew == {<<a, "password">>}
  <2>1. /\ row \in AccountRows /\ row.st = accounts[a].st /\ row.email = accounts[a].email
        /\ row.pending = accounts[a].pending /\ row.change = accounts[a].change
    BY <1>2 DEF AccountRows
  <2>2. [accounts EXCEPT ![a].password = TRUE, ![a].invite = Null]
          = [accounts EXCEPT ![a] = row]
    BY <1>2
  <2>3. BeginTables(s, "set_password", [accounts EXCEPT ![a] = row], people, {}, anew)
    BY <1>3, <2>2 DEF SetPassword
  <2>4. anew \in SUBSET (Known \X {"password", "api_token"}) /\ "set_password" \in Ops
    BY <1>1 DEF Ops
  <2> HIDE DEF row, anew
  <2> QED  BY <1>1, <1>2, <2>1, <2>3, <2>4, StoredRowBegins
<1>4. CASE \E password \in BOOLEAN : RedeemInvite(s, a, password)
  <2>0. PICK password \in BOOLEAN : RedeemInvite(s, a, password)
    BY <1>4
  <2> DEFINE row == [accounts[a] EXCEPT !.invite = Null, !.password = @ \/ password]
             anew == IF password THEN {<<a, "password">>} ELSE {}
  <2>1. /\ row \in AccountRows /\ row.st = accounts[a].st /\ row.email = accounts[a].email
        /\ row.pending = accounts[a].pending /\ row.change = accounts[a].change
    BY <1>2 DEF AccountRows
  <2>2. [accounts EXCEPT ![a].invite = Null, ![a].password = @ \/ password]
          = [accounts EXCEPT ![a] = row]
    BY <1>2
  <2>3. BeginTables(s, "redeem", [accounts EXCEPT ![a] = row], people, {}, anew)
    BY <2>0, <2>2 DEF RedeemInvite
  <2>4. anew \in SUBSET (Known \X {"password", "api_token"}) /\ "redeem" \in Ops
    BY <1>1 DEF Ops
  <2> HIDE DEF row, anew
  <2> QED  BY <1>1, <1>2, <2>1, <2>3, <2>4, StoredRowBegins
<1>5. CASE \E forApi, stretch \in BOOLEAN : SignIn(s, a, forApi, stretch)
  <2>0. PICK forApi \in BOOLEAN, stretch \in BOOLEAN : SignIn(s, a, forApi, stretch)
    BY <1>5
  <2> DEFINE row == [accounts[a] EXCEPT !.seen = TRUE, !.api_token = @ \/ forApi]
             anew == (IF stretch THEN {<<a, "password">>} ELSE {})
                       \cup (IF forApi THEN {<<a, "api_token">>} ELSE {})
  <2>1. /\ row \in AccountRows /\ row.st = accounts[a].st /\ row.email = accounts[a].email
        /\ row.pending = accounts[a].pending /\ row.change = accounts[a].change
    BY <1>2 DEF AccountRows
  <2>2. [accounts EXCEPT ![a].seen = TRUE, ![a].api_token = @ \/ forApi]
          = [accounts EXCEPT ![a] = row]
    BY <1>2
  <2>3. BeginTables(s, "sign_in", [accounts EXCEPT ![a] = row], people, {}, anew)
    BY <2>0, <2>2 DEF SignIn
  <2>4. anew \in SUBSET (Known \X {"password", "api_token"}) /\ "sign_in" \in Ops
    BY <1>1 DEF Ops
  <2> HIDE DEF row, anew
  <2> QED  BY <1>1, <1>2, <2>1, <2>3, <2>4, StoredRowBegins
<1> QED  BY <1>3, <1>4, <1>5

LEMMA ConfirmsSoundly ==
    ASSUME AccountsInv, NEW s \in AccountSessions, NEW a \in AccountIds,
           ConfirmEmailChange(s, a)
    PROVE  AccountsInv'
<1> DEFINE addr == accounts[a].pending
           v == accounts[a].volunteer_id
           moved == [NoChange(accounts[a]) EXCEPT !.email = addr, !.otp = Null]
           persons == IF v = Null THEN people ELSE [people EXCEPT ![v].email = addr]
<1>1. a \in Known /\ accounts[a].change # Null
  BY AccountsAssumption DEF ConfirmEmailChange, Active, Known
<1>2. /\ accounts \in [AccountIds -> AccountRows] /\ accounts[a] \in AccountRows
      /\ people \in [PersonIds -> PeopleRows]
      /\ accounts[a].st # "unused" /\ accounts[a].email \in Addresses
      /\ accounts[a].pending = Null <=> accounts[a].change = Null
  BY <1>1, GoodChanges DEF AccountsInv, AccountsTypeOK
<1>3. addr \in Addresses /\ v \in PersonIds \cup {Null}
  BY <1>1, <1>2, Columns
<1>4. /\ NoChange(accounts[a]) \in AccountRows
      /\ NoChange(accounts[a]).st = accounts[a].st
      /\ NoChange(accounts[a]).email = accounts[a].email
      /\ NoChange(accounts[a]).pending = Null /\ NoChange(accounts[a]).change = Null
  BY <1>2 DEF NoChange, AccountRows
<1>5. /\ moved \in AccountRows /\ moved.st = accounts[a].st /\ moved.email = addr
      /\ moved.pending = Null /\ moved.change = Null
  BY <1>2, <1>3, <1>4 DEF AccountRows
<1>6. CASE BeginRow(s, "change_email", a, NoChange(accounts[a]))
  <2>1. GoodRow(a, NoChange(accounts[a]))
    BY <1>1, <1>2, <1>4, GoodChanges
  <2> QED  BY <1>6, <2>1, RowBegins DEF Ops
<1>7. CASE BeginTables(s, "change_email", [accounts EXCEPT ![a] = moved], persons, {}, {})
  <2>1. GoodRow(a, moved)
    BY <1>1, <1>2, <1>3, <1>5, GoodChanges
  <2>2. Sound([accounts EXCEPT ![a] = moved], people, {}, {})
    BY <2>1, RowIsSound
  <2>3. persons \in [PersonIds -> PeopleRows]
    BY <1>2, <1>3 DEF PeopleRows
  <2>4. Sound([accounts EXCEPT ![a] = moved], persons, {}, {})
    BY <2>2, <2>3 DEF Sound
  <2> HIDE DEF moved, persons
  <2> QED  BY <1>7, <2>4, TablesBegin DEF Ops
<1>8. \/ BeginRow(s, "change_email", a, NoChange(accounts[a]))
      \/ BeginTables(s, "change_email", [accounts EXCEPT ![a] = moved], persons, {}, {})
  BY Zenon DEF ConfirmEmailChange
<1> QED  BY <1>6, <1>7, <1>8

LEMMA PeopleSoundly ==
    ASSUME AccountsInv, NEW s \in AccountSessions, NEW v \in PersonIds,
           \/ \E email \in Addresses \cup {Null} : UpdateVolunteer(s, v, email)
           \/ ArchiveVolunteer(s, v) \/ DeleteVolunteer(s, v)
    PROVE  AccountsInv'
<1>1. people \in [PersonIds -> PeopleRows]
  BY DEF AccountsInv, AccountsTypeOK
<1>2. \E persons \in [PersonIds -> PeopleRows] : BeginPeople(s, persons)
  <2>1. ASSUME NEW email \in Addresses \cup {Null}
        PROVE  [people EXCEPT ![v].email = email] \in [PersonIds -> PeopleRows]
    BY <1>1 DEF PeopleRows
  <2>2. ASSUME NEW st \in {"active", "archived"}
        PROVE  [people EXCEPT ![v].st = st] \in [PersonIds -> PeopleRows]
    BY <1>1 DEF PeopleRows
  <2>3. [people EXCEPT ![v] = [st |-> "gone", email |-> Null]] \in [PersonIds -> PeopleRows]
    BY <1>1 DEF PeopleRows
  <2> QED  BY <2>1, <2>2, <2>3 DEF UpdateVolunteer, ArchiveVolunteer, DeleteVolunteer
<1> QED  BY <1>2, PeopleBegin

-----------------------------------------------------------------------------
(* Provisioning, volunteer after volunteer.                                *)

\* A set of numbers that has 0, and the next of each it has, is all of them.
LEMMA AllNumbers ==
    ASSUME NEW S \in SUBSET Nat, 0 \in S, \A n \in S : n + 1 \in S
    PROVE  S = Nat
<1> SUFFICES ASSUME S # Nat PROVE FALSE
  OBVIOUS
<1> DEFINE T == Nat \ S
           x == Lowest(T)
<1>1. T \in SUBSET Nat /\ T # {}
  OBVIOUS
<1>2. x \in T /\ \A y \in T : x <= y
  BY <1>1, LowestIsLeast
<1> HIDE DEF x
<1>3. x # 0 /\ x - 1 \in Nat
  BY <1>2
<1>4. x - 1 \in S
  BY <1>2, <1>3
<1> QED  BY <1>2, <1>3, <1>4

People == Cardinality(PersonIds)

NothingDone == [rows |-> accounts, letters |-> {}]

\* f goes from volunteer to volunteer, up to the m-th.
GoesThrough(f, s, m) ==
    f = [n \in 0..m |-> IF n = 0 THEN NothingDone ELSE ProvisionOne(s, n, f[n - 1])]

LEMMA PeopleAreCounted == People \in Nat /\ PersonIds = 1..People
  BY AccountsAssumption, FS_CardinalityType DEF People

\* Provisioning has a result: what it is defined by exists, being built one
\* volunteer at a time,
LEMMA ProvisionEnds ==
    ASSUME NEW s \in AccountSessions, NEW m \in Nat
    PROVE  \E f : GoesThrough(f, s, m)
<1> DEFINE S == {k \in Nat : \E f : GoesThrough(f, s, k)}
<1>1. 0 \in S
  <2> DEFINE f == [n \in 0..0 |-> NothingDone]
  <2>1. f = [n \in 0..0 |-> IF n = 0 THEN NothingDone ELSE ProvisionOne(s, n, f[n - 1])]
    OBVIOUS
  <2> HIDE DEF f
  <2>2. GoesThrough(f, s, 0)
    BY <2>1 DEF GoesThrough
  <2> QED  BY <2>2
<1>2. ASSUME NEW k \in S PROVE k + 1 \in S
  <2>1. k \in Nat /\ k + 1 \in Nat
    OBVIOUS
  <2>2. PICK f : GoesThrough(f, s, k)
    OBVIOUS
  <2> DEFINE One(n, tables) == ProvisionOne(s, n, tables)
             g == [n \in 0..(k + 1) |-> IF n = k + 1 THEN One(k + 1, f[k]) ELSE f[n]]
  <2>3. f = [n \in 0..k |-> IF n = 0 THEN NothingDone ELSE One(n, f[n - 1])]
    BY <2>2 DEF GoesThrough
  <2> HIDE DEF One
  <2>4. \A n \in 0..k : g[n] = f[n]
    BY <2>1
  <2>5. ASSUME NEW n \in 0..(k + 1)
        PROVE  g[n] = IF n = 0 THEN NothingDone ELSE One(n, g[n - 1])
    <3>1. CASE n = k + 1
      <4>1. n # 0 /\ n - 1 = k /\ k \in 0..k
        BY <2>1, <3>1
      <4>2. g[n] = One(k + 1, f[k])
        BY <2>1, <3>1
      <4>3. g[k] = f[k]
        BY <2>4, <4>1
      <4> QED  BY <3>1, <4>1, <4>2, <4>3
    <3>2. CASE n # k + 1
      <4>1. n \in 0..k /\ (n # 0 => n - 1 \in 0..k)
        BY <2>1, <3>2
      <4>2. f[n] = IF n = 0 THEN NothingDone ELSE One(n, f[n - 1])
        BY <2>3, <4>1
      <4> HIDE DEF g
      <4> QED  BY <2>4, <4>1, <4>2
    <3> QED  BY <3>1, <3>2
  <2>6. g = [n \in 0..(k + 1) |-> IF n = 0 THEN NothingDone ELSE One(n, g[n - 1])]
    BY <2>5
  <2> HIDE DEF g
  <2>7. GoesThrough(g, s, k + 1)
    BY <2>6 DEF GoesThrough, One
  <2> QED  BY <2>1, <2>7
<1>3. S = Nat
  <2> HIDE DEF S
  <2>1. S \in SUBSET Nat
    BY DEF S
  <2> QED  BY <1>1, <1>2, <2>1, AllNumbers
<1> QED  BY <1>3

\* and goes on from each to the next.
LEMMA ProvisionSteps ==
    ASSUME NEW s \in AccountSessions
    PROVE  /\ Provisioned(s)[0] = NothingDone
           /\ \A n \in PersonIds :
                Provisioned(s)[n] = ProvisionOne(s, n, Provisioned(s)[n - 1])
<1> DEFINE f == Provisioned(s)
           One(n, tables) == ProvisionOne(s, n, tables)
<1>1. f = CHOOSE g : GoesThrough(g, s, People)
  BY Zenon DEF Provisioned, GoesThrough, NothingDone, People
<1>2. \E g : GoesThrough(g, s, People)
  BY ProvisionEnds, PeopleAreCounted
<1>3. GoesThrough(f, s, People)
  BY <1>1, <1>2, Zenon
<1>4. f = [n \in 0..People |-> IF n = 0 THEN NothingDone ELSE One(n, f[n - 1])]
  BY <1>3 DEF GoesThrough
<1> HIDE DEF f, One
<1>5. f[0] = NothingDone
  BY <1>4, PeopleAreCounted
<1>6. ASSUME NEW n \in PersonIds PROVE f[n] = One(n, f[n - 1])
  BY <1>4, PeopleAreCounted
<1> QED  BY <1>5, <1>6 DEF f, One

\* Rows and letters, after the first n people.
TableRecords == [rows : [AccountIds -> AccountRows], letters : SUBSET (LinkIds \X Letters)]

\* The accounts and links that have been taken on the way.
TakenRows(s, tables) == {x \in FreeAccounts(s) : tables.rows[x].st # "unused"}
TakenLinks(s, tables) == {l \in FreeLinks(s) : \E y \in tables.letters : y[1] = l}

ServedOf(n) == Unserved \cap 1..n

Provisions(s, n, tables) ==
    /\ tables \in TableRecords
    /\ SoundTable(tables.rows) /\ StaysInUse(accounts, tables.rows)
    /\ \A a \in AccountIds : accounts[a].volunteer_id # Null =>
         tables.rows[a].volunteer_id = accounts[a].volunteer_id
    /\ Cardinality(TakenRows(s, tables)) <= Cardinality(ServedOf(n))
    /\ Cardinality(TakenLinks(s, tables)) <= Cardinality(ServedOf(n))

\* There are enough of both.
Enough(s) ==
    /\ Cardinality(Unserved) <= Cardinality(FreeAccounts(s))
    /\ Cardinality(Unserved) <= Cardinality(FreeLinks(s))

\* As long as somebody is left to serve, so is something to take, and taking it
\* keeps the count.
LEMMA OneMoreTaken ==
    ASSUME NEW A, IsFiniteSet(A), NEW T \in SUBSET A, NEW n \in Unserved,
           Cardinality(Unserved) <= Cardinality(A),
           Cardinality(T) <= Cardinality(ServedOf(n - 1))
    PROVE  /\ A \ T # {}
           /\ \A x \in A : Cardinality(T \cup {x}) <= Cardinality(ServedOf(n))
<1> DEFINE U == ServedOf(n - 1)
<1>1. IsFiniteSet(Unserved) /\ IsFiniteSet(U) /\ IsFiniteSet(T)
  BY AccountsAssumption, FS_Subset DEF Unserved, ServedOf
<1>2. n \in Nat /\ n >= 1
  BY PeopleAreCounted DEF Unserved
<1>3. ServedOf(n) = U \cup {n} /\ n \notin U /\ U \cup {n} \subseteq Unserved
  BY <1>2 DEF ServedOf
<1> HIDE DEF U
<1>4. /\ Cardinality(T) \in Nat /\ Cardinality(U) \in Nat
      /\ Cardinality(Unserved) \in Nat /\ Cardinality(A) \in Nat
  BY <1>1, FS_CardinalityType
<1>5. Cardinality(U \cup {n}) = Cardinality(U) + 1
  BY <1>1, <1>3, FS_AddElement
<1>6. Cardinality(U \cup {n}) <= Cardinality(Unserved)
  BY <1>1, <1>3, FS_Subset
<1>7. T # A
  BY <1>4, <1>5, <1>6 DEF U
<1>8. ASSUME NEW x \in A PROVE Cardinality(T \cup {x}) <= Cardinality(U) + 1
  <2>1. Cardinality(T \cup {x}) = IF x \in T THEN Cardinality(T) ELSE Cardinality(T) + 1
    BY <1>1, FS_AddElement
  <2> QED  BY <1>4, <2>1 DEF U
<1> QED  BY <1>3, <1>5, <1>7, <1>8

LEMMA CountGrows ==
    ASSUME NEW n \in PersonIds
    PROVE  /\ Cardinality(ServedOf(n - 1)) \in Nat /\ Cardinality(ServedOf(n)) \in Nat
           /\ Cardinality(ServedOf(n - 1)) <= Cardinality(ServedOf(n))
<1>1. IsFiniteSet(ServedOf(n))
  BY AccountsAssumption, FS_Subset DEF Unserved, ServedOf
<1>2. ServedOf(n - 1) \subseteq ServedOf(n)
  BY PeopleAreCounted DEF ServedOf
<1>3. Cardinality(ServedOf(n - 1)) <= Cardinality(ServedOf(n)) /\ IsFiniteSet(ServedOf(n - 1))
  BY <1>1, <1>2, FS_Subset
<1> QED  BY <1>1, <1>3, FS_CardinalityType

LEMMA FreeAreFinite ==
    ASSUME NEW s
    PROVE  /\ IsFiniteSet(FreeAccounts(s)) /\ FreeAccounts(s) \in SUBSET Nat
           /\ IsFiniteSet(FreeLinks(s)) /\ FreeLinks(s) \in SUBSET Nat
  BY AccountsAssumption, FS_Subset DEF FreeAccounts, FreeLinks

\* The row and the link the next one gets.
NextRow(s, tables) == Lowest({x \in FreeAccounts(s) : tables.rows[x].st = "unused"})
NextLink(s, tables) == Lowest({x \in FreeLinks(s) : \A y \in tables.letters : y[1] # x})

\* Who needs serving.
ToServe(tables, v) ==
    /\ people[v].st = "active" /\ people[v].email # Null
    /\ LoginOf(tables.rows, v) = {}

LEMMA ThereIsANext ==
    ASSUME AccountsInv, NEW s \in AccountSessions, Enough(s),
           NEW n \in PersonIds, NEW tables, Provisions(s, n - 1, tables), ToServe(tables, n)
    PROVE  LET a == NextRow(s, tables)
               l == NextLink(s, tables)
           IN  /\ n \in Unserved
               /\ a \in FreeAccounts(s) /\ tables.rows[a].st = "unused"
               /\ l \in FreeLinks(s) /\ \A y \in tables.letters : y[1] # l
               /\ \A i \in FreeLinks(s) : (\A y \in tables.letters : y[1] # i) => l <= i
               /\ Cardinality(TakenRows(s, tables) \cup {a}) <= Cardinality(ServedOf(n))
               /\ Cardinality(TakenLinks(s, tables) \cup {l}) <= Cardinality(ServedOf(n))
<1> DEFINE a == NextRow(s, tables)
           l == NextLink(s, tables)
           A == {x \in FreeAccounts(s) : tables.rows[x].st = "unused"}
           L == {x \in FreeLinks(s) : \A y \in tables.letters : y[1] # x}
<1>1. n \in Unserved
  <2>1. \A x \in AccountIds : tables.rows[x].volunteer_id # n
    BY DEF ToServe, LoginOf
  <2>2. \A x \in AccountIds : accounts[x].volunteer_id # n
    BY <2>1, AccountsAssumption DEF Provisions
  <2> QED  BY <2>2 DEF ToServe, Unserved, LoginOf
<1>2. /\ FreeAccounts(s) \ TakenRows(s, tables) # {}
      /\ \A x \in FreeAccounts(s) :
           Cardinality(TakenRows(s, tables) \cup {x}) <= Cardinality(ServedOf(n))
  <2>1. TakenRows(s, tables) \in SUBSET FreeAccounts(s)
    BY DEF TakenRows
  <2> QED  BY <1>1, <2>1, FreeAreFinite, OneMoreTaken DEF Provisions, Enough
<1>3. /\ FreeLinks(s) \ TakenLinks(s, tables) # {}
      /\ \A x \in FreeLinks(s) :
           Cardinality(TakenLinks(s, tables) \cup {x}) <= Cardinality(ServedOf(n))
  <2>1. TakenLinks(s, tables) \in SUBSET FreeLinks(s)
    BY DEF TakenLinks
  <2> QED  BY <1>1, <2>1, FreeAreFinite, OneMoreTaken DEF Provisions, Enough
<1>4. A # {} /\ L # {}
  BY <1>2, <1>3 DEF TakenRows, TakenLinks
<1>5. A \in SUBSET Nat /\ L \in SUBSET Nat
  BY FreeAreFinite
<1>6. a = Lowest(A) /\ l = Lowest(L)
  BY DEF NextRow, NextLink
<1> HIDE DEF A, L, a, l
<1>7. a \in A /\ l \in L /\ \A i \in L : l <= i
  BY <1>4, <1>5, <1>6, LowestIsLeast
<1> QED  BY <1>1, <1>2, <1>3, <1>7 DEF A, L, a, l

\* A new account with its link, or the unlinked ones at the address linked.
WithAccount(s, v, tables) ==
    LET a == NextRow(s, tables)
        l == NextLink(s, tables)
    IN  [rows |-> [tables.rows EXCEPT ![a] = [NewRow(people[v].email, v) EXCEPT !.invite = l]],
         letters |-> tables.letters \cup {Letter(l, "invite", a, people[v].email)}]

LinkedRow(row, v) ==
    IF row.email = people[v].email /\ row.volunteer_id = Null
    THEN [row EXCEPT !.volunteer_id = v] ELSE row

WithLink(v, tables) ==
    [tables EXCEPT !.rows = [x \in AccountIds |-> LinkedRow(tables.rows[x], v)]]

LEMMA ProvisionCases ==
    ASSUME NEW s, NEW v, NEW tables
    PROVE  ProvisionOne(s, v, tables) =
             IF ~ToServe(tables, v) THEN tables
             ELSE IF At(tables.rows, people[v].email) = {} THEN WithAccount(s, v, tables)
             ELSE WithLink(v, tables)
  BY Zenon DEF ProvisionOne, ToServe, WithAccount, WithLink, LinkedRow, NextRow, NextLink

LEMMA LinkedIsSound ==
    ASSUME NEW row \in AccountRows, SoundRow(row), NEW v \in PersonIds, people[v].email # Null
    PROVE  /\ LinkedRow(row, v) \in AccountRows /\ SoundRow(LinkedRow(row, v))
           /\ LinkedRow(row, v).st = row.st /\ LinkedRow(row, v).email = row.email
           /\ row.volunteer_id # Null => LinkedRow(row, v) = row
<1>1. CASE row.email = people[v].email /\ row.volunteer_id = Null
  <2>1. row.st # "unused"
    BY <1>1 DEF SoundRow, Unused
  <2>2. LinkedRow(row, v) = [row EXCEPT !.volunteer_id = v]
    BY <1>1 DEF LinkedRow
  <2>3. /\ [row EXCEPT !.volunteer_id = v] \in AccountRows
        /\ [row EXCEPT !.volunteer_id = v].st = row.st
        /\ [row EXCEPT !.volunteer_id = v].email = row.email
        /\ [row EXCEPT !.volunteer_id = v].pending = row.pending
        /\ [row EXCEPT !.volunteer_id = v].change = row.change
    BY DEF AccountRows
  <2> QED  BY <1>1, <2>1, <2>2, <2>3 DEF SoundRow
<1>2. CASE ~(row.email = people[v].email /\ row.volunteer_id = Null)
  BY <1>2 DEF LinkedRow
<1> QED  BY <1>1, <1>2

LEMMA AccountAddedSoundly ==
    ASSUME AccountsInv, NEW s \in AccountSessions, Enough(s),
           NEW n \in PersonIds, NEW tables, Provisions(s, n - 1, tables), ToServe(tables, n)
    PROVE  Provisions(s, n, WithAccount(s, n, tables))
<1> DEFINE a == NextRow(s, tables)
           l == NextLink(s, tables)
           email == people[n].email
           new == [NewRow(email, n) EXCEPT !.invite = l]
           rows == [tables.rows EXCEPT ![a] = new]
           letters == tables.letters \cup {Letter(l, "invite", a, email)}
           after == WithAccount(s, n, tables)
<1>0. after = [rows |-> rows, letters |-> letters]
  BY DEF WithAccount
<1>1. /\ a \in FreeAccounts(s) /\ tables.rows[a].st = "unused"
      /\ l \in FreeLinks(s)
      /\ Cardinality(TakenRows(s, tables) \cup {a}) <= Cardinality(ServedOf(n))
      /\ Cardinality(TakenLinks(s, tables) \cup {l}) <= Cardinality(ServedOf(n))
  BY ThereIsANext
<1>2. a \in AccountIds /\ accounts[a].st = "unused" /\ l \in LinkIds
  BY <1>1 DEF FreeAccounts, FreeLinks
<1>3. accounts[a] = Unused /\ accounts[a].volunteer_id = Null
  BY <1>2 DEF AccountsInv, SoundTable, SoundRow, Unused
<1>4. email \in Addresses
  BY DEF ToServe, AccountsInv, AccountsTypeOK, PeopleRows
<1>5. /\ tables.rows \in [AccountIds -> AccountRows]
      /\ tables.letters \in SUBSET (LinkIds \X Letters)
  BY DEF Provisions, TableRecords
<1> HIDE DEF a, l, email
<1>6. new \in AccountRows /\ SoundRow(new) /\ new.st = "active"
  <2>1. GoodRow(a, new)
    BY <1>2, <1>4, NewRowIsGood
  <2>2. new.st = "active"
    BY DEF NewRow, Unused
  <2> QED  BY <2>1, <2>2 DEF GoodRow
<1>7. Letter(l, "invite", a, email) \in LinkIds \X Letters
      /\ Letter(l, "invite", a, email)[1] = l
  BY <1>2, <1>4, LetterIsOne DEF Letter
<1> DEFINE lt == Letter(l, "invite", a, email)
<1> HIDE DEF new, lt
<1>8. /\ rows \in [AccountIds -> AccountRows]
      /\ \A b \in AccountIds : rows[b] = IF b = a THEN new ELSE tables.rows[b]
  BY <1>2, <1>5, <1>6
<1>9. letters \in SUBSET (LinkIds \X Letters)
  BY <1>5, <1>7 DEF lt
<1> HIDE DEF rows
<1>10. SoundTable(rows) /\ StaysInUse(accounts, rows)
  BY <1>2, <1>6, <1>8 DEF Provisions, SoundTable, StaysInUse
<1>11. \A b \in AccountIds : accounts[b].volunteer_id # Null =>
         rows[b].volunteer_id = accounts[b].volunteer_id
  BY <1>3, <1>8 DEF Provisions
<1>12. TakenRows(s, after) = TakenRows(s, tables) \cup {a}
  <2>1. \A x \in FreeAccounts(s) : x \in AccountIds
    BY DEF FreeAccounts
  <2> QED  BY <1>0, <1>1, <1>6, <1>8, <2>1 DEF TakenRows
<1>13. TakenLinks(s, after) = TakenLinks(s, tables) \cup {l}
  BY <1>0, <1>1, <1>7 DEF TakenLinks
<1> HIDE DEF letters
<1>14. after \in TableRecords
  BY <1>0, <1>8, <1>9 DEF TableRecords
<1> HIDE DEF after
<1>15. after.rows = rows
  BY <1>0
<1> QED  BY <1>1, <1>10, <1>11, <1>12, <1>13, <1>14, <1>15 DEF Provisions, after

LEMMA LinkedSoundly ==
    ASSUME AccountsInv, NEW s \in AccountSessions,
           NEW n \in PersonIds, NEW tables, Provisions(s, n - 1, tables), ToServe(tables, n)
    PROVE  Provisions(s, n, WithLink(n, tables))
<1> DEFINE rows == [x \in AccountIds |-> LinkedRow(tables.rows[x], n)]
           after == WithLink(n, tables)
<1>1. tables \in TableRecords /\ tables.rows \in [AccountIds -> AccountRows]
  BY DEF Provisions, TableRecords
<1>2. after = [tables EXCEPT !.rows = rows]
  BY DEF WithLink
<1>3. \A x \in AccountIds :
        /\ rows[x] \in AccountRows /\ SoundRow(rows[x])
        /\ rows[x].st = tables.rows[x].st
        /\ tables.rows[x].volunteer_id # Null => rows[x] = tables.rows[x]
  BY <1>1, LinkedIsSound DEF Provisions, SoundTable, ToServe
<1>4. rows \in [AccountIds -> AccountRows]
  BY <1>3
<1> HIDE DEF rows
<1>5. after \in TableRecords /\ after.rows = rows /\ after.letters = tables.letters
  BY <1>1, <1>2, <1>4 DEF TableRecords
<1> HIDE DEF after
<1>6. SoundTable(rows) /\ StaysInUse(accounts, rows)
  BY <1>3, <1>4 DEF Provisions, SoundTable, StaysInUse
<1>7. \A b \in AccountIds : accounts[b].volunteer_id # Null =>
         rows[b].volunteer_id = accounts[b].volunteer_id
  BY <1>3 DEF Provisions
<1>8. TakenRows(s, after) = TakenRows(s, tables)
  BY <1>3, <1>5 DEF TakenRows, FreeAccounts
<1>9. TakenLinks(s, after) = TakenLinks(s, tables)
  BY <1>5 DEF TakenLinks
<1>10. /\ Cardinality(TakenRows(s, tables)) \in Nat
       /\ Cardinality(TakenLinks(s, tables)) \in Nat
  <2>1. IsFiniteSet(TakenRows(s, tables)) /\ IsFiniteSet(TakenLinks(s, tables))
    BY FreeAreFinite, FS_Subset DEF TakenRows, TakenLinks
  <2> QED  BY <2>1, FS_CardinalityType
<1>11. /\ Cardinality(TakenRows(s, tables)) <= Cardinality(ServedOf(n))
       /\ Cardinality(TakenLinks(s, tables)) <= Cardinality(ServedOf(n))
  BY <1>10, CountGrows DEF Provisions
<1> QED  BY <1>5, <1>6, <1>7, <1>8, <1>9, <1>11 DEF Provisions, after

LEMMA ProvisionStep ==
    ASSUME AccountsInv, NEW s \in AccountSessions, Enough(s),
           NEW n \in PersonIds, NEW tables, Provisions(s, n - 1, tables)
    PROVE  Provisions(s, n, ProvisionOne(s, n, tables))
<1>1. CASE ~ToServe(tables, n)
  <2>1. /\ Cardinality(TakenRows(s, tables)) \in Nat
        /\ Cardinality(TakenLinks(s, tables)) \in Nat
    <3>1. IsFiniteSet(TakenRows(s, tables)) /\ IsFiniteSet(TakenLinks(s, tables))
      BY FreeAreFinite, FS_Subset DEF TakenRows, TakenLinks
    <3> QED  BY <3>1, FS_CardinalityType
  <2>2. Provisions(s, n, tables)
    BY <2>1, CountGrows DEF Provisions
  <2> QED  BY <1>1, <2>2, ProvisionCases
<1>2. CASE ToServe(tables, n)
  BY <1>2, ProvisionCases, AccountAddedSoundly, LinkedSoundly
<1> QED  BY <1>1, <1>2

LEMMA ProvisionedSoundly ==
    ASSUME AccountsInv, NEW s \in AccountSessions, Enough(s)
    PROVE  \A n \in 0..People : Provisions(s, n, Provisioned(s)[n])
<1> DEFINE S == {n \in Nat : n <= People => Provisions(s, n, Provisioned(s)[n])}
<1>1. 0 \in S
  <2>1. ServedOf(0) = {} /\ TakenRows(s, NothingDone) = {} /\ TakenLinks(s, NothingDone) = {}
    BY DEF ServedOf, TakenRows, TakenLinks, NothingDone, FreeAccounts
  <2>2. NothingDone \in TableRecords
    BY DEF NothingDone, TableRecords, AccountsInv, AccountsTypeOK
  <2>3. Provisions(s, 0, NothingDone)
    BY <2>1, <2>2, FS_EmptySet DEF Provisions, NothingDone, AccountsInv, StaysInUse
  <2> QED  BY <2>3, ProvisionSteps
<1>2. ASSUME NEW n \in S PROVE n + 1 \in S
  <2> SUFFICES ASSUME n + 1 <= People
               PROVE  Provisions(s, n + 1, Provisioned(s)[n + 1])
    OBVIOUS
  <2>1. n \in Nat /\ (n + 1) - 1 = n /\ n + 1 \in PersonIds /\ n <= People
    BY PeopleAreCounted
  <2>2. Provisions(s, n, Provisioned(s)[n])
    BY <2>1
  <2>3. Provisioned(s)[n + 1] = ProvisionOne(s, n + 1, Provisioned(s)[n])
    BY <2>1, ProvisionSteps
  <2> QED  BY <2>1, <2>2, <2>3, ProvisionStep
<1>3. S = Nat
  <2> HIDE DEF S
  <2>1. S \in SUBSET Nat
    BY DEF S
  <2> QED  BY <1>1, <1>2, <2>1, AllNumbers
<1> QED  BY <1>3, PeopleAreCounted

LEMMA ProvisionSoundly ==
    ASSUME AccountsInv, NEW s \in AccountSessions, Provision(s)
    PROVE  AccountsInv'
<1> DEFINE tables == Provisioned(s)[People]
<1>1. /\ Enough(s)
      /\ BeginTables(s, "provision", tables.rows, people, tables.letters, {})
  BY DEF Provision, Enough, People
<1>2. Provisions(s, People, tables)
  BY <1>1, ProvisionedSoundly, PeopleAreCounted
<1> HIDE DEF tables
<1>3. Sound(tables.rows, people, tables.letters, {})
  BY <1>2 DEF Provisions, TableRecords, Sound, AccountsInv, AccountsTypeOK
<1> QED  BY <1>1, <1>3, TablesBegin DEF Ops

-----------------------------------------------------------------------------
(* A request ends.                                                         *)

Persons(r) == [v \in PersonIds |-> MergedPerson(r, v)]

Dropped(r) == {v \in PersonIds : people[v].st # "gone" /\ Persons(r)[v].st = "gone"}

LeftRow(r, a) ==
    LET row == MergedRow(r, a)
    IN  IF row.volunteer_id \in Dropped(r) THEN [row EXCEPT !.volunteer_id = Null] ELSE row

LeftRows(r) == [a \in AccountIds |-> LeftRow(r, a)]

\* What has been mailed once these are.
MailedWith(letters) ==
    [l \in LinkIds |-> IF \E x \in letters : x[1] = l
                       THEN (CHOOSE x \in letters : x[1] = l)[2] ELSE mailed[l]]

LEMMA Commits ==
    ASSUME NEW s, CommitTables(s)
    PROVE  /\ desk[s].op # "idle"
           /\ accounts' = LeftRows(desk[s]) /\ people' = Persons(desk[s])
           /\ Allowed(LeftRows(desk[s]), Persons(desk[s]))
           /\ mailed' = MailedWith(desk[s].letters)
           /\ desk' = [desk EXCEPT ![s] = NothingAsked]
           /\ UNCHANGED <<expired, asks>>
  BY Zenon DEF CommitTables, LeftRows, LeftRow, Persons, Dropped, MailedWith

\* A merged row is in use if it was, has an address if it is, and is as it was
\* if it is not.
LEMMA MergedIsSound ==
    ASSUME AccountsInv, NEW r, SoundRequest(r), NEW a \in AccountIds
    PROVE  /\ MergedRow(r, a) \in AccountRows
           /\ accounts[a].st # "unused" => MergedRow(r, a).st # "unused"
           /\ MergedRow(r, a).st = "unused" => MergedRow(r, a) = Unused
           /\ MergedRow(r, a).st # "unused" => MergedRow(r, a).email \in Addresses
<1> DEFINE m == MergedRow(r, a)
           w == r.want[a]
           b == r.was[a]
           o == accounts[a]
<1>1. m \in AccountRows /\ w \in AccountRows /\ b \in AccountRows /\ o \in AccountRows
  BY MergedColumns DEF SoundRequest, SoundTable, AccountsInv, AccountsTypeOK
<1>2. \A c \in DOMAIN Unused :
        m[c] = IF w[c] # b[c] \/ <<a, c>> \in r.rewrites THEN w[c] ELSE o[c]
  BY MergedColumns DEF SoundRequest, AccountsInv, AccountsTypeOK
<1>3. /\ SoundRow(w) /\ SoundRow(b) /\ SoundRow(o)
      /\ b.st # "unused" => w.st # "unused" /\ o.st # "unused"
      /\ \A c : <<a, c>> \in r.rewrites => b.st # "unused"
  <2>1. \A c : <<a, c>> \in r.rewrites => r.was[<<a, c>>[1]].st # "unused"
    BY DEF SoundRequest
  <2> QED  BY <2>1 DEF SoundRequest, SoundTable, StaysInUse, AccountsInv
<1>4. \A c : <<a, c>> \in r.rewrites => c \in {"password", "api_token"}
  BY DEF SoundRequest, AccountRequests
<1>5. DOMAIN Unused = {"st", "email", "volunteer_id", "password", "seen", "api_token",
                       "invite", "pending", "change", "otp"}
  BY DEF Unused
<1>6. /\ m.st = IF w.st # b.st THEN w.st ELSE o.st
      /\ m.email = IF w.email # b.email THEN w.email ELSE o.email
  BY <1>2, <1>4, <1>5
<1> HIDE DEF m, w, b, o
<1>7. Unused.email = Null /\ Null \notin Addresses /\ Unused.st = "unused"
  BY AccountsAssumption DEF Unused
<1>8. o.st # "unused" => m.st # "unused"
  BY <1>3, <1>6, <1>7 DEF SoundRow
<1>9. ASSUME m.st # "unused" PROVE m.email \in Addresses
  BY <1>3, <1>6, <1>7, <1>9 DEF SoundRow
<1>10. ASSUME m.st = "unused" PROVE m = Unused
  <2>1. w = Unused /\ b = Unused /\ o = Unused
    BY <1>3, <1>6, <1>10 DEF SoundRow
  <2>2. \A c \in DOMAIN Unused : m[c] = Unused[c]
    BY <1>2, <2>1
  <2> QED  BY <1>1, <1>5, <2>2 DEF AccountRows, Unused
<1> QED  BY <1>1, <1>8, <1>9, <1>10 DEF m, o

\* And so is the row that is left.
LEMMA LeftIsSound ==
    ASSUME AccountsInv, NEW r, SoundRequest(r), NEW a \in AccountIds
    PROVE  /\ LeftRow(r, a) \in AccountRows
           /\ accounts[a].st # "unused" => LeftRow(r, a).st # "unused"
           /\ LeftRow(r, a).st = "unused" => LeftRow(r, a) = Unused
           /\ LeftRow(r, a).st # "unused" => LeftRow(r, a).email \in Addresses
<1> DEFINE m == MergedRow(r, a)
<1>1. CASE m.volunteer_id \in Dropped(r)
  <2>1. LeftRow(r, a) = [m EXCEPT !.volunteer_id = Null]
    BY <1>1 DEF LeftRow
  <2>2. m # Unused
    BY <1>1, UnusedRow DEF Dropped, Unused
  <2>3. m \in AccountRows
    BY MergedIsSound
  <2> HIDE DEF m
  <2>4. /\ LeftRow(r, a) \in AccountRows
        /\ LeftRow(r, a).st = m.st /\ LeftRow(r, a).email = m.email
    BY <2>1, <2>3 DEF AccountRows
  <2> QED  BY <2>2, <2>4, MergedIsSound DEF m
<1>2. CASE m.volunteer_id \notin Dropped(r)
  <2>1. LeftRow(r, a) = m
    BY <1>2 DEF LeftRow
  <2> QED  BY <2>1, MergedIsSound
<1> QED  BY <1>1, <1>2

LEMMA CommitSound ==
    ASSUME AccountsInv, NEW s \in AccountSessions, CommitTables(s)
    PROVE  AccountsInv'
<1> DEFINE r == desk[s]
           rows == LeftRows(r)
<1>1. SoundRequest(r) /\ r \in AccountRequests
  BY DEF AccountsInv, SoundRequest
<1>2. /\ accounts' = rows /\ people' = Persons(r) /\ Allowed(rows, Persons(r))
      /\ mailed' = MailedWith(r.letters) /\ desk' = [desk EXCEPT ![s] = NothingAsked]
      /\ UNCHANGED <<expired, asks>>
  BY Commits
<1>3. \A a \in AccountIds :
        /\ rows[a] = LeftRow(r, a) /\ rows[a] \in AccountRows
        /\ accounts[a].st # "unused" => rows[a].st # "unused"
        /\ rows[a].st = "unused" => rows[a] = Unused
        /\ rows[a].st # "unused" => rows[a].email \in Addresses
  BY <1>1, LeftIsSound DEF LeftRows
<1>4. rows \in [AccountIds -> AccountRows]
  BY <1>3 DEF LeftRows
<1> HIDE DEF rows
<1>5. SoundTable(rows)
  <2>1. ASSUME NEW a \in AccountIds PROVE rows[a].pending = Null <=> rows[a].change = Null
    <3>1. CASE rows[a].st = "unused"
      BY <1>3, <3>1 DEF Unused
    <3>2. CASE rows[a].st # "unused"
      BY <1>2, <3>2 DEF Allowed
    <3> QED  BY <3>1, <3>2
  <2> QED  BY <1>3, <1>4, <2>1 DEF SoundTable, SoundRow
<1>6. Persons(r) \in [PersonIds -> PeopleRows]
  <2>1. /\ people \in [PersonIds -> PeopleRows] /\ r.wasPeople \in [PersonIds -> PeopleRows]
        /\ r.wantPeople \in [PersonIds -> PeopleRows]
    BY <1>1 DEF AccountsInv, AccountsTypeOK, AccountRequests
  <2> HIDE DEF r
  <2>2. \A v \in PersonIds : MergedPerson(r, v) \in PeopleRows
    BY <2>1 DEF MergedPerson, PeopleRows
  <2> QED  BY <2>2 DEF Persons
<1>7. MailedWith(r.letters) \in [LinkIds -> Letters \cup {Null}]
  <2>1. r.letters \in SUBSET (LinkIds \X Letters)
    BY <1>1 DEF AccountRequests
  <2> DEFINE letters == r.letters
  <2> HIDE DEF letters
  <2>2. ASSUME NEW l \in LinkIds, \E x \in letters : x[1] = l
        PROVE  (CHOOSE x \in letters : x[1] = l)[2] \in Letters
    <3>1. (CHOOSE x \in letters : x[1] = l) \in letters
      BY <2>2
    <3> QED  BY <2>1, <3>1 DEF letters
  <2>3. mailed \in [LinkIds -> Letters \cup {Null}]
    BY DEF AccountsInv, AccountsTypeOK
  <2>4. MailedWith(letters) \in [LinkIds -> Letters \cup {Null}]
    BY <2>2, <2>3 DEF MailedWith
  <2> QED  BY <2>4 DEF letters
<1>8. /\ desk' \in [AccountSessions -> AccountRequests]
      /\ \A o \in AccountSessions : desk'[o] = IF o = s THEN NothingAsked ELSE desk[o]
  BY <1>2, NothingIsSound DEF AccountsInv, AccountsTypeOK
<1>9. ASSUME NEW o \in AccountSessions PROVE SoundRequest(desk[o])'
  <2>1. CASE o = s
    <3>1. desk'[o] = NothingAsked
      BY <1>8, <2>1
    <3> QED  BY <3>1, NothingIsSound DEF SoundRequest, NothingAsked
  <2>2. CASE o # s
    <3>1. desk'[o] = desk[o] /\ SoundRequest(desk[o])
      BY <1>8, <2>2 DEF AccountsInv
    <3>2. StaysInUse(desk[o].was, rows)
      BY <1>3, <3>1 DEF SoundRequest, StaysInUse
    <3> QED  BY <1>2, <3>1, <3>2 DEF SoundRequest
  <2> QED  BY <2>1, <2>2
<1>10. AccountsTypeOK'
  BY <1>2, <1>4, <1>6, <1>7, <1>8 DEF AccountsInv, AccountsTypeOK
<1> QED  BY <1>2, <1>5, <1>9, <1>10 DEF AccountsInv

LEMMA GiveUpSound ==
    ASSUME AccountsInv, NEW s \in AccountSessions, GiveUp(s)
    PROVE  AccountsInv'
<1>1. /\ desk' = [desk EXCEPT ![s] = NothingAsked]
      /\ UNCHANGED <<accounts, people, mailed, expired, asks>>
  BY DEF GiveUp
<1>2. /\ desk' \in [AccountSessions -> AccountRequests]
      /\ \A o \in AccountSessions : desk'[o] = IF o = s THEN NothingAsked ELSE desk[o]
  BY <1>1, NothingIsSound DEF AccountsInv, AccountsTypeOK
<1>3. ASSUME NEW o \in AccountSessions PROVE SoundRequest(desk[o])'
  <2>1. CASE o = s
    <3>1. desk'[o] = NothingAsked
      BY <1>2, <2>1
    <3> QED  BY <3>1, NothingIsSound DEF SoundRequest, NothingAsked
  <2>2. CASE o # s
    BY <1>1, <1>2, <2>2 DEF AccountsInv, SoundRequest
  <2> QED  BY <2>1, <2>2
<1>4. AccountsTypeOK'
  BY <1>1, <1>2 DEF AccountsInv, AccountsTypeOK
<1> QED  BY <1>1, <1>3, <1>4 DEF AccountsInv

LEMMA NothingHappens ==
    ASSUME AccountsInv, UNCHANGED <<accounts, people, mailed, desk, asks>>,
           expired' \subseteq LinkIds
    PROVE  AccountsInv'
  BY DEF AccountsInv, AccountsTypeOK, SoundRequest

LEMMA AccountsStart == AccountsInit => AccountsInv
<1> SUFFICES ASSUME AccountsInit PROVE AccountsInv
  OBVIOUS
<1>1. PICK o \in Openings : accounts = o.accounts /\ mailed = o.mailed
  BY DEF AccountsInit
<1>2. accounts \in [AccountIds -> AccountRows] /\ mailed \in [LinkIds -> Letters \cup {Null}]
      /\ SoundTable(accounts)
  BY <1>1, OpeningsAssumption DEF SoundTable
<1>3. people \in [PersonIds -> PeopleRows]
  BY DEF AccountsInit, PeopleRows
<1>4. desk \in [AccountSessions -> AccountRequests]
      /\ \A s \in AccountSessions : desk[s] = NothingAsked
  BY NothingIsSound DEF AccountsInit
<1>5. AccountsTypeOK
  BY <1>2, <1>3, <1>4, AccountsAssumption DEF AccountsInit, AccountsTypeOK
<1>6. ASSUME NEW s \in AccountSessions PROVE SoundRequest(desk[s])
  BY <1>4, NothingIsSound DEF SoundRequest, NothingAsked
<1> QED  BY <1>2, <1>5, <1>6 DEF AccountsInv

\* Every step keeps the invariant.
LEMMA AccountsStep == AccountsInv /\ [AccountsNext]_accountVars => AccountsInv'
<1> SUFFICES ASSUME AccountsInv, [AccountsNext]_accountVars PROVE AccountsInv'
  OBVIOUS
<1>1. CASE UNCHANGED accountVars
  BY <1>1, NothingHappens DEF accountVars, AccountsInv, AccountsTypeOK
<1>2. CASE \E l \in LinkIds : Expire(l)
  <2>1. UNCHANGED <<accounts, people, mailed, desk, asks>> /\ expired' \subseteq LinkIds
    BY <1>2 DEF Expire, AccountsInv, AccountsTypeOK
  <2> QED  BY <2>1, NothingHappens
<1>3. ASSUME NEW s \in AccountSessions,
             \/ \E email \in Addresses, v \in PersonIds \cup {Null} :
                  CreateWithPassword(s, email, v) \/ CreateWithLink(s, email, v)
             \/ \E v \in PersonIds : InviteVolunteer(s, v) \/ InviteAgain(s, v)
             \/ Provision(s)
      PROVE  AccountsInv'
  <2>1. CASE \E v \in PersonIds : InviteAgain(s, v)
    <3>1. Active # {}
      BY <2>1 DEF InviteAgain
    <3>2. PICK a \in AccountIds : TRUE
      BY <3>1 DEF Active
    <3> QED  BY <2>1, LettersSoundly
  <2> QED  BY <1>3, <2>1, CreatesSoundly, InvitesSoundly, ProvisionSoundly
<1>4. ASSUME NEW s \in AccountSessions, NEW a \in AccountIds,
              \/ SetPassword(s, a) \/ ClearPassword(s, a) \/ ReissueInvite(s, a)
              \/ \E password \in BOOLEAN : RedeemInvite(s, a, password)
              \/ \E forApi, stretch \in BOOLEAN : SignIn(s, a, forApi, stretch)
              \/ StartOtp(s, a) \/ VerifyOtp(s, a)
              \/ \E addr \in Addresses : StartEmailChange(s, a, addr)
              \/ CancelEmailChange(s, a) \/ ConfirmEmailChange(s, a)
              \/ SetFlags(s, a)
              \/ \E v \in PersonIds \cup {Null} : SetVolunteer(s, a, v)
      PROVE  AccountsInv'
  BY <1>4, LettersSoundly, KeepsSoundly, StoresSoundly, ConfirmsSoundly
<1>5. ASSUME NEW s \in AccountSessions, NEW v \in PersonIds,
              \/ \E email \in Addresses \cup {Null} : UpdateVolunteer(s, v, email)
              \/ ArchiveVolunteer(s, v) \/ DeleteVolunteer(s, v)
      PROVE  AccountsInv'
  BY <1>5, PeopleSoundly
<1>6. ASSUME NEW s \in AccountSessions, CommitTables(s) \/ GiveUp(s)
      PROVE  AccountsInv'
  BY <1>6, CommitSound, GiveUpSound
<1> QED  BY <1>1, <1>2, <1>3, <1>4, <1>5, <1>6 DEF AccountsNext

\* The invariant holds whatever requests overlap.
THEOREM AccountsInvariance == AccountsSpec => []AccountsInv
  BY AccountsStart, AccountsStep, PTL DEF AccountsSpec

\* Accounts, people, letters and requests in flight have their types.
THEOREM AccountsTypeCorrect == AccountsSpec => []AccountsTypeOK
<1>1. AccountsInv => AccountsTypeOK
  BY DEF AccountsInv
<1> QED  BY <1>1, AccountsInvariance, PTL

-----------------------------------------------------------------------------
(* Requests that do not overlap.                                           *)

\* One session: a request begins when the one before it has ended.
OneAtATime == \A s, t \in AccountSessions : s = t

\* A row's person changes, unless by the hand of an admin who names them, only
\* from nobody to somebody who is at its address.
Joins(was, row) ==
    row.volunteer_id # was.volunteer_id =>
      /\ was.volunteer_id = Null /\ row.volunteer_id # Null
      /\ people[row.volunteer_id].email = row.email

\* One of the active people with an address signs in, or another does with it.
ServedIn(rows, v) ==
    people[v].st = "active" /\ people[v].email # Null =>
      LoginOf(rows, v) # {}
        \/ \E a \in At(rows, people[v].email) : rows[a].volunteer_id \notin {v, Null}

\* What a request wants is in order, of the tables as they are.
Ready(op, want, wantPeople, letters) ==
    /\ NoGaps(MailedWith(letters))
    /\ \A a \in AccountIds : Backed(a, want[a], MailedWith(letters))
    /\ op \notin {"create_for", "set_volunteer"} =>
         \A a \in AccountIds : Joins(accounts[a], want[a])
    /\ op = "volunteers" => want = accounts
    /\ op # "volunteers" => \A v \in PersonIds : wantPeople[v].st = people[v].st
    /\ op = "provision" => \A v \in PersonIds : ServedIn(want, v)

\* The tables are as the request at work has read them.
Prepared(r) ==
    /\ r.was = accounts /\ r.wasPeople = people
    /\ Ready(r.op, r.want, r.wantPeople, r.letters)

SerialInv ==
    /\ AccountsInv
    /\ NoGaps(mailed) /\ CredentialsMatch
    /\ \A s \in AccountSessions : desk[s].op # "idle" => Prepared(desk[s])

LEMMA NothingMailed == mailed \in [LinkIds -> Letters \cup {Null}] => MailedWith({}) = mailed
  BY DEF MailedWith

LEMMA MailedAgain ==
    ASSUME UNCHANGED mailed, NEW letters
    PROVE  MailedWith(letters)' = MailedWith(letters)
  BY DEF MailedWith

LEMMA ReadyStays ==
    ASSUME NEW op, NEW want, NEW wantPeople, NEW letters,
           Ready(op, want, wantPeople, letters), UNCHANGED <<accounts, people, mailed>>
    PROVE  Ready(op, want, wantPeople, letters)'
<1>1. MailedWith(letters)' = MailedWith(letters)
  BY MailedAgain
<1>2. \A was, row : Joins(was, row)' <=> Joins(was, row)
  BY DEF Joins
<1>3. \A v : ServedIn(want, v)' <=> ServedIn(want, v)
  BY DEF ServedIn, LoginOf, At
<1> QED  BY <1>1, <1>2, <1>3 DEF Ready

\* A request that begins in order keeps the invariant.
LEMMA Prepares ==
    ASSUME OneAtATime, SerialInv, NEW s \in AccountSessions, NEW op \in Ops,
           NEW want, NEW wantPeople, NEW letters, NEW rewrites,
           Sound(want, wantPeople, letters, rewrites),
           Ready(op, want, wantPeople, letters),
           BeginTables(s, op, want, wantPeople, letters, rewrites)
    PROVE  SerialInv'
<1> DEFINE r == [op |-> op, was |-> accounts, want |-> want, wasPeople |-> people,
                 wantPeople |-> wantPeople, letters |-> letters, rewrites |-> rewrites]
<1>1. AccountsInv'
  BY TablesBegin DEF SerialInv
<1>2. /\ desk' = [desk EXCEPT ![s] = r]
      /\ UNCHANGED <<accounts, people, mailed, expired>>
  BY DEF BeginTables
<1>3. desk'[s] = r
  BY <1>2 DEF SerialInv, AccountsInv, AccountsTypeOK
<1>4. Ready(op, want, wantPeople, letters)'
  BY <1>2, ReadyStays
<1>5. Prepared(desk[s])'
  BY <1>2, <1>3, <1>4 DEF Prepared
<1>6. (NoGaps(mailed) /\ CredentialsMatch)'
  BY <1>2 DEF SerialInv, CredentialsMatch
<1> QED  BY <1>1, <1>5, <1>6 DEF SerialInv, OneAtATime

-----------------------------------------------------------------------------
(* What a letter more, or none, leaves backed.                             *)

\* The next letter is mailed.
Adds(m, later, l, letter) ==
    /\ l \in LinkIds /\ m[l] = Null /\ letter \in Letters
    /\ \A i \in LinkIds : m[i] = Null => l <= i
    /\ \A i \in LinkIds : later[i] = IF i = l THEN letter ELSE m[i]

LEMMA NextOfAll ==
    ASSUME NEW m, NEW later, NEW l, NEW letter, NoGaps(m), Adds(m, later, l, letter)
    PROVE  /\ NoGaps(later)
           /\ \A i \in LinkIds : later[i] # Null => i <= l
<1>1. l \in Nat /\ \A i \in LinkIds : i \in Nat
  BY AccountsAssumption DEF Adds
<1>2. ASSUME NEW i \in LinkIds, later[i] # Null PROVE i <= l
  <2>1. CASE i = l
    BY <1>1, <2>1
  <2>2. CASE i # l
    <3>1. m[i] # Null
      BY <1>2, <2>2 DEF Adds
    <3>2. ~(l < i)
      BY <3>1 DEF NoGaps, Adds
    <3> QED  BY <1>1, <3>2
  <2> QED  BY <2>1, <2>2
<1>3. ASSUME NEW k \in LinkIds, NEW i \in LinkIds, k < i, later[i] # Null
      PROVE  later[k] # Null
  <2>1. i <= l
    BY <1>2, <1>3
  <2>2. k < l
    BY <1>1, <1>3, <2>1
  <2>3. m[k] # Null
    BY <1>1, <2>2 DEF Adds
  <2>4. k # l
    BY <1>1, <2>2
  <2> QED  BY <2>3, <2>4 DEF Adds
<1> QED  BY <1>2, <1>3 DEF NoGaps

\* A row that takes up nothing is as well backed as it was,
LEMMA BackedStill ==
    ASSUME NEW b, NEW old, NEW row, NEW m, Backed(b, old, m),
           \/ row.change = Null
           \/ row.change = old.change /\ row.pending = old.pending,
           \/ row.otp = Null
           \/ row.otp = old.otp /\ row.email = old.email,
           row.api_token => row.password,
           row.invite = Null \/ row.invite = old.invite
    PROVE  Backed(b, row, m)
  BY DEF Backed

\* and one that takes up the next letter, or leaves it alone.
LEMMA BackedByNext ==
    ASSUME NEW m, NEW later, NEW l, NEW letter, NoGaps(m), Adds(m, later, l, letter),
           NEW b \in AccountIds, NEW old \in AccountRows, SoundRow(old), Backed(b, old, m),
           NEW row,
           \/ row.change = Null
           \/ row.change = old.change /\ row.pending = old.pending
           \/ row.change = l /\ letter = [kind |-> "change", account |-> b, to |-> row.pending],
           \/ row.otp = Null
           \/ row.otp = old.otp /\ row.email = old.email
           \/ row.otp = l /\ letter = [kind |-> "code", account |-> b, to |-> row.email],
           row.api_token => row.password,
           \/ row.invite \in {l, Null}
           \/ row.invite = old.invite /\ (letter.account # b \/ letter.kind # "invite")
    PROVE  Backed(b, row, later)
<1>1. \A i \in LinkIds : m[i] \in Letters => later[i] = m[i]
  BY OpeningsAssumption DEF Adds
<1>2. later[l] = letter
  BY DEF Adds
<1>3. ASSUME old.change # Null PROVE later[old.change] = m[old.change]
  <2>1. old.pending \in Addresses /\ old.change \in LinkIds
    BY <1>3, Columns DEF SoundRow
  <2>2. m[old.change] \in Letters
    BY <1>3, <2>1 DEF Backed, Letters
  <2> QED  BY <1>1, <2>1, <2>2
<1>4. ASSUME old.otp # Null PROVE later[old.otp] = m[old.otp]
  <2>1. old.email \in Addresses /\ old.otp \in LinkIds
    BY <1>4, Columns DEF SoundRow, Unused
  <2>2. m[old.otp] \in Letters
    BY <1>4, <2>1 DEF Backed, Letters
  <2> QED  BY <1>1, <2>1, <2>2
<1>5. row.change # Null =>
        later[row.change] = [kind |-> "change", account |-> b, to |-> row.pending]
  BY <1>2, <1>3 DEF Backed
<1>6. row.otp # Null =>
        later[row.otp] = [kind |-> "code", account |-> b, to |-> row.email]
  BY <1>2, <1>4 DEF Backed
<1>7. ASSUME row.invite # Null, NEW i \in LinkIds, later[i] # Null,
             later[i].account = b, later[i].kind = "invite"
      PROVE  i <= row.invite
  <2>1. CASE row.invite = l
    BY <1>7, <2>1, NextOfAll
  <2>2. CASE row.invite = old.invite /\ (letter.account # b \/ letter.kind # "invite")
    <3>1. i # l
      BY <1>2, <1>7, <2>2
    <3>2. later[i] = m[i]
      BY <3>1 DEF Adds
    <3> QED  BY <1>7, <2>2, <3>2 DEF Backed
  <2> QED  BY <1>7, <2>1, <2>2
<1> QED  BY <1>5, <1>6, <1>7 DEF Backed

-----------------------------------------------------------------------------
(* The requests that change one row begin in order.                        *)

\* What may become of one row by a request.
RowMoves(op, a, row) ==
    op \notin {"create_for", "set_volunteer"} => Joins(accounts[a], row)

LEMMA Columns2 ==
    ASSUME SerialInv, NEW a \in AccountIds
    PROVE  /\ accounts \in [AccountIds -> AccountRows] /\ accounts[a] \in AccountRows
           /\ SoundRow(accounts[a]) /\ Backed(a, accounts[a], mailed)
           /\ mailed \in [LinkIds -> Letters \cup {Null}] /\ NoGaps(mailed)
           /\ AccountsInv
  BY DEF SerialInv, AccountsInv, AccountsTypeOK, SoundTable, CredentialsMatch

LEMMA RowReady ==
    ASSUME SerialInv, NEW op \in Ops \ {"volunteers", "provision"},
           NEW a \in AccountIds, NEW row, RowMoves(op, a, row),
           NEW wantPeople, \A v \in PersonIds : wantPeople[v].st = people[v].st,
           NEW letters, NoGaps(MailedWith(letters)), Backed(a, row, MailedWith(letters)),
           \A b \in AccountIds \ {a} : Backed(b, accounts[b], MailedWith(letters))
    PROVE  Ready(op, [accounts EXCEPT ![a] = row], wantPeople, letters)
<1> DEFINE want == [accounts EXCEPT ![a] = row]
<1>1. \A b \in AccountIds : want[b] = IF b = a THEN row ELSE accounts[b]
  BY Columns2
<1> HIDE DEF want
<1>2. \A b \in AccountIds : Backed(b, want[b], MailedWith(letters))
  BY <1>1
<1>3. ASSUME op \notin {"create_for", "set_volunteer"}, NEW b \in AccountIds
      PROVE  Joins(accounts[b], want[b])
  <2>1. CASE b = a
    BY <1>1, <1>3, <2>1 DEF RowMoves
  <2>2. CASE b # a
    BY <1>1, <2>2 DEF Joins
  <2> QED  BY <2>1, <2>2
<1> QED  BY <1>2, <1>3 DEF Ready, want

\* Without a letter,
LEMMA RowPrepares ==
    ASSUME OneAtATime, SerialInv, NEW s \in AccountSessions,
           NEW op \in Ops \ {"volunteers", "provision"},
           NEW a \in AccountIds, NEW row, GoodRow(a, row), RowMoves(op, a, row),
           Backed(a, row, mailed),
           NEW wantPeople \in [PersonIds -> PeopleRows],
           \A v \in PersonIds : wantPeople[v].st = people[v].st,
           NEW rewrites \in SUBSET (Known \X {"password", "api_token"}),
           BeginTables(s, op, [accounts EXCEPT ![a] = row], wantPeople, {}, rewrites)
    PROVE  SerialInv'
<1>1. AccountsInv /\ MailedWith({}) = mailed /\ NoGaps(mailed)
      /\ \A b \in AccountIds : Backed(b, accounts[b], mailed)
  BY NothingMailed, Columns2
<1>2. Ready(op, [accounts EXCEPT ![a] = row], wantPeople, {})
  BY <1>1, RowReady
<1>3. Sound([accounts EXCEPT ![a] = row], people, {}, rewrites)
  BY <1>1, RowIsSound
<1>4. Sound([accounts EXCEPT ![a] = row], wantPeople, {}, rewrites)
  BY <1>3 DEF Sound
<1> QED  BY <1>2, <1>4, Prepares

LEMMA OnlyRowPrepares ==
    ASSUME OneAtATime, SerialInv, NEW s \in AccountSessions,
           NEW op \in Ops \ {"volunteers", "provision"},
           NEW a \in AccountIds, NEW row, GoodRow(a, row), RowMoves(op, a, row),
           Backed(a, row, mailed), BeginRow(s, op, a, row)
    PROVE  SerialInv'
<1>1. people \in [PersonIds -> PeopleRows]
  BY DEF SerialInv, AccountsInv, AccountsTypeOK
<1>2. {} \in SUBSET (Known \X {"password", "api_token"})
  OBVIOUS
<1> QED  BY <1>1, <1>2, RowPrepares DEF BeginRow

\* and with one.
LEMMA LetterAdds ==
    ASSUME OneAtATime, SerialInv, NEW s \in AccountSessions, FreeLinks(s) # {},
           NEW x \in LinkIds \X Letters, x[1] = Lowest(FreeLinks(s))
    PROVE  Adds(mailed, MailedWith({x}), x[1], x[2])
<1>1. FreeLinks(s) = {i \in LinkIds : mailed[i] = Null}
  BY DEF FreeLinks, OneAtATime
<1>2. FreeLinks(s) \in SUBSET Nat
  BY FreeAreFinite
<1>3. x[1] \in FreeLinks(s) /\ \A i \in FreeLinks(s) : x[1] <= i
  BY <1>2, LowestIsLeast
<1>4. \A l \in LinkIds : MailedWith({x})[l] = IF l = x[1] THEN x[2] ELSE mailed[l]
  BY DEF MailedWith
<1> QED  BY <1>1, <1>3, <1>4 DEF Adds

TakesUp(a, row, l, kind, to) ==
    LET old == accounts[a] IN
    /\ \/ row.change = Null
       \/ row.change = old.change /\ row.pending = old.pending
       \/ row.change = l /\ kind = "change" /\ to = row.pending
    /\ \/ row.otp = Null
       \/ row.otp = old.otp /\ row.email = old.email
       \/ row.otp = l /\ kind = "code" /\ to = row.email
    /\ row.api_token => row.password
    /\ \/ row.invite \in {l, Null}
       \/ row.invite = old.invite /\ kind # "invite"

LEMMA MailedRowPrepares ==
    ASSUME OneAtATime, SerialInv, NEW s \in AccountSessions, FreeLinks(s) # {},
           NEW op \in Ops \ {"volunteers", "provision"},
           NEW a \in AccountIds, NEW row, GoodRow(a, row), RowMoves(op, a, row),
           NEW kind \in {"invite", "code", "change"}, NEW to \in Addresses,
           NEW l, l = Lowest(FreeLinks(s)), TakesUp(a, row, l, kind, to),
           BeginMailed(s, op, a, row, Letter(l, kind, a, to))
    PROVE  SerialInv'
<1> DEFINE x == Letter(l, kind, a, to)
<1>1. l \in LinkIds
  BY FreeLink
<1>2. x \in LinkIds \X Letters
  BY <1>1, LetterIsOne
<1>3. x[1] = l /\ x[2] = [kind |-> kind, account |-> a, to |-> to]
  BY DEF Letter
<1> HIDE DEF x
<1>4. Adds(mailed, MailedWith({x}), l, x[2])
  BY <1>2, <1>3, LetterAdds
<1>5. AccountsInv /\ NoGaps(mailed)
  BY Columns2
<1>6. NoGaps(MailedWith({x}))
  BY <1>4, <1>5, NextOfAll
<1>7. ASSUME NEW b \in AccountIds \ {a} PROVE Backed(b, accounts[b], MailedWith({x}))
  <2>1. /\ accounts[b] \in AccountRows /\ SoundRow(accounts[b])
        /\ Backed(b, accounts[b], mailed)
    BY Columns2
  <2>2. accounts[b].api_token => accounts[b].password
    BY <2>1 DEF Backed
  <2>3. x[2].account # b
    BY <1>3
  <2> QED  BY <1>4, <1>5, <2>1, <2>2, <2>3, BackedByNext
<1>8. Backed(a, row, MailedWith({x}))
  <2>1. /\ accounts[a] \in AccountRows /\ SoundRow(accounts[a])
        /\ Backed(a, accounts[a], mailed)
    BY Columns2
  <2> QED  BY <1>3, <1>4, <1>5, <2>1, BackedByNext DEF TakesUp
<1>9. Ready(op, [accounts EXCEPT ![a] = row], people, {x})
  BY <1>6, <1>7, <1>8, RowReady
<1>10. Sound([accounts EXCEPT ![a] = row], people, {x}, {})
  BY <1>2, <1>5, RowIsSound
<1>11. BeginTables(s, op, [accounts EXCEPT ![a] = row], people, {x}, {})
  BY DEF BeginMailed, x
<1> QED  BY <1>9, <1>10, <1>11, Prepares

LEMMA AdoptedIsAtTheAddress ==
    ASSUME NEW email, Adopted(email) # Null
    PROVE  people[Adopted(email)].email = email
<1> DEFINE holders == {v \in PersonIds : people[v].st = "active" /\ people[v].email = email}
<1>1. Adopted(email) = IF Cardinality(holders) = 1 /\ \A v \in holders : LoginOf(accounts, v) = {}
                       THEN CHOOSE v \in holders : TRUE ELSE Null
  BY DEF Adopted
<1>2. Cardinality(holders) = 1 => holders # {}
  BY FS_EmptySet
<1>3. \A v \in holders : people[v].email = email
  OBVIOUS
<1> HIDE DEF holders
<1>4. holders # {} => (CHOOSE v \in holders : TRUE) \in holders
  OBVIOUS
<1> QED  BY <1>1, <1>2, <1>3, <1>4

\* An account nobody has is nobody's.
LEMMA UnusedIsNobodys ==
    ASSUME SerialInv, NEW s \in AccountSessions, FreeAccounts(s) # {}
    PROVE  LET a == Lowest(FreeAccounts(s))
           IN  a \in AccountIds /\ accounts[a] = Unused /\ accounts[a].volunteer_id = Null
<1>1. /\ Lowest(FreeAccounts(s)) \in AccountIds
      /\ accounts[Lowest(FreeAccounts(s))].st = "unused"
  BY FreeAccount
<1>2. accounts[Lowest(FreeAccounts(s))] = Unused
  BY <1>1, Columns2 DEF SoundRow
<1> QED  BY <1>1, <1>2 DEF Unused

LEMMA CreatesInOrder ==
    ASSUME OneAtATime, SerialInv, NEW s \in AccountSessions, NEW email \in Addresses,
           NEW v \in PersonIds \cup {Null},
           CreateWithPassword(s, email, v) \/ CreateWithLink(s, email, v)
    PROVE  SerialInv'
<1> DEFINE who == IF v = Null THEN Adopted(email) ELSE v
           a == Lowest(FreeAccounts(s))
           l == Lowest(FreeLinks(s))
<1>1. who \in PersonIds \cup {Null}
  BY AdoptedIsSomebody
<1>2. CreateOp(v) \in Ops \ {"volunteers", "provision"}
  BY DEF CreateOp, Ops
<1>3. a \in AccountIds /\ accounts[a].volunteer_id = Null
  BY UnusedIsNobodys DEF CreateWithPassword, CreateWithLink
<1>4. ASSUME NEW row, row.volunteer_id = who, row.email = email
      PROVE  RowMoves(CreateOp(v), a, row)
  BY <1>3, <1>4, AdoptedIsAtTheAddress DEF RowMoves, Joins, CreateOp
<1>5. CASE CreateWithPassword(s, email, v)
  <2> DEFINE row == [NewRow(email, who) EXCEPT !.password = TRUE]
  <2>1. BeginRow(s, CreateOp(v), a, row)
    BY <1>5 DEF CreateWithPassword
  <2>2. GoodRow(a, row)
    BY <1>1, <1>3, NewRowIsGood
  <2> HIDE DEF who, a
  <2>3. /\ row.change = Null /\ row.otp = Null /\ ~row.api_token
        /\ row.invite = Null /\ row.volunteer_id = who /\ row.email = email
    BY DEF NewRow, Unused
  <2> HIDE DEF row
  <2>4. Backed(a, row, mailed)
    BY <2>3 DEF Backed
  <2> QED  BY <1>2, <1>3, <1>4, <2>1, <2>2, <2>3, <2>4, OnlyRowPrepares
<1>6. CASE CreateWithLink(s, email, v)
  <2> DEFINE row == [NewRow(email, who) EXCEPT !.invite = l]
  <2>1. FreeLinks(s) # {} /\ BeginMailed(s, CreateOp(v), a, row, Letter(l, "invite", a, email))
    BY <1>6 DEF CreateWithLink
  <2>2. GoodRow(a, row)
    BY <1>1, <1>3, <2>1, FreeLink, NewRowIsGood
  <2>l. l = Lowest(FreeLinks(s))
    OBVIOUS
  <2> HIDE DEF who, a, l
  <2>3. /\ row.change = Null /\ row.otp = Null /\ ~row.api_token
        /\ row.invite = l /\ row.volunteer_id = who /\ row.email = email
    BY DEF NewRow, Unused
  <2> HIDE DEF row
  <2>4. TakesUp(a, row, l, "invite", email)
    BY <2>3 DEF TakesUp
  <2>5. RowMoves(CreateOp(v), a, row)
    BY <1>4, <2>3
  <2> QED  BY <1>2, <1>3, <2>1, <2>2, <2>4, <2>5, <2>l, MailedRowPrepares
<1> QED  BY <1>5, <1>6

LEMMA InvitesInOrder ==
    ASSUME OneAtATime, SerialInv, NEW s \in AccountSessions, NEW v \in PersonIds,
           InviteVolunteer(s, v)
    PROVE  SerialInv'
<1> DEFINE email == people[v].email
           a == Lowest(FreeAccounts(s))
           l == Lowest(FreeLinks(s))
           row == [NewRow(email, v) EXCEPT !.invite = l]
<1>1. a \in AccountIds /\ accounts[a].volunteer_id = Null /\ l \in LinkIds
  BY UnusedIsNobodys, FreeLink DEF InviteVolunteer
<1>2. email \in Addresses
  BY DEF InviteVolunteer, SerialInv, AccountsInv, AccountsTypeOK, PeopleRows
<1>3. FreeLinks(s) # {} /\ BeginMailed(s, "invite", a, row, Letter(l, "invite", a, email))
  BY DEF InviteVolunteer
<1>4. GoodRow(a, row)
  BY <1>1, <1>2, NewRowIsGood
<1>l. l = Lowest(FreeLinks(s))
  OBVIOUS
<1> HIDE DEF a, l, email
<1>5. /\ row.change = Null /\ row.otp = Null /\ ~row.api_token
      /\ row.invite = l /\ row.volunteer_id = v /\ row.email = email
  BY DEF NewRow, Unused
<1> HIDE DEF row
<1>6. v # Null
  BY AccountsAssumption
<1>7. RowMoves("invite", a, row)
  BY <1>1, <1>5, <1>6 DEF RowMoves, Joins, email
<1>8. "invite" \in Ops \ {"volunteers", "provision"}
  BY DEF Ops
<1>9. TakesUp(a, row, l, "invite", email)
  BY <1>5 DEF TakesUp
<1> QED  BY <1>1, <1>2, <1>3, <1>4, <1>7, <1>8, <1>9, <1>l, MailedRowPrepares

\* The changes of a row that mail a letter,
LEMMA MailsInOrder ==
    ASSUME OneAtATime, SerialInv, NEW s \in AccountSessions, FreeLinks(s) # {},
           NEW op \in Ops \ {"volunteers", "provision"}, NEW a \in Known,
           NEW row \in AccountRows, row.st = accounts[a].st, row.email = accounts[a].email,
           row.volunteer_id = accounts[a].volunteer_id,
           row.pending = Null <=> row.change = Null,
           NEW kind \in {"invite", "code", "change"}, NEW to \in Addresses,
           NEW l, l = Lowest(FreeLinks(s)), TakesUp(a, row, l, kind, to),
           BeginMailed(s, op, a, row, Letter(l, kind, a, to))
    PROVE  SerialInv'
<1>1. a \in AccountIds /\ GoodRow(a, row)
  BY GoodChanges DEF SerialInv
<1>2. RowMoves(op, a, row)
  BY DEF RowMoves, Joins
<1> QED  BY <1>1, <1>2, MailedRowPrepares

LEMMA LettersInOrder ==
    ASSUME OneAtATime, SerialInv, NEW s \in AccountSessions, NEW a \in AccountIds,
           \/ \E v \in PersonIds : InviteAgain(s, v)
           \/ ReissueInvite(s, a) \/ StartOtp(s, a)
           \/ \E addr \in Addresses : StartEmailChange(s, a, addr)
    PROVE  SerialInv'
<1> DEFINE l == Lowest(FreeLinks(s))
<1>l. l = Lowest(FreeLinks(s))
  OBVIOUS
<1>0. Active \subseteq Known
  BY DEF Active, Known
<1>a. \A b \in Known : /\ accounts[b] \in AccountRows /\ accounts[b].email \in Addresses
                       /\ accounts[b].pending = Null <=> accounts[b].change = Null
                       /\ accounts[b].api_token => accounts[b].password
  BY Columns2, GoodChanges DEF Backed
<1>1. CASE \E v \in PersonIds : InviteAgain(s, v)
  <2>1. PICK v \in PersonIds, b \in Active :
           /\ FreeLinks(s) # {}
           /\ BeginMailed(s, "invite", b, [accounts[b] EXCEPT !.invite = l],
                          Letter(l, "invite", b, accounts[b].email))
    BY <1>1 DEF InviteAgain
  <2> DEFINE row == [accounts[b] EXCEPT !.invite = l]
  <2>2. b \in Known /\ l \in LinkIds /\ "invite" \in Ops \ {"volunteers", "provision"}
    BY <1>0, <2>1, FreeLink DEF Ops
  <2>3. /\ row \in AccountRows /\ row.st = accounts[b].st /\ row.email = accounts[b].email
        /\ row.pending = accounts[b].pending /\ row.change = accounts[b].change
        /\ row.otp = accounts[b].otp /\ row.volunteer_id = accounts[b].volunteer_id
        /\ row.api_token = accounts[b].api_token /\ row.password = accounts[b].password
        /\ row.invite = l
    BY <1>a, <2>2 DEF AccountRows
  <2> HIDE DEF row
  <2>4. TakesUp(b, row, l, "invite", accounts[b].email)
    BY <1>a, <2>1, <2>2, <2>3 DEF TakesUp
  <2>5. BeginMailed(s, "invite", b, row, Letter(l, "invite", b, accounts[b].email))
    BY <2>1 DEF row
  <2> HIDE DEF l
  <2> QED  BY <1>a, <2>1, <2>2, <2>3, <2>4, <2>5, <1>l, MailsInOrder
<1>2. CASE ReissueInvite(s, a)
  <2> DEFINE row == [accounts[a] EXCEPT !.invite = l, !.password = FALSE,
                                         !.api_token = FALSE]
  <2>1. /\ a \in Known /\ FreeLinks(s) # {} /\ l \in LinkIds
        /\ "invite" \in Ops \ {"volunteers", "provision"}
    BY <1>2, FreeLink DEF ReissueInvite, Ops
  <2>2. BeginMailed(s, "invite", a, row, Letter(l, "invite", a, accounts[a].email))
    BY <1>2 DEF ReissueInvite
  <2>3. /\ row \in AccountRows /\ row.st = accounts[a].st /\ row.email = accounts[a].email
        /\ row.pending = accounts[a].pending /\ row.change = accounts[a].change
        /\ row.otp = accounts[a].otp /\ row.volunteer_id = accounts[a].volunteer_id
        /\ ~row.api_token /\ row.invite = l
    BY <1>a, <2>1 DEF AccountRows
  <2> HIDE DEF row
  <2>4. TakesUp(a, row, l, "invite", accounts[a].email)
    BY <1>a, <2>1, <2>2, <2>3 DEF TakesUp
  <2> HIDE DEF l
  <2> QED  BY <1>a, <2>1, <2>2, <2>3, <2>4, <1>l, MailsInOrder
<1>3. CASE StartOtp(s, a)
  <2> DEFINE row == [accounts[a] EXCEPT !.otp = l]
  <2>1. /\ a \in Known /\ FreeLinks(s) # {} /\ l \in LinkIds
        /\ "start_otp" \in Ops \ {"volunteers", "provision"}
    BY <1>0, <1>3, FreeLink DEF StartOtp, Ops
  <2>2. BeginMailed(s, "start_otp", a, row, Letter(l, "code", a, accounts[a].email))
    BY <1>3 DEF StartOtp
  <2>3. /\ row \in AccountRows /\ row.st = accounts[a].st /\ row.email = accounts[a].email
        /\ row.pending = accounts[a].pending /\ row.change = accounts[a].change
        /\ row.otp = l /\ row.volunteer_id = accounts[a].volunteer_id
        /\ row.api_token = accounts[a].api_token /\ row.password = accounts[a].password
        /\ row.invite = accounts[a].invite
    BY <1>a, <2>1 DEF AccountRows
  <2> HIDE DEF row
  <2>4. TakesUp(a, row, l, "code", accounts[a].email)
    BY <1>a, <2>1, <2>2, <2>3 DEF TakesUp
  <2> HIDE DEF l
  <2> QED  BY <1>a, <2>1, <2>2, <2>3, <2>4, <1>l, MailsInOrder
<1>4. CASE \E addr \in Addresses : StartEmailChange(s, a, addr)
  <2>0. PICK addr \in Addresses : StartEmailChange(s, a, addr)
    BY <1>4
  <2> DEFINE row == [accounts[a] EXCEPT !.pending = addr, !.change = l]
  <2>1. /\ a \in Known /\ FreeLinks(s) # {} /\ l \in LinkIds
        /\ "change_email" \in Ops \ {"volunteers", "provision"}
    BY <1>0, <2>0, FreeLink DEF StartEmailChange, Ops
  <2>2. BeginMailed(s, "change_email", a, row, Letter(l, "change", a, addr))
    BY <2>0 DEF StartEmailChange
  <2>3. /\ row \in AccountRows /\ row.st = accounts[a].st /\ row.email = accounts[a].email
        /\ row.pending = addr /\ row.change = l /\ addr # Null /\ l # Null
        /\ row.otp = accounts[a].otp /\ row.volunteer_id = accounts[a].volunteer_id
        /\ row.api_token = accounts[a].api_token /\ row.password = accounts[a].password
        /\ row.invite = accounts[a].invite
    BY <1>a, <2>1, AccountsAssumption DEF AccountRows
  <2> HIDE DEF row
  <2>4. TakesUp(a, row, l, "change", addr)
    BY <1>a, <2>1, <2>2, <2>3 DEF TakesUp
  <2> HIDE DEF l
  <2> QED  BY <1>a, <2>1, <2>2, <2>3, <2>4, <1>l, MailsInOrder
<1> QED  BY <1>1, <1>2, <1>3, <1>4

\* Those that mail none: what the row was entered by, it still is by, or no more.
TakesUpNothing(old, row) ==
    /\ \/ row.change = Null
       \/ row.change = old.change /\ row.pending = old.pending
    /\ \/ row.otp = Null
       \/ row.otp = old.otp /\ row.email = old.email
    /\ row.api_token => row.password
    /\ row.invite = Null \/ row.invite = old.invite

LEMMA ChangesInOrder ==
    ASSUME OneAtATime, SerialInv, NEW s \in AccountSessions,
           NEW op \in Ops \ {"volunteers", "provision"}, NEW a \in Known,
           NEW row \in AccountRows, row.st # "unused", row.email \in Addresses,
           row.pending = Null <=> row.change = Null,
           op = "set_volunteer" \/ row.volunteer_id = accounts[a].volunteer_id,
           TakesUpNothing(accounts[a], row),
           NEW wantPeople \in [PersonIds -> PeopleRows],
           \A v \in PersonIds : wantPeople[v].st = people[v].st,
           NEW rewrites \in SUBSET (Known \X {"password", "api_token"}),
           BeginTables(s, op, [accounts EXCEPT ![a] = row], wantPeople, {}, rewrites)
    PROVE  SerialInv'
<1>1. a \in AccountIds /\ GoodRow(a, row)
  BY GoodChanges DEF SerialInv
<1>2. RowMoves(op, a, row)
  BY DEF RowMoves, Joins
<1>3. Backed(a, row, mailed)
  <2>1. Backed(a, accounts[a], mailed)
    BY <1>1, Columns2
  <2> QED  BY <2>1, BackedStill DEF TakesUpNothing
<1> QED  BY <1>1, <1>2, <1>3, RowPrepares

LEMMA OneChangeInOrder ==
    ASSUME OneAtATime, SerialInv, NEW s \in AccountSessions,
           NEW op \in Ops \ {"volunteers", "provision"}, NEW a \in Known,
           NEW row \in AccountRows, row.st # "unused", row.email \in Addresses,
           row.pending = Null <=> row.change = Null,
           op = "set_volunteer" \/ row.volunteer_id = accounts[a].volunteer_id,
           TakesUpNothing(accounts[a], row), BeginRow(s, op, a, row)
    PROVE  SerialInv'
<1>1. /\ people \in [PersonIds -> PeopleRows]
      /\ {} \in SUBSET (Known \X {"password", "api_token"})
  BY DEF SerialInv, AccountsInv, AccountsTypeOK
<1>2. BeginTables(s, op, [accounts EXCEPT ![a] = row], people, {}, {})
  BY DEF BeginRow
<1> QED  BY <1>1, <1>2, ChangesInOrder

LEMMA KnownRow ==
    ASSUME SerialInv, NEW a \in Known
    PROVE  /\ accounts \in [AccountIds -> AccountRows] /\ a \in AccountIds
           /\ accounts[a] \in AccountRows
           /\ accounts[a].st # "unused" /\ accounts[a].email \in Addresses
           /\ accounts[a].pending = Null <=> accounts[a].change = Null
           /\ accounts[a].api_token => accounts[a].password
<1>1. a \in AccountIds /\ AccountsInv
  BY GoodChanges DEF SerialInv
<1>2. Backed(a, accounts[a], mailed) /\ accounts \in [AccountIds -> AccountRows]
  BY <1>1, Columns2
<1>3. accounts[a].api_token => accounts[a].password
  BY <1>2 DEF Backed
<1> QED  BY <1>1, <1>2, <1>3, GoodChanges

LEMMA KeepsInOrder ==
    ASSUME OneAtATime, SerialInv, NEW s \in AccountSessions, NEW a \in AccountIds,
           \/ ClearPassword(s, a) \/ VerifyOtp(s, a) \/ CancelEmailChange(s, a)
           \/ SetFlags(s, a) \/ \E v \in PersonIds \cup {Null} : SetVolunteer(s, a, v)
    PROVE  SerialInv'
<1> DEFINE old == accounts[a]
<1>1. a \in Known
  BY DEF ClearPassword, VerifyOtp, CancelEmailChange, SetFlags, SetVolunteer, Active, Known
<1>2. /\ old \in AccountRows /\ old.st # "unused" /\ old.email \in Addresses
      /\ old.pending = Null <=> old.change = Null
      /\ old.api_token => old.password
  BY <1>1, KnownRow
<1> HIDE DEF old
<1>3. CASE ClearPassword(s, a)
  <2> DEFINE row == [old EXCEPT !.password = FALSE, !.api_token = FALSE]
  <2>1. BeginRow(s, "clear_password", a, row)
    BY <1>3 DEF ClearPassword, old
  <2>2. /\ row \in AccountRows /\ row.st = old.st /\ row.email = old.email
        /\ row.pending = old.pending /\ row.change = old.change /\ row.otp = old.otp
        /\ row.volunteer_id = old.volunteer_id /\ row.invite = old.invite
        /\ ~row.api_token
    BY <1>2 DEF AccountRows
  <2> HIDE DEF row
  <2>3. TakesUpNothing(old, row)
    BY <2>2 DEF TakesUpNothing
  <2> QED  BY <1>1, <1>2, <2>1, <2>2, <2>3, OneChangeInOrder DEF Ops, old
<1>4. CASE VerifyOtp(s, a)
  <2> DEFINE row == [old EXCEPT !.otp = Null, !.invite = Null, !.seen = TRUE]
  <2>1. BeginRow(s, "verify_otp", a, row)
    BY <1>4 DEF VerifyOtp, old
  <2>2. /\ row \in AccountRows /\ row.st = old.st /\ row.email = old.email
        /\ row.pending = old.pending /\ row.change = old.change /\ row.otp = Null
        /\ row.volunteer_id = old.volunteer_id /\ row.invite = Null
        /\ row.api_token = old.api_token /\ row.password = old.password
    BY <1>2 DEF AccountRows
  <2> HIDE DEF row
  <2>3. TakesUpNothing(old, row)
    BY <1>2, <2>2 DEF TakesUpNothing
  <2> QED  BY <1>1, <1>2, <2>1, <2>2, <2>3, OneChangeInOrder DEF Ops, old
<1>5. CASE CancelEmailChange(s, a)
  <2> DEFINE row == NoChange(old)
  <2>1. BeginRow(s, "change_email", a, row)
    BY <1>5 DEF CancelEmailChange, old
  <2>2. /\ row \in AccountRows /\ row.st = old.st /\ row.email = old.email
        /\ row.pending = Null /\ row.change = Null /\ row.otp = old.otp
        /\ row.volunteer_id = old.volunteer_id /\ row.invite = old.invite
        /\ row.api_token = old.api_token /\ row.password = old.password
    BY <1>2 DEF AccountRows, NoChange
  <2> HIDE DEF row
  <2>3. TakesUpNothing(old, row)
    BY <1>2, <2>2 DEF TakesUpNothing
  <2> QED  BY <1>1, <1>2, <2>1, <2>2, <2>3, OneChangeInOrder DEF Ops, old
<1>6. CASE SetFlags(s, a)
  <2>0. PICK st \in {"active", "off"} : BeginRow(s, "set_flags", a, [old EXCEPT !.st = st])
    BY <1>6 DEF SetFlags, old
  <2> DEFINE row == [old EXCEPT !.st = st]
  <2>1. BeginRow(s, "set_flags", a, row)
    BY <2>0
  <2>2. /\ row \in AccountRows /\ row.st = st /\ row.email = old.email
        /\ row.pending = old.pending /\ row.change = old.change /\ row.otp = old.otp
        /\ row.volunteer_id = old.volunteer_id /\ row.invite = old.invite
        /\ row.api_token = old.api_token /\ row.password = old.password
    BY <1>2 DEF AccountRows
  <2> HIDE DEF row
  <2>3. TakesUpNothing(old, row)
    BY <1>2, <2>2 DEF TakesUpNothing
  <2> QED  BY <1>1, <1>2, <2>1, <2>2, <2>3, OneChangeInOrder DEF Ops, old
<1>7. CASE \E v \in PersonIds \cup {Null} : SetVolunteer(s, a, v)
  <2>0. PICK v \in PersonIds \cup {Null} :
           BeginRow(s, "set_volunteer", a, [old EXCEPT !.volunteer_id = v])
    BY <1>7 DEF SetVolunteer, old
  <2> DEFINE row == [old EXCEPT !.volunteer_id = v]
  <2>1. BeginRow(s, "set_volunteer", a, row)
    BY <2>0
  <2>2. /\ row \in AccountRows /\ row.st = old.st /\ row.email = old.email
        /\ row.pending = old.pending /\ row.change = old.change /\ row.otp = old.otp
        /\ row.invite = old.invite
        /\ row.api_token = old.api_token /\ row.password = old.password
    BY <1>2 DEF AccountRows
  <2> HIDE DEF row
  <2>3. TakesUpNothing(old, row)
    BY <1>2, <2>2 DEF TakesUpNothing
  <2> QED  BY <1>1, <1>2, <2>1, <2>2, <2>3, OneChangeInOrder DEF Ops, old
<1> QED  BY <1>3, <1>4, <1>5, <1>6, <1>7

\* Those that store something anew,
LEMMA StoresInOrder ==
    ASSUME OneAtATime, SerialInv, NEW s \in AccountSessions, NEW a \in AccountIds,
           \/ SetPassword(s, a)
           \/ \E password \in BOOLEAN : RedeemInvite(s, a, password)
           \/ \E forApi, stretch \in BOOLEAN : SignIn(s, a, forApi, stretch)
    PROVE  SerialInv'
<1> DEFINE old == accounts[a]
<1>1. a \in Known
  BY DEF SetPassword, RedeemInvite, SignIn, Active, Known
<1>2. /\ accounts \in [AccountIds -> AccountRows]
      /\ old \in AccountRows /\ old.st # "unused" /\ old.email \in Addresses
      /\ old.pending = Null <=> old.change = Null
      /\ old.api_token => old.password
  BY <1>1, KnownRow
<1>3. /\ people \in [PersonIds -> PeopleRows]
      /\ \A v \in PersonIds : people[v].st = people[v].st
  BY DEF SerialInv, AccountsInv, AccountsTypeOK
<1>4. CASE SetPassword(s, a)
  <2> DEFINE row == [old EXCEPT !.password = TRUE, !.invite = Null]
             anew == {<<a, "password">>}
  <2>1. /\ row \in AccountRows /\ row.st = old.st /\ row.email = old.email
        /\ row.pending = old.pending /\ row.change = old.change /\ row.otp = old.otp
        /\ row.volunteer_id = old.volunteer_id /\ row.invite = Null
        /\ row.password
    BY <1>2 DEF AccountRows
  <2>2. [accounts EXCEPT ![a].password = TRUE, ![a].invite = Null]
          = [accounts EXCEPT ![a] = row]
    BY <1>2
  <2>3. BeginTables(s, "set_password", [accounts EXCEPT ![a] = row], people, {}, anew)
    BY <1>4, <2>2 DEF SetPassword
  <2>4. anew \in SUBSET (Known \X {"password", "api_token"})
    BY <1>1
  <2> HIDE DEF row, anew, old
  <2>5. TakesUpNothing(old, row)
    BY <2>1 DEF TakesUpNothing
  <2> QED  BY <1>1, <1>2, <1>3, <2>1, <2>3, <2>4, <2>5, ChangesInOrder DEF Ops, old
<1>5. CASE \E password \in BOOLEAN : RedeemInvite(s, a, password)
  <2>0. PICK password \in BOOLEAN : RedeemInvite(s, a, password)
    BY <1>5
  <2> DEFINE row == [old EXCEPT !.invite = Null, !.password = @ \/ password]
             anew == IF password THEN {<<a, "password">>} ELSE {}
  <2>1. /\ row \in AccountRows /\ row.st = old.st /\ row.email = old.email
        /\ row.pending = old.pending /\ row.change = old.change /\ row.otp = old.otp
        /\ row.volunteer_id = old.volunteer_id /\ row.invite = Null
        /\ row.api_token => row.password
    BY <1>2 DEF AccountRows
  <2>2. [accounts EXCEPT ![a].invite = Null, ![a].password = @ \/ password]
          = [accounts EXCEPT ![a] = row]
    BY <1>2
  <2>3. BeginTables(s, "redeem", [accounts EXCEPT ![a] = row], people, {}, anew)
    BY <2>0, <2>2 DEF RedeemInvite
  <2>4. anew \in SUBSET (Known \X {"password", "api_token"})
    BY <1>1
  <2> HIDE DEF row, anew, old
  <2>5. TakesUpNothing(old, row)
    BY <2>1 DEF TakesUpNothing
  <2> QED  BY <1>1, <1>2, <1>3, <2>1, <2>3, <2>4, <2>5, ChangesInOrder DEF Ops, old
<1>6. CASE \E forApi, stretch \in BOOLEAN : SignIn(s, a, forApi, stretch)
  <2>0. PICK forApi \in BOOLEAN, stretch \in BOOLEAN : SignIn(s, a, forApi, stretch)
    BY <1>6
  <2> DEFINE row == [old EXCEPT !.seen = TRUE, !.api_token = @ \/ forApi]
             anew == (IF stretch THEN {<<a, "password">>} ELSE {})
                       \cup (IF forApi THEN {<<a, "api_token">>} ELSE {})
  <2>p. old.password
    BY <2>0 DEF SignIn
  <2>1. /\ row \in AccountRows /\ row.st = old.st /\ row.email = old.email
        /\ row.pending = old.pending /\ row.change = old.change /\ row.otp = old.otp
        /\ row.volunteer_id = old.volunteer_id /\ row.invite = old.invite
        /\ row.password
    BY <1>2, <2>p DEF AccountRows
  <2>2. [accounts EXCEPT ![a].seen = TRUE, ![a].api_token = @ \/ forApi]
          = [accounts EXCEPT ![a] = row]
    BY <1>2
  <2>3. BeginTables(s, "sign_in", [accounts EXCEPT ![a] = row], people, {}, anew)
    BY <2>0, <2>2 DEF SignIn
  <2>4. anew \in SUBSET (Known \X {"password", "api_token"})
    BY <1>1
  <2> HIDE DEF row, anew, old
  <2>5. TakesUpNothing(old, row)
    BY <2>1 DEF TakesUpNothing
  <2> QED  BY <1>1, <1>2, <1>3, <2>1, <2>3, <2>4, <2>5, ChangesInOrder DEF Ops, old
<1> QED  BY <1>4, <1>5, <1>6

\* or move an address, on a person too,
LEMMA ConfirmsInOrder ==
    ASSUME OneAtATime, SerialInv, NEW s \in AccountSessions, NEW a \in AccountIds,
           ConfirmEmailChange(s, a)
    PROVE  SerialInv'
<1> DEFINE old == accounts[a]
           addr == old.pending
           v == old.volunteer_id
           kept == NoChange(old)
           moved == [NoChange(old) EXCEPT !.email = addr, !.otp = Null]
           persons == IF v = Null THEN people ELSE [people EXCEPT ![v].email = addr]
<1>1. a \in Known /\ old.change # Null
  BY AccountsAssumption DEF ConfirmEmailChange, Active, Known
<1>2. /\ old \in AccountRows /\ old.st # "unused" /\ old.email \in Addresses
      /\ old.pending = Null <=> old.change = Null
      /\ old.api_token => old.password
      /\ people \in [PersonIds -> PeopleRows]
  BY <1>1, KnownRow DEF SerialInv, AccountsInv, AccountsTypeOK
<1>3. addr \in Addresses /\ v \in PersonIds \cup {Null}
  BY <1>1, <1>2, Columns
<1>4. /\ kept \in AccountRows /\ kept.st = old.st /\ kept.email = old.email
      /\ kept.pending = Null /\ kept.change = Null /\ kept.otp = old.otp
      /\ kept.volunteer_id = old.volunteer_id /\ kept.invite = old.invite
      /\ kept.api_token = old.api_token /\ kept.password = old.password
  BY <1>2 DEF NoChange, AccountRows
<1>5. /\ moved \in AccountRows /\ moved.st = old.st /\ moved.email = addr
      /\ moved.pending = Null /\ moved.change = Null /\ moved.otp = Null
      /\ moved.volunteer_id = old.volunteer_id /\ moved.invite = old.invite
      /\ moved.api_token = old.api_token /\ moved.password = old.password
  BY <1>3, <1>4 DEF AccountRows
<1>6. \/ BeginRow(s, "change_email", a, kept)
      \/ BeginTables(s, "change_email", [accounts EXCEPT ![a] = moved], persons, {}, {})
  BY Zenon DEF ConfirmEmailChange
<1>7. CASE BeginRow(s, "change_email", a, kept)
  <2> HIDE DEF kept, old
  <2>1. TakesUpNothing(old, kept)
    BY <1>2, <1>4 DEF TakesUpNothing
  <2> QED  BY <1>1, <1>2, <1>4, <1>7, <2>1, OneChangeInOrder DEF Ops, old
<1>8. CASE BeginTables(s, "change_email", [accounts EXCEPT ![a] = moved], persons, {}, {})
  <2>1. /\ persons \in [PersonIds -> PeopleRows]
        /\ \A u \in PersonIds : persons[u].st = people[u].st
    <3> HIDE DEF addr, v
    <3> QED  BY <1>2, <1>3 DEF PeopleRows
  <2>2. {} \in SUBSET (Known \X {"password", "api_token"})
    OBVIOUS
  <2> HIDE DEF moved, persons, addr, old
  <2>3. TakesUpNothing(old, moved)
    BY <1>2, <1>5 DEF TakesUpNothing
  <2> QED  BY <1>1, <1>2, <1>3, <1>5, <1>8, <2>1, <2>2, <2>3, ChangesInOrder DEF Ops, old
<1> QED  BY <1>6, <1>7, <1>8

\* and those that change only a person.
LEMMA PeopleInOrder ==
    ASSUME OneAtATime, SerialInv, NEW s \in AccountSessions, NEW v \in PersonIds,
           \/ \E email \in Addresses \cup {Null} : UpdateVolunteer(s, v, email)
           \/ ArchiveVolunteer(s, v) \/ DeleteVolunteer(s, v)
    PROVE  SerialInv'
<1>1. people \in [PersonIds -> PeopleRows]
  BY DEF SerialInv, AccountsInv, AccountsTypeOK
<1>2. PICK persons \in [PersonIds -> PeopleRows] : BeginPeople(s, persons)
  <2>1. ASSUME NEW email \in Addresses \cup {Null}
        PROVE  [people EXCEPT ![v].email = email] \in [PersonIds -> PeopleRows]
    BY <1>1 DEF PeopleRows
  <2>2. ASSUME NEW st \in {"active", "archived"}
        PROVE  [people EXCEPT ![v].st = st] \in [PersonIds -> PeopleRows]
    BY <1>1 DEF PeopleRows
  <2>3. [people EXCEPT ![v] = [st |-> "gone", email |-> Null]] \in [PersonIds -> PeopleRows]
    BY <1>1 DEF PeopleRows
  <2> QED  BY <2>1, <2>2, <2>3 DEF UpdateVolunteer, ArchiveVolunteer, DeleteVolunteer
<1>3. BeginTables(s, "volunteers", accounts, persons, {}, {})
  BY <1>2 DEF BeginPeople
<1>4. /\ MailedWith({}) = mailed /\ NoGaps(mailed) /\ AccountsInv
      /\ \A a \in AccountIds : Backed(a, accounts[a], mailed)
  BY NothingMailed DEF SerialInv, AccountsInv, AccountsTypeOK, CredentialsMatch
<1>5. Ready("volunteers", accounts, persons, {})
  BY <1>4 DEF Ready, Joins
<1>6. Sound(accounts, persons, {}, {})
  BY <1>4 DEF Sound, AccountsInv, StaysInUse
<1> QED  BY <1>3, <1>5, <1>6, Prepares DEF Ops

-----------------------------------------------------------------------------
(* Provisioning begins in order.                                           *)

\* What the first n people leave to mail and to write.
InOrder(n, tables) ==
    /\ \A x, y \in tables.letters : x[1] = y[1] => x = y
    /\ NoGaps(MailedWith(tables.letters))
    /\ \A a \in AccountIds : Backed(a, tables.rows[a], MailedWith(tables.letters))
    /\ \A a \in AccountIds : Joins(accounts[a], tables.rows[a])
    /\ \A v \in 1..n : ServedIn(tables.rows, v)

\* One letter more.
LEMMA OneLetterMore ==
    ASSUME OneAtATime, mailed \in [LinkIds -> Letters \cup {Null}], NEW s \in AccountSessions,
           NEW letters \in SUBSET (LinkIds \X Letters),
           \A x, y \in letters : x[1] = y[1] => x = y,
           NEW z \in LinkIds \X Letters, z[1] \in FreeLinks(s),
           \A y \in letters : y[1] # z[1],
           \A i \in FreeLinks(s) : (\A y \in letters : y[1] # i) => z[1] <= i
    PROVE  /\ Adds(MailedWith(letters), MailedWith(letters \cup {z}), z[1], z[2])
           /\ \A x, y \in letters \cup {z} : x[1] = y[1] => x = y
<1> DEFINE m == MailedWith(letters)
           later == MailedWith(letters \cup {z})
<1>1. FreeLinks(s) = {i \in LinkIds : mailed[i] = Null}
  BY DEF FreeLinks, OneAtATime
<1>2. z[1] \in LinkIds /\ z[2] \in Letters /\ Null \notin Letters
  BY OpeningsAssumption
<1>3. \A x, y \in letters \cup {z} : x[1] = y[1] => x = y
  OBVIOUS
<1>4. ASSUME NEW x \in letters PROVE m[x[1]] = x[2] /\ later[x[1]] = x[2] /\ x[2] \in Letters
  <2>1. x[1] \in LinkIds /\ x[2] \in Letters
    OBVIOUS
  <2>2. (CHOOSE y \in letters : y[1] = x[1]) = x
    OBVIOUS
  <2>3. (CHOOSE y \in letters \cup {z} : y[1] = x[1]) = x
    BY <1>3
  <2> QED  BY <2>1, <2>2, <2>3 DEF MailedWith
<1>5. later[z[1]] = z[2]
  <2>1. (CHOOSE y \in letters \cup {z} : y[1] = z[1]) = z
    BY <1>3
  <2> QED  BY <1>2, <2>1 DEF MailedWith
<1>6. \A i \in LinkIds : (\A y \in letters : y[1] # i) =>
        m[i] = mailed[i] /\ (i # z[1] => later[i] = mailed[i])
  BY DEF MailedWith
<1> HIDE DEF m, later
<1>7. m[z[1]] = Null
  BY <1>1, <1>2, <1>6
<1>8. ASSUME NEW i \in LinkIds, m[i] = Null PROVE z[1] <= i
  <2>1. \A y \in letters : y[1] # i
    BY <1>2, <1>4, <1>8
  <2> QED  BY <1>1, <1>6, <1>8, <2>1
<1>9. ASSUME NEW i \in LinkIds PROVE later[i] = IF i = z[1] THEN z[2] ELSE m[i]
  <2>1. CASE \A y \in letters : y[1] # i
    BY <1>5, <1>6, <2>1
  <2>2. CASE \E y \in letters : y[1] = i
    BY <1>4, <2>2
  <2> QED  BY <2>1, <2>2
<1> QED  BY <1>2, <1>3, <1>7, <1>8, <1>9 DEF Adds, m, later

\* A new account and its link;
LEMMA AccountAddedInOrder ==
    ASSUME OneAtATime, SerialInv, NEW s \in AccountSessions, Enough(s),
           NEW n \in PersonIds, NEW tables, Provisions(s, n - 1, tables),
           InOrder(n - 1, tables), ToServe(tables, n)
    PROVE  InOrder(n, WithAccount(s, n, tables))
<1> DEFINE a == NextRow(s, tables)
           l == NextLink(s, tables)
           email == people[n].email
           new == [NewRow(email, n) EXCEPT !.invite = l]
           rows == [tables.rows EXCEPT ![a] = new]
           z == Letter(l, "invite", a, email)
           letters == tables.letters \cup {z}
           after == WithAccount(s, n, tables)
<1>0. after.rows = rows /\ after.letters = letters
  BY DEF WithAccount
<1>1. /\ a \in FreeAccounts(s) /\ tables.rows[a].st = "unused"
      /\ l \in FreeLinks(s) /\ \A y \in tables.letters : y[1] # l
      /\ \A i \in FreeLinks(s) : (\A y \in tables.letters : y[1] # i) => l <= i
  BY ThereIsANext DEF SerialInv
<1>2. a \in AccountIds /\ accounts[a].st = "unused" /\ l \in LinkIds
  BY <1>1 DEF FreeAccounts, FreeLinks
<1>3. accounts[a].volunteer_id = Null
  BY <1>2, Columns2 DEF SoundRow, Unused
<1>4. email \in Addresses
  BY DEF ToServe, SerialInv, AccountsInv, AccountsTypeOK, PeopleRows
<1>5. /\ tables.rows \in [AccountIds -> AccountRows]
      /\ \A b \in AccountIds : tables.rows[b] \in AccountRows /\ SoundRow(tables.rows[b])
      /\ tables.letters \in SUBSET (LinkIds \X Letters)
  BY DEF Provisions, TableRecords, SoundTable
<1>6. tables.rows[a].volunteer_id = Null
  BY <1>1, <1>2, <1>5 DEF SoundRow, Unused
<1>7. n # Null /\ n \in Nat
  BY AccountsAssumption, PeopleAreCounted
<1> HIDE DEF a, l, email
<1>8. z \in LinkIds \X Letters /\ z[1] = l
      /\ z[2] = [kind |-> "invite", account |-> a, to |-> email]
  BY <1>2, <1>4, LetterIsOne DEF Letter
<1>9. /\ new.change = Null /\ new.otp = Null /\ ~new.api_token
      /\ new.invite = l /\ new.volunteer_id = n /\ new.email = email
  BY DEF NewRow, Unused
<1> HIDE DEF new, z
<1>10. /\ Adds(MailedWith(tables.letters), MailedWith(letters), l, z[2])
       /\ \A x, y \in letters : x[1] = y[1] => x = y
  <2>1. mailed \in [LinkIds -> Letters \cup {Null}]
    BY <1>2, Columns2
  <2> QED  BY <1>1, <1>5, <1>8, <2>1, OneLetterMore DEF InOrder
<1>11. \A b \in AccountIds : rows[b] = IF b = a THEN new ELSE tables.rows[b]
  BY <1>2, <1>5
<1> HIDE DEF letters, rows
<1>12. NoGaps(MailedWith(letters))
  BY <1>10, NextOfAll DEF InOrder
<1>13. ASSUME NEW b \in AccountIds PROVE Backed(b, rows[b], MailedWith(letters))
  <2>1. /\ tables.rows[b] \in AccountRows /\ SoundRow(tables.rows[b])
        /\ Backed(b, tables.rows[b], MailedWith(tables.letters))
        /\ NoGaps(MailedWith(tables.letters))
    BY <1>5 DEF InOrder
  <2>2. CASE b = a
    <3>1. rows[b] = new
      BY <1>11, <2>2
    <3>2. new.api_token => new.password
      BY <1>9
    <3>3. new.invite \in {l, Null}
      BY <1>9
    <3> QED  BY <1>9, <1>10, <2>1, <3>1, <3>2, <3>3, BackedByNext
  <2>3. CASE b # a
    <3>1. rows[b] = tables.rows[b] /\ z[2].account # b
      BY <1>8, <1>11, <2>3
    <3>2. tables.rows[b].api_token => tables.rows[b].password
      BY <2>1 DEF Backed
    <3> QED  BY <1>10, <2>1, <3>1, <3>2, BackedByNext
  <2> QED  BY <2>2, <2>3
<1>14. ASSUME NEW b \in AccountIds PROVE Joins(accounts[b], rows[b])
  <2>1. CASE b = a
    BY <1>3, <1>7, <1>9, <1>11, <2>1 DEF Joins, email
  <2>2. CASE b # a
    BY <1>11, <2>2 DEF InOrder
  <2> QED  BY <2>1, <2>2
<1>15. ASSUME NEW v \in 1..n PROVE ServedIn(rows, v)
  <2>1. CASE v = n
    BY <1>2, <1>9, <1>11, <2>1 DEF ServedIn, LoginOf
  <2>2. CASE v # n
    <3>1. v \in 1..(n - 1) /\ v # Null
      BY <1>7, <2>2, PeopleAreCounted, AccountsAssumption
    <3>2. ServedIn(tables.rows, v)
      BY <3>1 DEF InOrder
    <3>3. ASSUME NEW b \in AccountIds, tables.rows[b].volunteer_id # Null
          PROVE  rows[b] = tables.rows[b]
      BY <1>6, <1>11, <3>3
    <3>4. LoginOf(tables.rows, v) \subseteq LoginOf(rows, v)
      BY <3>1, <3>3 DEF LoginOf
    <3>5. ASSUME NEW b \in At(tables.rows, people[v].email),
                 tables.rows[b].volunteer_id \notin {v, Null}
          PROVE  b \in At(rows, people[v].email) /\ rows[b].volunteer_id \notin {v, Null}
      BY <3>3, <3>5 DEF At
    <3> QED  BY <3>2, <3>4, <3>5 DEF ServedIn
  <2> QED  BY <2>1, <2>2
<1> HIDE DEF after
<1> QED  BY <1>0, <1>10, <1>12, <1>13, <1>14, <1>15 DEF InOrder, after

\* somebody linked to the account at their address.
LEMMA LinkedInOrder ==
    ASSUME OneAtATime, SerialInv, NEW s \in AccountSessions,
           NEW n \in PersonIds, NEW tables, Provisions(s, n - 1, tables),
           InOrder(n - 1, tables), ToServe(tables, n), At(tables.rows, people[n].email) # {}
    PROVE  InOrder(n, WithLink(n, tables))
<1> DEFINE rows == [x \in AccountIds |-> LinkedRow(tables.rows[x], n)]
           after == WithLink(n, tables)
<1>1. /\ tables \in TableRecords
      /\ \A b \in AccountIds : tables.rows[b] \in AccountRows /\ SoundRow(tables.rows[b])
  BY DEF Provisions, TableRecords, SoundTable
<1>2. after.rows = rows /\ after.letters = tables.letters
  BY <1>1 DEF WithLink, TableRecords
<1>3. n # Null /\ n \in Nat
  BY AccountsAssumption, PeopleAreCounted
<1>4. ASSUME NEW b \in AccountIds
      PROVE  \/ rows[b] = tables.rows[b]
             \/ /\ tables.rows[b].email = people[n].email /\ tables.rows[b].volunteer_id = Null
                /\ rows[b] = [tables.rows[b] EXCEPT !.volunteer_id = n]
  BY DEF LinkedRow
<1>5. ASSUME NEW b \in AccountIds, tables.rows[b].email = people[n].email,
             tables.rows[b].volunteer_id = Null
      PROVE  rows[b].volunteer_id = n
  BY <1>1, <1>5 DEF LinkedRow, AccountRows
<1> HIDE DEF rows
<1>6. ASSUME NEW b \in AccountIds
      PROVE  /\ rows[b].st = tables.rows[b].st /\ rows[b].email = tables.rows[b].email
             /\ rows[b].pending = tables.rows[b].pending
             /\ rows[b].change = tables.rows[b].change /\ rows[b].otp = tables.rows[b].otp
             /\ rows[b].invite = tables.rows[b].invite
             /\ rows[b].api_token = tables.rows[b].api_token
             /\ rows[b].password = tables.rows[b].password
             /\ \/ rows[b] = tables.rows[b]
                \/ /\ tables.rows[b].email = people[n].email
                   /\ tables.rows[b].volunteer_id = Null /\ rows[b].volunteer_id = n
  <2>1. CASE rows[b] = tables.rows[b]
    BY <2>1
  <2>2. CASE /\ tables.rows[b].email = people[n].email /\ tables.rows[b].volunteer_id = Null
             /\ rows[b] = [tables.rows[b] EXCEPT !.volunteer_id = n]
    BY <1>1, <2>2 DEF AccountRows
  <2> QED  BY <1>4, <2>1, <2>2
<1>7. ASSUME NEW b \in AccountIds PROVE Backed(b, rows[b], MailedWith(tables.letters))
  <2>1. Backed(b, tables.rows[b], MailedWith(tables.letters))
    BY DEF InOrder
  <2>2. rows[b].api_token => rows[b].password
    BY <1>6, <2>1 DEF Backed
  <2> QED  BY <1>6, <2>1, <2>2, BackedStill
<1>8. ASSUME NEW b \in AccountIds PROVE Joins(accounts[b], rows[b])
  <2>1. Joins(accounts[b], tables.rows[b])
    BY DEF InOrder
  <2>2. CASE rows[b] = tables.rows[b]
    BY <2>1, <2>2
  <2>3. CASE /\ tables.rows[b].email = people[n].email
             /\ tables.rows[b].volunteer_id = Null /\ rows[b].volunteer_id = n
    <3>1. accounts[b].volunteer_id = Null
      BY <2>3 DEF Provisions
    <3> QED  BY <1>3, <1>6, <2>3, <3>1 DEF Joins
  <2> QED  BY <1>6, <2>2, <2>3
<1>9. ASSUME NEW b \in AccountIds, tables.rows[b].volunteer_id # Null
      PROVE  rows[b] = tables.rows[b]
  BY <1>6, <1>9
<1>10. ASSUME NEW v \in 1..n PROVE ServedIn(rows, v)
  <2>1. CASE v = n
    <3>1. PICK b \in AccountIds : tables.rows[b].st # "unused"
                                  /\ tables.rows[b].email = people[n].email
      BY DEF At
    <3>2. CASE tables.rows[b].volunteer_id = Null
      BY <1>5, <2>1, <3>1, <3>2 DEF ServedIn, LoginOf
    <3>3. CASE tables.rows[b].volunteer_id # Null
      <4>1. tables.rows[b].volunteer_id # n
        BY DEF ToServe, LoginOf
      <4> QED  BY <1>9, <2>1, <3>1, <3>3, <4>1 DEF ServedIn, At
    <3> QED  BY <3>2, <3>3
  <2>2. CASE v # n
    <3>1. v \in 1..(n - 1) /\ v # Null
      BY <1>3, <2>2, PeopleAreCounted, AccountsAssumption
    <3>2. ServedIn(tables.rows, v)
      BY <3>1 DEF InOrder
    <3>3. LoginOf(tables.rows, v) \subseteq LoginOf(rows, v)
      BY <1>9, <3>1 DEF LoginOf
    <3>4. ASSUME NEW b \in At(tables.rows, people[v].email),
                 tables.rows[b].volunteer_id \notin {v, Null}
          PROVE  b \in At(rows, people[v].email) /\ rows[b].volunteer_id \notin {v, Null}
      BY <1>9, <3>4 DEF At
    <3> QED  BY <3>2, <3>3, <3>4 DEF ServedIn
  <2> QED  BY <2>1, <2>2
<1> HIDE DEF after
<1> QED  BY <1>2, <1>7, <1>8, <1>10 DEF InOrder, after

LEMMA ProvisionOneInOrder ==
    ASSUME OneAtATime, SerialInv, NEW s \in AccountSessions, Enough(s),
           NEW n \in PersonIds, NEW tables, Provisions(s, n - 1, tables),
           InOrder(n - 1, tables)
    PROVE  InOrder(n, ProvisionOne(s, n, tables))
<1>1. CASE ~ToServe(tables, n)
  <2>1. ServedIn(tables.rows, n)
    BY <1>1 DEF ToServe, ServedIn
  <2>2. \A v \in 1..n : v = n \/ v \in 1..(n - 1)
    BY PeopleAreCounted
  <2>3. InOrder(n, tables)
    BY <2>1, <2>2 DEF InOrder
  <2> QED  BY <1>1, <2>3, ProvisionCases
<1>2. CASE ToServe(tables, n)
  BY <1>2, ProvisionCases, AccountAddedInOrder, LinkedInOrder
<1> QED  BY <1>1, <1>2

LEMMA ProvisionedInOrder ==
    ASSUME OneAtATime, SerialInv, NEW s \in AccountSessions, Enough(s)
    PROVE  InOrder(People, Provisioned(s)[People])
<1> DEFINE S == {n \in Nat : n <= People => InOrder(n, Provisioned(s)[n])}
<1>0. AccountsInv /\ mailed \in [LinkIds -> Letters \cup {Null}]
      /\ NoGaps(mailed) /\ CredentialsMatch
  BY DEF SerialInv, AccountsInv, AccountsTypeOK
<1>1. 0 \in S
  <2>1. MailedWith({}) = mailed
    BY <1>0, NothingMailed
  <2>2. InOrder(0, NothingDone)
    BY <1>0, <2>1 DEF InOrder, NothingDone, CredentialsMatch, Joins
  <2> QED  BY <2>2, ProvisionSteps
<1>2. ASSUME NEW n \in S PROVE n + 1 \in S
  <2> SUFFICES ASSUME n + 1 <= People
               PROVE  InOrder(n + 1, Provisioned(s)[n + 1])
    OBVIOUS
  <2>1. n \in Nat /\ (n + 1) - 1 = n /\ n + 1 \in PersonIds /\ n <= People /\ n \in 0..People
    BY PeopleAreCounted
  <2>2. InOrder(n, Provisioned(s)[n]) /\ Provisions(s, n, Provisioned(s)[n])
    BY <1>0, <2>1, ProvisionedSoundly
  <2>3. Provisioned(s)[n + 1] = ProvisionOne(s, n + 1, Provisioned(s)[n])
    BY <2>1, ProvisionSteps
  <2> QED  BY <2>1, <2>2, <2>3, ProvisionOneInOrder
<1>3. S = Nat
  <2> HIDE DEF S
  <2>1. S \in SUBSET Nat
    BY DEF S
  <2> QED  BY <1>1, <1>2, <2>1, AllNumbers
<1> QED  BY <1>3, PeopleAreCounted

LEMMA ProvisionInOrder ==
    ASSUME OneAtATime, SerialInv, NEW s \in AccountSessions, Provision(s)
    PROVE  SerialInv'
<1> DEFINE tables == Provisioned(s)[People]
<1>0. AccountsInv
  BY DEF SerialInv
<1>1. /\ Enough(s)
      /\ BeginTables(s, "provision", tables.rows, people, tables.letters, {})
  BY DEF Provision, Enough, People
<1>2. Provisions(s, People, tables) /\ InOrder(People, tables)
  BY <1>0, <1>1, ProvisionedSoundly, ProvisionedInOrder, PeopleAreCounted
<1> HIDE DEF tables
<1>3. Sound(tables.rows, people, tables.letters, {})
  BY <1>0, <1>2 DEF Provisions, TableRecords, Sound, AccountsInv, AccountsTypeOK
<1>4. Ready("provision", tables.rows, people, tables.letters)
  BY <1>2, PeopleAreCounted DEF Ready, InOrder
<1> QED  BY <1>1, <1>3, <1>4, Prepares DEF Ops

-----------------------------------------------------------------------------
(* A request ends in order.                                                *)

\* What is written is what was wanted.
LEMMA WrittenAsWanted ==
    ASSUME SerialInv, NEW s \in AccountSessions, desk[s].op # "idle"
    PROVE  LET r == desk[s] IN
           /\ \A a \in AccountIds : MergedRow(r, a) = r.want[a]
           /\ Persons(r) = r.wantPeople
<1> DEFINE r == desk[s]
<1>1. /\ r \in AccountRequests /\ r.was = accounts /\ r.wasPeople = people
      /\ accounts \in [AccountIds -> AccountRows] /\ people \in [PersonIds -> PeopleRows]
  BY DEF SerialInv, AccountsInv, AccountsTypeOK, Prepared
<1>2. /\ r.want \in [AccountIds -> AccountRows]
      /\ r.wantPeople \in [PersonIds -> PeopleRows]
  BY <1>1 DEF AccountRequests
<1> HIDE DEF r
<1>3. ASSUME NEW a \in AccountIds PROVE MergedRow(r, a) = r.want[a]
  <2>1. MergedRow(r, a) \in AccountRows /\ r.want[a] \in AccountRows
    BY <1>1, <1>2, MergedColumns
  <2>2. ASSUME NEW c \in DOMAIN Unused PROVE MergedRow(r, a)[c] = r.want[a][c]
    <3>1. MergedRow(r, a)[c] = IF r.want[a][c] # r.was[a][c] \/ <<a, c>> \in r.rewrites
                               THEN r.want[a][c] ELSE accounts[a][c]
      BY <1>1, MergedColumns
    <3> QED  BY <1>1, <3>1
  <2> QED  BY <2>1, <2>2 DEF AccountRows, Unused
<1>4. ASSUME NEW v \in PersonIds PROVE MergedPerson(r, v) = r.wantPeople[v]
  <2>1. r.wantPeople[v] \in PeopleRows
    BY <1>2
  <2>2. \A c \in {"st", "email"} :
          (IF r.wantPeople[v][c] # r.wasPeople[v][c]
           THEN r.wantPeople[v][c] ELSE people[v][c]) = r.wantPeople[v][c]
    BY <1>1
  <2>3. MergedPerson(r, v) = [c \in {"st", "email"} |-> r.wantPeople[v][c]]
    BY <2>2 DEF MergedPerson
  <2> QED  BY <2>1, <2>3 DEF PeopleRows
<1>5. Persons(r) = r.wantPeople
  BY <1>2, <1>4 DEF Persons
<1> QED  BY <1>3, <1>5 DEF r

\* What is left of a row: what was wanted, or, of a deleted person's, all but them.
LEMMA LeftAsWanted ==
    ASSUME SerialInv, NEW s \in AccountSessions, desk[s].op # "idle", NEW a \in AccountIds
    PROVE  LET r == desk[s]
               row == LeftRow(r, a)
           IN  \/ row = r.want[a]
               \/ /\ r.op = "volunteers" /\ row = [accounts[a] EXCEPT !.volunteer_id = Null]
                  /\ accounts[a].volunteer_id \in PersonIds
                  /\ Persons(r)[accounts[a].volunteer_id].st = "gone"
<1> DEFINE r == desk[s]
           m == MergedRow(r, a)
<1>1. m = r.want[a] /\ Persons(r) = r.wantPeople
  BY WrittenAsWanted
<1>2. Ready(r.op, r.want, r.wantPeople, r.letters)
  BY DEF SerialInv, Prepared
<1>3. LeftRow(r, a) = IF m.volunteer_id \in Dropped(r)
                      THEN [m EXCEPT !.volunteer_id = Null] ELSE m
  BY DEF LeftRow
<1> HIDE DEF m, r
<1>4. CASE r.op # "volunteers"
  <2>1. Dropped(r) = {}
    BY <1>1, <1>2, <1>4 DEF Dropped, Ready
  <2> QED  BY <1>1, <1>3, <2>1 DEF r
<1>5. CASE r.op = "volunteers"
  <2>1. m = accounts[a]
    BY <1>1, <1>2, <1>5 DEF Ready
  <2>2. CASE m.volunteer_id \in Dropped(r)
    BY <1>3, <1>5, <2>1, <2>2 DEF Dropped, r
  <2>3. CASE m.volunteer_id \notin Dropped(r)
    BY <1>1, <1>3, <2>3 DEF r
  <2> QED  BY <2>2, <2>3
<1> QED  BY <1>4, <1>5

LEMMA CommitInOrder ==
    ASSUME OneAtATime, SerialInv, NEW s \in AccountSessions, CommitTables(s)
    PROVE  SerialInv'
<1> DEFINE r == desk[s]
<1>1. AccountsInv'
  BY CommitSound DEF SerialInv
<1>2. /\ r.op # "idle" /\ accounts' = LeftRows(r) /\ mailed' = MailedWith(r.letters)
      /\ desk' = [desk EXCEPT ![s] = NothingAsked]
  BY Commits
<1>3. Ready(r.op, r.want, r.wantPeople, r.letters)
  BY <1>2 DEF SerialInv, Prepared
<1>4. ASSUME NEW a \in AccountIds PROVE Backed(a, LeftRow(r, a), MailedWith(r.letters))
  <2>1. Backed(a, r.want[a], MailedWith(r.letters))
    BY <1>3 DEF Ready
  <2>2. CASE LeftRow(r, a) = r.want[a]
    BY <2>1, <2>2
  <2>3. CASE r.op = "volunteers" /\ LeftRow(r, a) = [accounts[a] EXCEPT !.volunteer_id = Null]
    <3> DEFINE old == accounts[a]
               row == LeftRow(r, a)
    <3>1. r.want[a] = old
      BY <1>3, <2>3 DEF Ready
    <3>2. old \in AccountRows
      BY Columns2
    <3>3. /\ row.change = old.change /\ row.pending = old.pending /\ row.otp = old.otp
          /\ row.email = old.email /\ row.invite = old.invite
          /\ row.api_token = old.api_token /\ row.password = old.password
      BY <2>3, <3>2 DEF AccountRows
    <3> HIDE DEF old, row
    <3>4. Backed(a, old, MailedWith(r.letters))
      BY <2>1, <3>1
    <3>5. row.api_token => row.password
      BY <3>3, <3>4 DEF Backed
    <3>6. Backed(a, row, MailedWith(r.letters))
      BY <3>3, <3>4, <3>5, BackedStill
    <3> QED  BY <3>6 DEF row
  <2> QED  BY <1>2, <2>2, <2>3, LeftAsWanted
<1>5. (NoGaps(mailed) /\ CredentialsMatch)'
  BY <1>2, <1>3, <1>4 DEF Ready, CredentialsMatch, LeftRows
<1>6. desk'[s] = NothingAsked /\ NothingAsked.op = "idle"
  BY <1>2 DEF SerialInv, AccountsInv, AccountsTypeOK, NothingAsked
<1> QED  BY <1>1, <1>5, <1>6 DEF SerialInv, OneAtATime

LEMMA GiveUpInOrder ==
    ASSUME OneAtATime, SerialInv, NEW s \in AccountSessions, GiveUp(s)
    PROVE  SerialInv'
<1>1. AccountsInv'
  BY GiveUpSound DEF SerialInv
<1>2. desk'[s] = NothingAsked /\ NothingAsked.op = "idle"
  BY DEF GiveUp, SerialInv, AccountsInv, AccountsTypeOK, NothingAsked
<1>3. (NoGaps(mailed) /\ CredentialsMatch)'
  BY DEF GiveUp, SerialInv, CredentialsMatch
<1> QED  BY <1>1, <1>2, <1>3 DEF SerialInv, OneAtATime

LEMMA NothingHappensInOrder ==
    ASSUME SerialInv, UNCHANGED <<accounts, people, mailed, desk, asks>>,
           expired' \subseteq LinkIds
    PROVE  SerialInv'
<1>1. AccountsInv'
  BY NothingHappens DEF SerialInv
<1>2. (NoGaps(mailed) /\ CredentialsMatch)'
  BY DEF SerialInv, CredentialsMatch
<1>3. ASSUME NEW s \in AccountSessions, (desk[s].op # "idle")' PROVE Prepared(desk[s])'
  BY <1>3, ReadyStays DEF SerialInv, Prepared
<1> QED  BY <1>1, <1>2, <1>3 DEF SerialInv

LEMMA SerialStart == AccountsInit => SerialInv
<1> SUFFICES ASSUME AccountsInit PROVE SerialInv
  OBVIOUS
<1>1. NoGaps(mailed) /\ CredentialsMatch
  BY OpeningsAssumption DEF AccountsInit, CredentialsMatch
<1>2. \A s \in AccountSessions : desk[s].op = "idle"
  BY DEF AccountsInit, NothingAsked
<1> QED  BY <1>1, <1>2, AccountsStart DEF SerialInv

LEMMA SerialStep ==
    ASSUME OneAtATime, SerialInv, [AccountsNext]_accountVars
    PROVE  SerialInv'
<1>0. AccountsInv
  BY DEF SerialInv
<1>1. CASE UNCHANGED accountVars
  BY <1>0, <1>1, NothingHappensInOrder DEF accountVars, AccountsInv, AccountsTypeOK
<1>2. CASE \E l \in LinkIds : Expire(l)
  <2>1. UNCHANGED <<accounts, people, mailed, desk, asks>> /\ expired' \subseteq LinkIds
    BY <1>0, <1>2 DEF Expire, AccountsInv, AccountsTypeOK
  <2> QED  BY <2>1, NothingHappensInOrder
<1>3. ASSUME NEW s \in AccountSessions,
             \/ \E email \in Addresses, v \in PersonIds \cup {Null} :
                  CreateWithPassword(s, email, v) \/ CreateWithLink(s, email, v)
             \/ \E v \in PersonIds : InviteVolunteer(s, v) \/ InviteAgain(s, v)
             \/ Provision(s)
      PROVE  SerialInv'
  <2>1. CASE \E v \in PersonIds : InviteAgain(s, v)
    <3>1. Active # {}
      BY <2>1 DEF InviteAgain
    <3>2. PICK a \in AccountIds : TRUE
      BY <3>1 DEF Active
    <3> QED  BY <2>1, LettersInOrder
  <2> QED  BY <1>3, <2>1, CreatesInOrder, InvitesInOrder, ProvisionInOrder
<1>4. ASSUME NEW s \in AccountSessions, NEW a \in AccountIds,
              \/ SetPassword(s, a) \/ ClearPassword(s, a) \/ ReissueInvite(s, a)
              \/ \E password \in BOOLEAN : RedeemInvite(s, a, password)
              \/ \E forApi, stretch \in BOOLEAN : SignIn(s, a, forApi, stretch)
              \/ StartOtp(s, a) \/ VerifyOtp(s, a)
              \/ \E addr \in Addresses : StartEmailChange(s, a, addr)
              \/ CancelEmailChange(s, a) \/ ConfirmEmailChange(s, a)
              \/ SetFlags(s, a)
              \/ \E v \in PersonIds \cup {Null} : SetVolunteer(s, a, v)
      PROVE  SerialInv'
  BY <1>4, LettersInOrder, KeepsInOrder, StoresInOrder, ConfirmsInOrder
<1>5. ASSUME NEW s \in AccountSessions, NEW v \in PersonIds,
              \/ \E email \in Addresses \cup {Null} : UpdateVolunteer(s, v, email)
              \/ ArchiveVolunteer(s, v) \/ DeleteVolunteer(s, v)
      PROVE  SerialInv'
  BY <1>5, PeopleInOrder
<1>6. ASSUME NEW s \in AccountSessions, CommitTables(s) \/ GiveUp(s)
      PROVE  SerialInv'
  BY <1>6, CommitInOrder, GiveUpInOrder
<1> QED  BY <1>1, <1>2, <1>3, <1>4, <1>5, <1>6 DEF AccountsNext

\* With one request at a time, each writes over the tables as it read them.
THEOREM SerialInvariance ==
    ASSUME OneAtATime PROVE AccountsSpec => []SerialInv
<1>1. SerialInv /\ [AccountsNext]_accountVars => SerialInv'
  BY SerialStep
<1> QED  BY <1>1, SerialStart, PTL DEF AccountsSpec

\* With one request at a time an account is entered only by what it stands
\* behind: a change of address by the mailbox it names, a code by the address
\* that signs in, a token with a password, and the last link that was mailed.
THEOREM CredentialsAreBacked ==
    ASSUME OneAtATime PROVE AccountsSpec => []CredentialsMatch
<1>1. SerialInv => CredentialsMatch
  BY DEF SerialInv
<1> QED  BY <1>1, SerialInvariance, PTL

\* A row is written by commits alone.
LEMMA OnlyCommitsWrite ==
    ASSUME AccountsNext
    PROVE  (\E t \in AccountSessions : CommitTables(t)) \/ accounts' = accounts
<1>1. \A s, op, want, wantPeople, letters, rewrites :
        BeginTables(s, op, want, wantPeople, letters, rewrites) => accounts' = accounts
  BY DEF BeginTables
<1>2. \A s, op, a, row : BeginRow(s, op, a, row) => accounts' = accounts
  BY <1>1 DEF BeginRow
<1>3. \A s, op, a, row, letter : BeginMailed(s, op, a, row, letter) => accounts' = accounts
  BY <1>1 DEF BeginMailed
<1>4. \A s, wantPeople : BeginPeople(s, wantPeople) => accounts' = accounts
  BY <1>1 DEF BeginPeople
<1>5. ASSUME NEW s \in AccountSessions,
             \/ \E email \in Addresses, v \in PersonIds \cup {Null} :
                  CreateWithPassword(s, email, v) \/ CreateWithLink(s, email, v)
             \/ \E v \in PersonIds : InviteVolunteer(s, v) \/ InviteAgain(s, v)
             \/ Provision(s)
      PROVE  accounts' = accounts
  BY <1>1, <1>2, <1>3, <1>5
  DEF CreateWithPassword, CreateWithLink, InviteVolunteer, InviteAgain, Provision
<1>6. ASSUME NEW s \in AccountSessions, NEW a \in AccountIds,
              \/ SetPassword(s, a) \/ ClearPassword(s, a) \/ ReissueInvite(s, a)
              \/ \E password \in BOOLEAN : RedeemInvite(s, a, password)
              \/ \E forApi, stretch \in BOOLEAN : SignIn(s, a, forApi, stretch)
              \/ StartOtp(s, a) \/ VerifyOtp(s, a)
              \/ \E addr \in Addresses : StartEmailChange(s, a, addr)
              \/ CancelEmailChange(s, a) \/ ConfirmEmailChange(s, a)
              \/ SetFlags(s, a)
              \/ \E v \in PersonIds \cup {Null} : SetVolunteer(s, a, v)
      PROVE  accounts' = accounts
  <2>1. SetPassword(s, a) => accounts' = accounts
    BY <1>1 DEF SetPassword
  <2>2. ASSUME NEW password \in BOOLEAN, RedeemInvite(s, a, password)
        PROVE  accounts' = accounts
    BY <1>1, <2>2 DEF RedeemInvite
  <2>3. ASSUME NEW forApi \in BOOLEAN, NEW stretch \in BOOLEAN, SignIn(s, a, forApi, stretch)
        PROVE  accounts' = accounts
    BY <1>1, <2>3 DEF SignIn
  <2>4. ClearPassword(s, a) \/ VerifyOtp(s, a) \/ CancelEmailChange(s, a) \/ SetFlags(s, a)
          => accounts' = accounts
    BY <1>2 DEF ClearPassword, VerifyOtp, CancelEmailChange, SetFlags
  <2>5. ReissueInvite(s, a) \/ StartOtp(s, a) => accounts' = accounts
    BY <1>3 DEF ReissueInvite, StartOtp
  <2>6. ASSUME NEW addr \in Addresses, StartEmailChange(s, a, addr)
        PROVE  accounts' = accounts
    BY <1>3, <2>6 DEF StartEmailChange
  <2>7. ConfirmEmailChange(s, a) => accounts' = accounts
    BY <1>1, <1>2, Zenon DEF ConfirmEmailChange
  <2>8. ASSUME NEW v \in PersonIds \cup {Null}, SetVolunteer(s, a, v)
        PROVE  accounts' = accounts
    BY <1>2, <2>8 DEF SetVolunteer
  <2> QED  BY <1>6, <2>1, <2>2, <2>3, <2>4, <2>5, <2>6, <2>7, <2>8
<1>7. ASSUME NEW s \in AccountSessions, NEW v \in PersonIds,
              \/ \E email \in Addresses \cup {Null} : UpdateVolunteer(s, v, email)
              \/ ArchiveVolunteer(s, v) \/ DeleteVolunteer(s, v)
      PROVE  accounts' = accounts
  BY <1>4, <1>7 DEF UpdateVolunteer, ArchiveVolunteer, DeleteVolunteer
<1>8. \A s : GiveUp(s) => accounts' = accounts
  BY DEF GiveUp
<1>9. \A l : Expire(l) => accounts' = accounts
  BY DEF Expire
<1> QED  BY <1>5, <1>6, <1>7, <1>8, <1>9 DEF AccountsNext

\* What a commit makes of whose an account is.
LEMMA CommitKeepsPeople ==
    ASSUME SerialInv, NEW s \in AccountSessions, CommitTables(s),
           desk[s].op \notin {"create_for", "set_volunteer"}, NEW a \in AccountIds,
           accounts'[a].volunteer_id # accounts[a].volunteer_id
    PROVE  LET was == accounts[a].volunteer_id
               now == accounts'[a].volunteer_id
           IN  \/ was # Null /\ now = Null /\ people'[was].st = "gone"
               \/ was = Null /\ people[now].email = accounts'[a].email
<1> DEFINE r == desk[s]
<1>1. r.op # "idle" /\ accounts' = LeftRows(r) /\ people' = Persons(r)
  BY Commits
<1>c. accounts'[a] = LeftRow(r, a)
  BY <1>1 DEF LeftRows
<1>2. Joins(accounts[a], r.want[a])
  BY <1>1 DEF SerialInv, Prepared, Ready
<1>3. CASE accounts'[a] = r.want[a]
  BY <1>2, <1>3 DEF Joins
<1>4. CASE /\ accounts'[a] = [accounts[a] EXCEPT !.volunteer_id = Null]
           /\ accounts[a].volunteer_id \in PersonIds
           /\ people'[accounts[a].volunteer_id].st = "gone"
  <2>1. accounts[a] \in AccountRows
    BY Columns2
  <2>2. accounts'[a].volunteer_id = Null
    BY <1>4, <2>1 DEF AccountRows
  <2> QED  BY <1>4, <2>2, AccountsAssumption
<1> QED  BY <1>1, <1>c, <1>3, <1>4, LeftAsWanted

\* After a provisioning everybody is served.
LEMMA CommitServes ==
    ASSUME SerialInv, NEW s \in AccountSessions, CommitTables(s),
           desk[s].op = "provision", NEW v \in PersonIds
    PROVE  ServedIn(accounts', v)
<1> DEFINE r == desk[s]
<1>1. accounts' = LeftRows(r) /\ r.want \in [AccountIds -> AccountRows]
  BY Commits DEF SerialInv, AccountsInv, AccountsTypeOK, AccountRequests
<1>2. \A a \in AccountIds : LeftRow(r, a) = r.want[a]
  BY LeftAsWanted
<1>3. accounts' = r.want
  BY <1>1, <1>2 DEF LeftRows
<1>4. ServedIn(r.want, v)
  BY DEF SerialInv, Prepared, Ready
<1> QED  BY <1>3, <1>4

\* With one request at a time an account becomes somebody's only by an admin who
\* names them, or if it was nobody's and signs in with the address they have on
\* record; it is taken from nobody but the deleted; and a provisioning serves
\* everybody there is.
THEOREM LoginsStay ==
    ASSUME OneAtATime PROVE AccountsSpec => LoginsKeepTheirPeople
<1> DEFINE Kept ==
      \A s \in AccountSessions :
         desk'[s] # desk[s] /\ desk[s].op \notin {"create_for", "set_volunteer"} =>
         /\ \A a \in AccountIds :
              LET was == accounts[a].volunteer_id
                  now == accounts'[a].volunteer_id
              IN now # was =>
                   \/ was # Null /\ now = Null /\ people'[was].st = "gone"
                   \/ was = Null /\ people[now].email = accounts'[a].email
         /\ desk[s].op = "provision" /\ accounts' # accounts =>
              \A v \in PersonIds : people[v].st = "active" /\ people[v].email # Null =>
                LoginOf(accounts', v) # {}
                  \/ \E a \in At(accounts', people[v].email) :
                       accounts'[a].volunteer_id \notin {v, Null}
<1>1. SerialInv /\ [AccountsNext]_accountVars => [Kept]_accountVars
  <2> SUFFICES ASSUME SerialInv, AccountsNext, NEW s \in AccountSessions,
                      desk'[s] # desk[s], desk[s].op \notin {"create_for", "set_volunteer"},
                      accounts' # accounts
               PROVE  /\ \A a \in AccountIds :
                           LET was == accounts[a].volunteer_id
                               now == accounts'[a].volunteer_id
                           IN now # was =>
                                \/ was # Null /\ now = Null /\ people'[was].st = "gone"
                                \/ was = Null /\ people[now].email = accounts'[a].email
                      /\ desk[s].op = "provision" =>
                           \A v \in PersonIds : ServedIn(accounts', v)
    BY Zenon DEF ServedIn
  <2>1. CommitTables(s)
    BY OnlyCommitsWrite DEF OneAtATime
  <2> QED  BY <2>1, CommitKeepsPeople, CommitServes
<1> QED  BY <1>1, SerialInvariance, PTL DEF AccountsSpec, LoginsKeepTheirPeople
=============================================================================
