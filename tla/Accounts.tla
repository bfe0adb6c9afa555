------------------------------ MODULE Accounts ------------------------------
(***************************************************************************)
(* Sign-in accounts and the people they are for (services/users.py;        *)
(* api/auth.py, api/users.py; addresses of volunteers, from                *)
(* services/volunteers.py): who may sign in, and by what.                  *)
(*                                                                         *)
(* A request is one transaction.  Its first step reads, checks and works   *)
(* out the rows it wants; CommitTables, its second, writes the columns     *)
(* not as it read them over whatever others have committed since, under    *)
(* the table's constraints, and mails.  A refusal is the absence of the    *)
(* first step, and GiveUp any other end.                                   *)
(*                                                                         *)
(* Links and codes are numbered as they are minted.  What a wrong code or  *)
(* password costs, and how often one may ask, is in SignIn.  Who asks is   *)
(* left out: each request is one that somebody may make, and that would    *)
(* change something.                                                       *)
(***************************************************************************)
EXTENDS Naturals, FiniteSets

CONSTANTS
    AccountSessions,  \* requests that may be in flight at once
    AccountIds,     \* bound: accounts ever made
    PersonIds,      \* the people on record at first, by id
    Addresses,
    LinkIds,        \* bound: links and codes ever mailed
    Openings,       \* accounts, and what was mailed, when it begins
    MaxRequests,    \* bound: requests made from there
    Null

ASSUME AccountsAssumption ==
    /\ AccountIds \subseteq Nat /\ LinkIds \subseteq Nat
    /\ IsFiniteSet(AccountIds) /\ IsFiniteSet(LinkIds)
    /\ IsFiniteSet(PersonIds) /\ PersonIds = 1..Cardinality(PersonIds)
    /\ Null \notin PersonIds /\ Null \notin Addresses /\ Null \notin LinkIds
    /\ MaxRequests \in Nat

VARIABLES
    accounts,   \* app_user rows
    people,     \* volunteer rows
    mailed,     \* what each link or code was mailed, or handed out, for, and where
    expired,    \* links and codes whose time is over
    desk,       \* the request each session is running
    asks        \* requests still to come

accountVars == <<accounts, people, mailed, expired, desk, asks>>

\* st: unused, is_active or not.  seen: last_login_at is set.
AccountRows ==
    [st : {"unused", "active", "off"}, email : Addresses \cup {Null},
     volunteer_id : PersonIds \cup {Null}, password : BOOLEAN, seen : BOOLEAN,
     api_token : BOOLEAN, invite : LinkIds \cup {Null},
     pending : Addresses \cup {Null}, change : LinkIds \cup {Null},
     otp : LinkIds \cup {Null}]

PeopleRows == [st : {"active", "archived", "gone"}, email : Addresses \cup {Null}]

Letters == [kind : {"invite", "code", "change"}, account : AccountIds, to : Addresses]

\* was, want: the tables as read and as they are to be.  rewrites: what is
\* stored anew whatever it was, a password (its hash is salted) or a token.
AccountRequests ==
    [op : {"idle", "create", "create_for", "set_password", "clear_password", "invite", "redeem",
           "start_otp", "verify_otp", "sign_in", "change_email", "set_flags",
           "set_volunteer", "provision", "volunteers"},
     was : [AccountIds -> AccountRows], want : [AccountIds -> AccountRows],
     wasPeople : [PersonIds -> PeopleRows], wantPeople : [PersonIds -> PeopleRows],
     letters : SUBSET (LinkIds \X Letters),
     rewrites : SUBSET (AccountIds \X {"password", "api_token"})]

Unused ==
    [st |-> "unused", email |-> Null, volunteer_id |-> Null, password |-> FALSE,
     seen |-> FALSE, api_token |-> FALSE, invite |-> Null, pending |-> Null,
     change |-> Null, otp |-> Null]

NoRows == [a \in AccountIds |-> Unused]
NoPeople == [v \in PersonIds |-> [st |-> "gone", email |-> Null]]

\* What a row can be entered by is something it stands behind, of the letters
\* mailed so far.
Backed(a, row, letters) ==
    /\ row.change # Null => letters[row.change] =
         [kind |-> "change", account |-> a, to |-> row.pending]
    /\ row.otp # Null => letters[row.otp] =
         [kind |-> "code", account |-> a, to |-> row.email]
    /\ row.api_token => row.password
    /\ row.invite # Null =>
         \A l \in LinkIds : letters[l] # Null /\ letters[l].account = a
                            /\ letters[l].kind = "invite" => l <= row.invite

\* The constraints of a row alone: an address (NOT NULL), and
\* ck_app_user_email_change_triple.
SoundRow(row) ==
    /\ row.st = "unused" => row = Unused
    /\ row.st # "unused" => row.email \in Addresses
    /\ row.pending = Null <=> row.change = Null

\* Links are numbered without gaps.
NoGaps(letters) ==
    \A k, l \in LinkIds : k < l /\ letters[l] # Null => letters[k] # Null

ASSUME OpeningsAssumption ==
    /\ Null \notin Letters
    /\ \A o \in Openings :
         /\ o.accounts \in [AccountIds -> AccountRows]
         /\ o.mailed \in [LinkIds -> Letters \cup {Null}]
         /\ NoGaps(o.mailed)
         /\ \A a \in AccountIds :
              SoundRow(o.accounts[a]) /\ Backed(a, o.accounts[a], o.mailed)

NothingAsked ==
    [op |-> "idle", was |-> NoRows, want |-> NoRows, wasPeople |-> NoPeople,
     wantPeople |-> NoPeople, letters |-> {}, rewrites |-> {}]

AccountsTypeOK ==
    /\ accounts \in [AccountIds -> AccountRows]
    /\ people \in [PersonIds -> PeopleRows]
    /\ mailed \in [LinkIds -> Letters \cup {Null}]
    /\ expired \subseteq LinkIds
    /\ desk \in [AccountSessions -> AccountRequests]
    /\ asks \in 0..MaxRequests

AccountsInit ==
    /\ \E o \in Openings : accounts = o.accounts /\ mailed = o.mailed
    /\ people \in [PersonIds -> [st : {"active"}, email : Addresses]]
    /\ expired = {}
    /\ desk = [s \in AccountSessions |-> NothingAsked]
    /\ asks = MaxRequests

-----------------------------------------------------------------------------
(* A request begins: its op, the rows it wants, what it will mail.         *)

Known == {a \in AccountIds : accounts[a].st # "unused"}
Active == {a \in AccountIds : accounts[a].st = "active"}

BeginTables(s, op, want, wantPeople, letters, rewrites) ==
    /\ desk[s].op = "idle"
    /\ asks > 0 /\ asks' = asks - 1
    /\ desk' = [desk EXCEPT ![s] =
                  [op |-> op, was |-> accounts, want |-> want,
                   wasPeople |-> people, wantPeople |-> wantPeople,
                   letters |-> letters, rewrites |-> rewrites]]
    /\ UNCHANGED <<accounts, people, mailed, expired>>

\* One account's row, and nothing else.
BeginRow(s, op, a, row) ==
    BeginTables(s, op, [accounts EXCEPT ![a] = row], people, {}, {})

\* The same with a letter.
BeginMailed(s, op, a, row, letter) ==
    BeginTables(s, op, [accounts EXCEPT ![a] = row], people, {letter}, {})

BeginPeople(s, wantPeople) ==
    BeginTables(s, "volunteers", accounts, wantPeople, {}, {})

Lowest(S) == CHOOSE i \in S : \A j \in S : i <= j

\* Ids and tokens nobody has, and nobody else is about to take.
FreeAccounts(s) ==
    {a \in AccountIds : /\ accounts[a].st = "unused"
                        /\ \A o \in AccountSessions \ {s} : desk[o].want[a].st = "unused"}
FreeLinks(s) ==
    {l \in LinkIds : /\ mailed[l] = Null
                     /\ \A o \in AccountSessions \ {s} : \A x \in desk[o].letters : x[1] # l}

Letter(l, kind, a, to) == <<l, [kind |-> kind, account |-> a, to |-> to]>>

LoginOf(rows, v) == {a \in AccountIds : rows[a].volunteer_id = v}
At(rows, email) == {a \in AccountIds : rows[a].st # "unused" /\ rows[a].email = email}

NewRow(email, v) == [Unused EXCEPT !.st = "active", !.email = email, !.volunteer_id = v]

-----------------------------------------------------------------------------
(* Accounts are made.                                                      *)

\* _volunteer_for_email: the one active volunteer at the address, unless
\* somebody signs in for them already.
Adopted(email) ==
    LET holders == {v \in PersonIds : people[v].st = "active" /\ people[v].email = email}
    IN  IF Cardinality(holders) = 1 /\ \A v \in holders : LoginOf(accounts, v) = {}
        THEN CHOOSE v \in holders : TRUE
        ELSE Null

\* An admin makes an account, for a volunteer they name or for nobody in
\* particular,
CreateOp(v) == IF v = Null THEN "create" ELSE "create_for"

\* with a password,
CreateWithPassword(s, email, v) ==
    /\ FreeAccounts(s) # {}
    /\ LET who == IF v = Null THEN Adopted(email) ELSE v
       IN BeginRow(s, CreateOp(v), Lowest(FreeAccounts(s)),
                   [NewRow(email, who) EXCEPT !.password = TRUE])

\* or with a link.
CreateWithLink(s, email, v) ==
    /\ FreeAccounts(s) # {} /\ FreeLinks(s) # {}
    /\ LET who == IF v = Null THEN Adopted(email) ELSE v
           a == Lowest(FreeAccounts(s))
           l == Lowest(FreeLinks(s))
       IN BeginMailed(s, CreateOp(v), a, [NewRow(email, who) EXCEPT !.invite = l],
                      Letter(l, "invite", a, email))

\* Broken: people without an address on file are invited.
InviteUnaddressed(s, v) ==
    /\ people[v].st = "active"
    /\ LoginOf(accounts, v) = {} /\ At(accounts, people[v].email) = {}
    /\ FreeAccounts(s) # {} /\ FreeLinks(s) # {}
    /\ LET email == people[v].email
           a == Lowest(FreeAccounts(s))
           l == Lowest(FreeLinks(s))
       IN BeginMailed(s, "invite", a, [NewRow(email, v) EXCEPT !.invite = l],
                      Letter(l, "invite", a, email))

\* A leader invites somebody of their team: a new account at the address on
\* record, if no other account has it,
InviteVolunteer(s, v) ==
    /\ people[v].st = "active" /\ people[v].email # Null
    /\ LoginOf(accounts, v) = {} /\ At(accounts, people[v].email) = {}
    /\ FreeAccounts(s) # {} /\ FreeLinks(s) # {}
    /\ LET email == people[v].email
           a == Lowest(FreeAccounts(s))
           l == Lowest(FreeLinks(s))
       IN BeginMailed(s, "invite", a, [NewRow(email, v) EXCEPT !.invite = l],
                      Letter(l, "invite", a, email))

\* or the link again, for an account that was never used.
InviteAgain(s, v) ==
    /\ people[v].st = "active" /\ people[v].email # Null
    /\ FreeLinks(s) # {}
    /\ LET l == Lowest(FreeLinks(s)) IN
       \E a \in LoginOf(accounts, v) \cap Active :
         /\ ~accounts[a].password /\ ~accounts[a].seen
         /\ BeginMailed(s, "invite", a, [accounts[a] EXCEPT !.invite = l],
                        Letter(l, "invite", a, accounts[a].email))

\* Broken: a spouse's login at the address is adopted too.
ProvisionAdoptingAny(s, v, tables) ==
    LET rows == tables.rows
        email == people[v].email
        a == Lowest({x \in FreeAccounts(s) : rows[x].st = "unused"})
        l == Lowest({x \in FreeLinks(s) : \A y \in tables.letters : y[1] # x})
    IN  IF people[v].st # "active" \/ email = Null \/ LoginOf(rows, v) # {} THEN tables
        ELSE IF At(rows, email) = {}
        THEN [rows |-> [rows EXCEPT ![a] = [NewRow(email, v) EXCEPT !.invite = l]],
              letters |-> tables.letters \cup {Letter(l, "invite", a, email)}]
        ELSE [tables EXCEPT !.rows =
                [x \in AccountIds |-> IF rows[x].email = email
                                      THEN [rows[x] EXCEPT !.volunteer_id = v]
                                      ELSE rows[x]]]

\* bulk_provision, volunteer by volunteer: a new account with a link, or the
\* unlinked one at the address, or nothing.  Archived people are passed over.
ProvisionOne(s, v, tables) ==
    LET rows == tables.rows
        email == people[v].email
        a == Lowest({x \in FreeAccounts(s) : rows[x].st = "unused"})
        l == Lowest({x \in FreeLinks(s) : \A y \in tables.letters : y[1] # x})
    IN  IF people[v].st # "active" \/ email = Null \/ LoginOf(rows, v) # {} THEN tables
        ELSE IF At(rows, email) = {}
        THEN [rows |-> [rows EXCEPT ![a] = [NewRow(email, v) EXCEPT !.invite = l]],
              letters |-> tables.letters \cup {Letter(l, "invite", a, email)}]
        ELSE [tables EXCEPT !.rows =
                [x \in AccountIds |-> IF rows[x].email = email /\ rows[x].volunteer_id = Null
                                      THEN [rows[x] EXCEPT !.volunteer_id = v]
                                      ELSE rows[x]]]

Unserved == {v \in PersonIds : /\ people[v].st = "active" /\ people[v].email # Null
                              /\ LoginOf(accounts, v) = {}}

\* The rows and letters after the first n volunteers.
Provisioned(s) ==
    LET done[n \in 0..Cardinality(PersonIds)] ==
          IF n = 0 THEN [rows |-> accounts, letters |-> {}]
          ELSE ProvisionOne(s, n, done[n - 1])
    IN  done

Provision(s) ==
    LET tables == Provisioned(s)[Cardinality(PersonIds)]
    IN  /\ Cardinality(Unserved) <= Cardinality(FreeAccounts(s))
        /\ Cardinality(Unserved) <= Cardinality(FreeLinks(s))
        /\ BeginTables(s, "provision", tables.rows, people, tables.letters, {})

-----------------------------------------------------------------------------
(* Passwords, links and codes.                                             *)

SetPassword(s, a) ==
    /\ a \in Active
    /\ BeginTables(s, "set_password",
                   [accounts EXCEPT ![a].password = TRUE, ![a].invite = Null],
                   people, {}, {<<a, "password">>})

ClearPassword(s, a) ==
    /\ a \in Active
    /\ BeginRow(s, "clear_password", a,
                [accounts[a] EXCEPT !.password = FALSE, !.api_token = FALSE])

\* Broken: the token outlives the password it was issued against.
ReissueInviteOnly(s, a) ==
    /\ a \in Known /\ FreeLinks(s) # {}
    /\ LET l == Lowest(FreeLinks(s))
       IN BeginMailed(s, "invite", a, [accounts[a] EXCEPT !.invite = l, !.password = FALSE],
                      Letter(l, "invite", a, accounts[a].email))

\* An admin invalidates the password and sends a new link.
ReissueInvite(s, a) ==
    /\ a \in Known /\ FreeLinks(s) # {}
    /\ LET l == Lowest(FreeLinks(s))
       IN BeginMailed(s, "invite", a,
                      [accounts[a] EXCEPT !.invite = l, !.password = FALSE,
                                          !.api_token = FALSE],
                      Letter(l, "invite", a, accounts[a].email))

\* The password is optional.
RedeemInvite(s, a, password) ==
    /\ a \in Active /\ accounts[a].invite \in LinkIds \ expired
    /\ BeginTables(s, "redeem",
                   [accounts EXCEPT ![a].invite = Null, ![a].password = @ \/ password],
                   people, {}, IF password THEN {<<a, "password">>} ELSE {})

\* authenticate, and for the JSON API issue_api_token in the same transaction.
\* A password of old cost factors is stretched again.
SignIn(s, a, forApi, stretch) ==
    /\ a \in Active /\ accounts[a].password
    /\ BeginTables(s, "sign_in",
                   [accounts EXCEPT ![a].seen = TRUE, ![a].api_token = @ \/ forApi],
                   people, {}, (IF stretch THEN {<<a, "password">>} ELSE {})
                               \cup (IF forApi THEN {<<a, "api_token">>} ELSE {}))

\* Unless a live code went out moments ago.
StartOtp(s, a) ==
    /\ a \in Active /\ FreeLinks(s) # {}
    /\ LET l == Lowest(FreeLinks(s))
       IN BeginMailed(s, "start_otp", a, [accounts[a] EXCEPT !.otp = l],
                      Letter(l, "code", a, accounts[a].email))

\* The right code; it also spends the invitation.
VerifyOtp(s, a) ==
    /\ a \in Active /\ accounts[a].otp \in LinkIds \ expired
    /\ BeginRow(s, "verify_otp", a,
                [accounts[a] EXCEPT !.otp = Null, !.invite = Null, !.seen = TRUE])

-----------------------------------------------------------------------------
(* The address changes once the new one is proved.                         *)

StartEmailChange(s, a, addr) ==
    /\ a \in Active /\ FreeLinks(s) # {}
    /\ At(accounts, addr) = {}
    /\ LET l == Lowest(FreeLinks(s))
       IN BeginMailed(s, "change_email", a,
                      [accounts[a] EXCEPT !.pending = addr, !.change = l],
                      Letter(l, "change", a, addr))

NoChange(row) == [row EXCEPT !.pending = Null, !.change = Null]

CancelEmailChange(s, a) ==
    /\ a \in Active /\ accounts[a].change # Null
    /\ BeginRow(s, "change_email", a, NoChange(accounts[a]))

\* Broken: the code mailed to the old address stays good.
ConfirmKeepsCode(s, a) ==
    /\ a \in Active /\ accounts[a].change \in LinkIds \ expired
    /\ LET addr == accounts[a].pending
           v == accounts[a].volunteer_id
       IN IF At(accounts, addr) \ {a} # {}
          THEN BeginRow(s, "change_email", a, NoChange(accounts[a]))
          ELSE BeginTables(s, "change_email",
                           [accounts EXCEPT ![a] = [NoChange(@) EXCEPT !.email = addr]],
                           IF v = Null THEN people ELSE [people EXCEPT ![v].email = addr], {}, {})

\* The address moves on the account and on the volunteer behind it, and a code
\* mailed to the old one is void; unless somebody took the address first.
ConfirmEmailChange(s, a) ==
    /\ a \in Active /\ accounts[a].change \in LinkIds \ expired
    /\ LET addr == accounts[a].pending
           v == accounts[a].volunteer_id
       IN IF At(accounts, addr) \ {a} # {}
          THEN BeginRow(s, "change_email", a, NoChange(accounts[a]))
          ELSE BeginTables(s, "change_email",
                           [accounts EXCEPT ![a] = [NoChange(@) EXCEPT !.email = addr, !.otp = Null]],
                           IF v = Null THEN people ELSE [people EXCEPT ![v].email = addr], {}, {})

-----------------------------------------------------------------------------
(* An admin's hand, and the people on record.                              *)

SetFlags(s, a) ==
    /\ a \in Known
    /\ \E st \in {"active", "off"} \ {accounts[a].st} :
         BeginRow(s, "set_flags", a, [accounts[a] EXCEPT !.st = st])

SetVolunteer(s, a, v) ==
    /\ a \in Known
    /\ v # Null => people[v].st # "gone" /\ LoginOf(accounts, v) \subseteq {a}
    /\ BeginRow(s, "set_volunteer", a, [accounts[a] EXCEPT !.volunteer_id = v])

UpdateVolunteer(s, v, email) ==
    /\ people[v].st # "gone" /\ people[v].email # email
    /\ BeginPeople(s, [people EXCEPT ![v].email = email])

ArchiveVolunteer(s, v) ==
    /\ people[v].st # "gone"
    /\ \E st \in {"active", "archived"} \ {people[v].st} :
         BeginPeople(s, [people EXCEPT ![v].st = st])

DeleteVolunteer(s, v) ==
    /\ people[v].st # "gone"
    /\ BeginPeople(s, [people EXCEPT ![v] = [st |-> "gone", email |-> Null]])

-----------------------------------------------------------------------------
(* A request ends.                                                         *)

\* A new row is inserted whole; of an old one only the columns that changed
\* are written.
MergedRow(r, a) ==
    [c \in DOMAIN Unused |->
       IF r.want[a][c] # r.was[a][c] \/ <<a, c>> \in r.rewrites
       THEN r.want[a][c] ELSE accounts[a][c]]

MergedPerson(r, v) ==
    [c \in {"st", "email"} |->
       IF r.wantPeople[v][c] # r.wasPeople[v][c] THEN r.wantPeople[v][c] ELSE people[v][c]]

\* Unique keys on the address and on the volunteer, the foreign key to them,
\* and ck_app_user_email_change_triple.
Allowed(rows, persons) ==
    \A a \in AccountIds : rows[a].st # "unused" =>
      /\ At(rows, rows[a].email) = {a}
      /\ rows[a].volunteer_id # Null => /\ LoginOf(rows, rows[a].volunteer_id) = {a}
                                        /\ persons[rows[a].volunteer_id].st # "gone"
      /\ rows[a].pending = Null <=> rows[a].change = Null

\* Deleting a volunteer unlinks their account (ON DELETE SET NULL).  The
\* letters go out after the commit.
CommitTables(s) ==
    LET r == desk[s]
        persons == [v \in PersonIds |-> MergedPerson(r, v)]
        dropped == {v \in PersonIds : people[v].st # "gone" /\ persons[v].st = "gone"}
        rows == [a \in AccountIds |->
                   LET row == MergedRow(r, a)
                   IN IF row.volunteer_id \in dropped
                      THEN [row EXCEPT !.volunteer_id = Null] ELSE row]
    IN
    /\ r.op # "idle"
    /\ \A v \in PersonIds : r.wantPeople[v] # r.wasPeople[v] => people[v].st # "gone"
    /\ Allowed(rows, persons)
    /\ accounts' = rows
    /\ people' = persons
    /\ mailed' = [l \in LinkIds |->
                    IF \E x \in r.letters : x[1] = l
                    THEN (CHOOSE x \in r.letters : x[1] = l)[2] ELSE mailed[l]]
    /\ desk' = [desk EXCEPT ![s] = NothingAsked]
    /\ UNCHANGED <<expired, asks>>

\* Refused after its reads, a constraint, a lost connection.
GiveUp(s) ==
    /\ desk[s].op # "idle"
    /\ desk' = [desk EXCEPT ![s] = NothingAsked]
    /\ UNCHANGED <<accounts, people, mailed, expired, asks>>

\* Time is up for a link or a code that is still on its account's row.
Expire(l) ==
    /\ l \notin expired
    /\ \E a \in AccountIds : l \in {accounts[a].invite, accounts[a].change, accounts[a].otp}
    /\ expired' = expired \cup {l}
    /\ UNCHANGED <<accounts, people, mailed, desk, asks>>

AccountsNext ==
    \/ \E s \in AccountSessions :
         \/ \E email \in Addresses, v \in PersonIds \cup {Null} :
              CreateWithPassword(s, email, v) \/ CreateWithLink(s, email, v)
         \/ \E v \in PersonIds : InviteVolunteer(s, v) \/ InviteAgain(s, v)
         \/ Provision(s)
         \/ \E a \in AccountIds :
              \/ SetPassword(s, a) \/ ClearPassword(s, a) \/ ReissueInvite(s, a)
              \/ \E password \in BOOLEAN : RedeemInvite(s, a, password)
              \/ \E forApi, stretch \in BOOLEAN : SignIn(s, a, forApi, stretch)
              \/ StartOtp(s, a) \/ VerifyOtp(s, a)
              \/ \E addr \in Addresses : StartEmailChange(s, a, addr)
              \/ CancelEmailChange(s, a) \/ ConfirmEmailChange(s, a)
              \/ SetFlags(s, a)
              \/ \E v \in PersonIds \cup {Null} : SetVolunteer(s, a, v)
         \/ \E v \in PersonIds :
              \/ \E email \in Addresses \cup {Null} : UpdateVolunteer(s, v, email)
              \/ ArchiveVolunteer(s, v) \/ DeleteVolunteer(s, v)
         \/ CommitTables(s) \/ GiveUp(s)
    \/ \E l \in LinkIds : Expire(l)

AccountsSpec == AccountsInit /\ [][AccountsNext]_accountVars

-----------------------------------------------------------------------------
(* What holds while requests come one at a time.                           *)

\* Whatever an account can still be entered by is something it stands behind:
\* a change of address waits for the mailbox it names, a code was mailed to the
\* address that signs in, an API token goes with a password, and the link to
\* set the account up is the last that was mailed (users.py: "the old link dies
\* with it", "must not be spendable against the new one", "issued against a
\* password").
CredentialsMatch == \A a \in AccountIds : Backed(a, accounts[a], mailed)

\* Other than by the hand of an admin who names them, an account becomes
\* somebody's only if it was nobody's and signs in with the address they have on
\* record, and is taken from nobody but the deleted; and once a provisioning is
\* through, whoever is active and has an address signs in, or somebody else
\* signs in with it.
LoginsKeepTheirPeople ==
    [][\A s \in AccountSessions :
         desk'[s] # desk[s] /\ desk[s].op \notin {"create_for", "set_volunteer"} =>
         /\ \A a \in AccountIds :
              LET was == accounts[a].volunteer_id
                  now == accounts'[a].volunteer_id
              IN now # was =>
                   \/ was # Null /\ now = Null /\ people'[was].st = "gone"
                   \/ was = Null /\ people[now].email = accounts'[a].email
         /\ desk[s].op = "provision" /\ accounts' # accounts =>
              \A v \in PersonIds : people[v].st = "active" /\ people[v].email # Null =>
                LoginOf(accounts', v) # {}
                  \/ \E a \in At(accounts', people[v].email) :
                       accounts'[a].volunteer_id \notin {v, Null}
      ]_accountVars
=============================================================================
