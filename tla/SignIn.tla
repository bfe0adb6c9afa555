------------------------------- MODULE SignIn -------------------------------
(***************************************************************************)
(* The rate limits of the process (throttle.py, cells.py) and the doors    *)
(* that charge them: passwords, one-time codes, address changes and        *)
(* substitution calls (api/deps.py, ui/login.py, services/users.py).       *)
(*                                                                         *)
(* One process, one event loop: what happens between two awaits is a step. *)
(* A door reads the ledger, waits (for a hash, for the database), and      *)
(* charges only afterwards; what it read before the wait is kept in        *)
(* client[c].  Address changes alone are charged as they are allowed.  The *)
(* code belongs to one account.  Time is in slots.  A refusal, and a       *)
(* substitution call past its team's allowance, which goes unannounced,    *)
(* change nothing here and are left out.                                   *)
(***************************************************************************)
EXTENDS Integers, FiniteSets, Combinatorics

CONSTANTS
    Clients,        \* requests in flight at once
    Accounts,       \* each stands for its key "pw:<account>"
    Spends,         \* address changes, each its key "email-change:<user>"
    CallTeams,      \* each stands for its key "sub-req:<team>"
    Limit, Window,  \* of each key (LIMITS)
    Resend, Ttl,    \* OTP_RESEND_INTERVAL, OTP_TTL
    MaxGuesses,     \* OTP_MAX_ATTEMPTS
    MaxCodes,       \* bound: codes ever mailed
    MaxAsks,        \* bound: requests and restarts ever
    Horizon         \* bound: the last slot

Keys == Accounts \cup Spends \cup CallTeams \cup {"pw-ip", "otp-ip"}

ASSUME SignInAssumption ==
    /\ IsFiniteSet(Clients) /\ Clients # {}
    /\ Spends \cap (Accounts \cup CallTeams \cup {"pw-ip", "otp-ip"}) = {}
    /\ Accounts \cap (CallTeams \cup {"pw-ip", "otp-ip"}) = {}
    /\ CallTeams \cap {"pw-ip", "otp-ip"} = {}
    /\ Limit \in [Keys -> Nat \ {0}] /\ Window \in [Keys -> Nat \ {0}]
    /\ {Resend, Ttl, MaxGuesses, MaxCodes, MaxAsks, Horizon} \subseteq Nat

VARIABLES
    now,
    ledger,     \* the hits of each key
    charged,    \* history: every hit since the process started
    code,       \* the account's otp_ columns; id 0 when there is no code
    mailed,     \* codes mailed so far
    client,     \* what each request in flight is doing
    tries,      \* history: wrong guesses compared with each code
    asks        \* requests and restarts still to come

signVars == <<now, ledger, charged, code, mailed, client, tries, asks>>

\* A hit is known by its slot and its number among the key's; a list of hits is
\* the set of them, for nothing reads the order they came in (retry_after sorts).
Hits == [at : 0..Horizon, nth : Nat]

Codes == [id : 0..MaxCodes, sent : Int, expires : Int, attempts : Nat]

SignInRequests ==
    [op : {"idle", "password", "call", "ask", "issue", "try"},
     key : Accounts \cup CallTeams \cup {"none"},
     at : Int, read : Codes]

NoCode == [id |-> 0, sent |-> 0, expires |-> 0, attempts |-> 0]

Waiting == [op |-> "idle", key |-> "none", at |-> 0, read |-> NoCode]

SignInTypeOK ==
    /\ now \in 0..Horizon
    /\ ledger \in [Keys -> SUBSET Hits] /\ charged \in [Keys -> SUBSET Hits]
    /\ code \in Codes /\ mailed \in 0..MaxCodes
    /\ client \in [Clients -> SignInRequests]
    /\ tries \in [1..MaxCodes -> Nat]
    /\ asks \in 0..MaxAsks

NoHits == [k \in Keys |-> {}]

SignInInit ==
    /\ now = 0
    /\ ledger = NoHits /\ charged = NoHits
    /\ code = NoCode /\ mailed = 0
    /\ client = [c \in Clients |-> Waiting]
    /\ tries = [i \in 1..MaxCodes |-> 0]
    /\ asks = MaxAsks

-----------------------------------------------------------------------------
(* The arithmetic of the ledger.                                           *)

Live(k, hits, t) == {h \in hits : h.at > t - Window[k]}

Blocked(k, t) == Cardinality(Live(k, ledger[k], t)) >= Limit[k]

\* The slot of the n-th newest of the hits.
Newest(n, hits) ==
    CHOOSE s \in {h.at : h \in hits} :
        /\ Cardinality({h \in hits : h.at > s}) < n
        /\ Cardinality({h \in hits : h.at >= s}) >= n

\* Broken: waits for the oldest hit of all, which need not be the one that counts.
RetryAfterOldest(k, t) ==
    LET live == Live(k, ledger[k], t)
    IN  IF Cardinality(live) < Limit[k] THEN 0
        ELSE Newest(Cardinality(live), live) + Window[k] - t

RetryAfter(k, t) ==
    LET live == Live(k, ledger[k], t)
    IN  IF Cardinality(live) < Limit[k] THEN 0 ELSE Newest(Limit[k], live) + Window[k] - t

\* Broken: lets through what any one of the keys would let through.
AdmittedByAny(keys) == \E k \in keys : RetryAfter(k, now) <= 0

\* rate_limit: the longest wait of the keys is no wait.
Admitted(keys) == \A k \in keys : RetryAfter(k, now) <= 0

\* The ThrottleHit effects of a request, dated as they are performed; a
\* sweep comes with every 512th hit.
Charge(keys) ==
    LET hit == [k \in keys |-> [at |-> now, nth |-> Cardinality(charged[k]) + 1]]
    IN  /\ \E swept \in BOOLEAN :
            ledger' = [k \in Keys |->
                IF k \in keys THEN Live(k, ledger[k], now) \cup {hit[k]}
                ELSE IF swept THEN Live(k, ledger[k], now) ELSE ledger[k]]
        /\ charged' = [k \in Keys |->
                IF k \in keys THEN charged[k] \cup {hit[k]} ELSE charged[k]]

Counted == asks > 0 /\ asks' = asks - 1

Busy(c, r) == Counted /\ client[c] = Waiting /\ client' = [client EXCEPT ![c] = r]

Answered(c) == UNCHANGED asks /\ client' = [client EXCEPT ![c] = Waiting]

-----------------------------------------------------------------------------
(* Passwords: signing in on the page or through the API, and confirming    *)
(* the present password before it is changed.                              *)

TryPassword(c, a) ==
    /\ Admitted({a, "pw-ip"})
    /\ Busy(c, [Waiting EXCEPT !.op = "password", !.key = a])
    /\ UNCHANGED <<now, ledger, charged, code, mailed, tries>>

PasswordWrong(c) ==
    /\ client[c].op = "password"
    /\ Charge({client[c].key, "pw-ip"})
    /\ Answered(c)
    /\ UNCHANGED <<now, code, mailed, tries>>

PasswordRight(c) ==
    /\ client[c].op = "password"
    /\ Answered(c)
    /\ UNCHANGED <<now, ledger, charged, code, mailed, tries>>

-----------------------------------------------------------------------------
(* What mails others: address changes and substitution calls.              *)

\* An address change: nothing is awaited between the check and the charge.
Spend(k) ==
    /\ Admitted({k})
    /\ Charge({k})
    /\ Counted
    /\ UNCHANGED <<now, code, mailed, client, tries>>

\* The policy finds room in the team's allowance and plans the mails, inside
\* the transaction that opens the call.  Its clock was read when the request
\* came, which can only make it find more hits.
PlanCall(c, k) ==
    /\ ~Blocked(k, now)
    /\ Busy(c, [Waiting EXCEPT !.op = "call", !.key = k])
    /\ UNCHANGED <<now, ledger, charged, code, mailed, tries>>

\* The effects, after the commit was awaited: nothing is checked again.
AnnounceCall(c) ==
    /\ client[c].op = "call"
    /\ Charge({client[c].key})
    /\ Answered(c)
    /\ UNCHANGED <<now, code, mailed, tries>>

\* The commit failed: no call, no mail, no charge.
DropCall(c) ==
    /\ client[c].op = "call"
    /\ Answered(c)
    /\ UNCHANGED <<now, ledger, charged, code, mailed, tries>>

-----------------------------------------------------------------------------
(* One-time codes.                                                         *)

RequestCode(c) ==
    /\ Admitted({"otp-ip"})
    /\ Busy(c, [Waiting EXCEPT !.op = "ask", !.at = now])
    /\ UNCHANGED <<now, ledger, charged, code, mailed, tries>>

\* start_otp_login: a live code mailed moments ago is not mailed again.
JustMailed(at) == code.id # 0 /\ at - code.sent < Resend /\ code.expires > at

CodeStands(c) ==
    /\ client[c].op = "ask" /\ JustMailed(client[c].at)
    /\ Charge({"otp-ip"})
    /\ Answered(c)
    /\ UNCHANGED <<now, code, mailed, tries>>

MintCode(c) ==
    /\ client[c].op = "ask" /\ ~JustMailed(client[c].at)
    /\ client' = [client EXCEPT ![c].op = "issue", ![c].read = code]
    /\ UNCHANGED <<now, ledger, charged, code, mailed, tries, asks>>

\* The session writes the columns it changed, by primary key: a counter that
\* was 0 when it was read is not written back as 0.
CounterAfter(c) == IF client[c].read.attempts # 0 THEN 0 ELSE code.attempts

MailCode(c) ==
    /\ client[c].op = "issue" /\ mailed < MaxCodes
    /\ mailed' = mailed + 1
    /\ code' = [id |-> mailed + 1, sent |-> client[c].at, expires |-> client[c].at + Ttl,
                attempts |-> CounterAfter(c)]
    /\ Charge({"otp-ip"})
    /\ Answered(c)
    /\ UNCHANGED <<now, tries>>

TryCode(c) ==
    /\ code.id # 0 /\ code.expires > now /\ code.attempts < MaxGuesses
    /\ Busy(c, [Waiting EXCEPT !.op = "try", !.read = code])
    /\ UNCHANGED <<now, ledger, charged, code, mailed, tries>>

\* Broken: a wrong guess leaves the counter alone.
CodeWrongUncounted(c) ==
    /\ client[c].op = "try"
    /\ tries' = [tries EXCEPT ![client[c].read.id] = @ + 1]
    /\ Answered(c)
    /\ UNCHANGED <<now, ledger, charged, code, mailed>>

\* The sum of what was read and one is written, whatever has been written since.
CodeWrong(c) ==
    /\ client[c].op = "try"
    /\ code' = [code EXCEPT !.attempts = client[c].read.attempts + 1]
    /\ tries' = [tries EXCEPT ![client[c].read.id] = @ + 1]
    /\ Answered(c)
    /\ UNCHANGED <<now, ledger, charged, mailed>>

CodeRight(c) ==
    /\ client[c].op = "try"
    /\ code' = [NoCode EXCEPT !.attempts = CounterAfter(c)]
    /\ Answered(c)
    /\ UNCHANGED <<now, ledger, charged, mailed, tries>>

-----------------------------------------------------------------------------
\* A restart forgives; requests in flight are gone, the row stays.
Restart ==
    /\ Counted
    /\ ledger' = NoHits /\ charged' = NoHits
    /\ client' = [c \in Clients |-> Waiting]
    /\ UNCHANGED <<now, code, mailed, tries>>

SlotPasses ==
    /\ now < Horizon /\ now' = now + 1
    /\ UNCHANGED <<ledger, charged, code, mailed, client, tries, asks>>

SignInNext ==
    \/ \E c \in Clients :
        \/ \E a \in Accounts : TryPassword(c, a)
        \/ PasswordWrong(c) \/ PasswordRight(c)
        \/ \E k \in CallTeams : PlanCall(c, k)
        \/ AnnounceCall(c) \/ DropCall(c)
        \/ RequestCode(c) \/ CodeStands(c) \/ MintCode(c) \/ MailCode(c)
        \/ TryCode(c) \/ CodeWrong(c) \/ CodeRight(c)
    \/ \E k \in Spends : Spend(k)
    \/ Restart \/ SlotPasses

SignInSpec == SignInInit /\ [][SignInNext]_signVars

-----------------------------------------------------------------------------
(* What must hold.                                                         *)

Within(k, t) == Cardinality(Live(k, charged[k], t))

\* Requests that are checked together and charged later can overrun a limit,
\* by one less than are in flight at once and no more, however checks,
\* charges and the dropping of old hits fall.  So a team may announce that many
\* calls more than its allowance; an address change never overruns.
FloodBound ==
    \A k \in Keys :
        Within(k, now) <= Limit[k] + (IF k \in Spends THEN 0 ELSE Cardinality(Clients) - 1)

\* The wait a refusal names is neither short nor long: left alone, the key is
\* blocked up to its last slot and not after it, overrun or not.
WaitIsExact ==
    \A k \in Keys :
        LET wait == RetryAfter(k, now)
        IN /\ wait >= 0
           /\ \A t \in now..(now + wait - 1) : Blocked(k, t)
           /\ ~Blocked(k, now + wait)

\* Verifications that overlap each write the sum they made of the counter they
\* read, so that a code can take more wrong guesses than the counter's limit,
\* but never more than this, restarts and codes mailed meanwhile included.
TriesPerCodeBounded ==
    LET n == Cardinality(Clients)
    IN \A i \in 1..MaxCodes : tries[i] < choose(MaxGuesses + n, n)
=============================================================================
