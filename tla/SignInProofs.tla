---------------------------- MODULE SignInProofs ----------------------------
(***************************************************************************)
(* What TLAPS proves of SignIn, for every number of callers and accounts,  *)
(* every limit and every window: types, the flood bound, the wait and how  *)
(* many wrong guesses a code can take.                                     *)
(***************************************************************************)
EXTENDS SignIn, FiniteSetTheorems, WellFoundedInduction, TLAPS

\* The keys a request in flight has passed and will charge.
Owes(r) ==
    IF r.op = "password" THEN {r.key, "pw-ip"}
    ELSE IF r.op = "call" THEN {r.key}
    ELSE IF r.op \in {"ask", "issue"} THEN {"otp-ip"} ELSE {}

Owing(k) == {c \in Clients : k \in Owes(client[c])}

\* How far a key may be overrun.
Overrun(k) == IF k \in Spends THEN 0 ELSE Cardinality(Clients) - 1

\* A request in flight owes the key of its own door.
KeysFit ==
    \A c \in Clients :
        /\ client[c].op = "password" => client[c].key \in Accounts
        /\ client[c].op = "call" => client[c].key \in CallTeams

\* The ledger holds hits that were charged, and every one that still counts.
LedgerKnows ==
    \A k \in Keys :
        /\ IsFiniteSet(charged[k])
        /\ ledger[k] \subseteq charged[k]
        /\ Live(k, charged[k], now) \subseteq ledger[k]

\* What was charged and what is about to be are together within the bound.
RoomForThoseWhoOwe ==
    \A k \in Keys : Within(k, now) + Cardinality(Owing(k)) <= Limit[k] + Overrun(k)

\* The inductive invariant.
SignInInv ==
    /\ SignInTypeOK
    /\ KeysFit
    /\ LedgerKnows
    /\ RoomForThoseWhoOwe

-----------------------------------------------------------------------------
(* The arithmetic of the ledger.                                           *)

LEMMA SmallestNumber ==
    ASSUME NEW T, T \subseteq Nat, T # {}
    PROVE  \E x \in T : \A y \in T : x <= y
<1>1. PICK x \in T : \A y \in T : ~(<<y, x>> \in OpToRel(<, Nat))
  BY NatLessThanWellFounded, WFMin, Zenon
<1>2. \A y \in T : ~(y < x)
  BY <1>1 DEF OpToRel
<1> QED  BY <1>2

\* Some hit of a list is the oldest.
LEMMA OldestHit ==
    ASSUME NEW hits \in SUBSET Hits, hits # {}
    PROVE  \E h \in hits : \A g \in hits : h.at <= g.at
<1>1. {h.at : h \in hits} \subseteq Nat /\ {h.at : h \in hits} # {}
  BY DEF Hits
<1>2. PICK s \in {h.at : h \in hits} : \A y \in {h.at : h \in hits} : s <= y
  BY <1>1, SmallestNumber
<1> QED  BY <1>2

\* A list of n hits has an n-th newest.
LEMMA NewestExists ==
    ASSUME NEW n \in Nat \ {0}, NEW hits \in SUBSET Hits, IsFiniteSet(hits),
           Cardinality(hits) >= n
    PROVE  /\ Newest(n, hits) \in {h.at : h \in hits}
           /\ Cardinality({h \in hits : h.at > Newest(n, hits)}) < n
           /\ Cardinality({h \in hits : h.at >= Newest(n, hits)}) >= n
<1> DEFINE Since(s) == {h \in hits : h.at >= s}
           After(s) == {h \in hits : h.at > s}
           Slots == {h.at : h \in hits}
           Full == {s \in Slots : Cardinality(Since(s)) >= n}
           Distances == {Horizon - s : s \in Full}
<1>1. Horizon \in Nat /\ \A h \in hits : h.at \in 0..Horizon
  BY SignInAssumption DEF Hits
<1>2. \A s : Cardinality(After(s)) \in Nat
  <2> TAKE s
  <2>1. After(s) \in SUBSET hits
    OBVIOUS
  <2> QED  BY <2>1, FS_Subset, FS_CardinalityType
<1>3. hits # {}
  BY FS_EmptySet
<1>4. PICK oldest \in hits : \A g \in hits : oldest.at <= g.at
  BY <1>3, OldestHit
<1>5. Since(oldest.at) = hits
  BY <1>1, <1>4
<1>6. oldest.at \in Full
  BY <1>5
<1>7. Full \subseteq 0..Horizon
  BY <1>1
<1>8. \A s \in Full : Cardinality(After(s)) >= n => \E later \in Full : later > s
  <2> SUFFICES ASSUME NEW s \in Full, Cardinality(After(s)) >= n
               PROVE  \E later \in Full : later > s
    OBVIOUS
  <2>1. After(s) # {}
    BY FS_EmptySet
  <2>2. PICK y \in After(s) : \A g \in After(s) : y.at <= g.at
    BY <2>1, OldestHit
  <2>3. Since(y.at) = After(s)
    BY <1>1, <1>7, <2>2
  <2>4. y.at \in Full /\ y.at > s
    BY <2>3
  <2> QED  BY <2>4
<1> HIDE DEF Full
<1>9. \E s \in Full : \A later \in Full : ~(later > s)
  <2>1. Distances \subseteq Nat
    <3> SUFFICES ASSUME NEW s \in Full PROVE Horizon - s \in Nat
      OBVIOUS
    <3> QED  BY <1>1, <1>7
  <2>2. Distances # {}
    BY <1>6
  <2>3. PICK d \in Distances : \A e \in Distances : d <= e
    BY <2>1, <2>2, SmallestNumber
  <2>4. PICK s \in Full : d = Horizon - s
    BY <2>3
  <2>5. \A later \in Full : Horizon - later \in Distances
    OBVIOUS
  <2> HIDE DEF Distances
  <2> QED  BY <1>1, <1>7, <2>3, <2>4, <2>5
<1>10. PICK s \in Full : \A later \in Full : ~(later > s)
  BY <1>9
<1>11. ~(Cardinality(After(s)) >= n)
  BY <1>8, <1>10
<1> HIDE DEF After
<1>12. Cardinality(After(s)) < n
  BY <1>2, <1>11
<1>13. \E x \in Slots : Cardinality(After(x)) < n /\ Cardinality(Since(x)) >= n
  BY <1>10, <1>12 DEF Full
<1> QED  BY <1>13 DEF Newest, After

\* The hits of a list that still count at a slot.
LEMMA LiveFacts ==
    ASSUME NEW k, NEW hits, IsFiniteSet(hits), NEW t
    PROVE  /\ Live(k, hits, t) \subseteq hits
           /\ IsFiniteSet(Live(k, hits, t))
           /\ Cardinality(Live(k, hits, t)) \in Nat
<1>1. Live(k, hits, t) \in SUBSET hits
  BY DEF Live
<1> QED  BY <1>1, FS_Subset, FS_CardinalityType

LEMMA Bounds ==
    /\ \A k \in Keys : Limit[k] \in Nat \ {0} /\ Window[k] \in Nat \ {0}
    /\ Horizon \in Nat /\ Resend \in Nat /\ Ttl \in Nat /\ MaxCodes \in Nat /\ MaxAsks \in Nat
    /\ Cardinality(Clients) \in Nat \ {0}
<1>1. Cardinality(Clients) # 0
  BY SignInAssumption, FS_EmptySet
<1> QED  BY <1>1, SignInAssumption, FS_CardinalityType

LEMMA Types ==
    ASSUME SignInTypeOK, LedgerKnows, NEW k \in Keys
    PROVE  /\ now \in Nat
           /\ ledger[k] \in SUBSET Hits /\ charged[k] \in SUBSET Hits
           /\ IsFiniteSet(ledger[k]) /\ IsFiniteSet(charged[k])
<1>1. IsFiniteSet(charged[k]) /\ ledger[k] \in SUBSET charged[k]
  BY DEF LedgerKnows
<1>2. IsFiniteSet(ledger[k])
  BY <1>1, FS_Subset
<1> QED  BY <1>1, <1>2, Bounds DEF SignInTypeOK

\* What the wait is, blocked or not.
LEMMA WaitIsToTheSlotThatCounts ==
    ASSUME SignInTypeOK, LedgerKnows, NEW k \in Keys
    PROVE  /\ ~Blocked(k, now) => RetryAfter(k, now) = 0
           /\ Blocked(k, now) =>
                \E s \in Nat :
                    /\ s > now - Window[k]
                    /\ RetryAfter(k, now) = s + Window[k] - now
                    /\ Cardinality({h \in Live(k, ledger[k], now) : h.at > s}) < Limit[k]
                    /\ Cardinality({h \in Live(k, ledger[k], now) : h.at >= s}) >= Limit[k]
<1> DEFINE live == Live(k, ledger[k], now)
<1>1. live \in SUBSET Hits /\ IsFiniteSet(live) /\ Cardinality(live) \in Nat
  BY Types, LiveFacts
<1>2. Limit[k] \in Nat \ {0} /\ Window[k] \in Nat /\ now \in Nat
  BY Bounds, Types
<1>3. ASSUME ~Blocked(k, now)
      PROVE  RetryAfter(k, now) = 0
  BY <1>1, <1>2, <1>3 DEF Blocked, RetryAfter
<1>4. ASSUME Blocked(k, now)
      PROVE  \E s \in Nat :
                /\ s > now - Window[k]
                /\ RetryAfter(k, now) = s + Window[k] - now
                /\ Cardinality({h \in live : h.at > s}) < Limit[k]
                /\ Cardinality({h \in live : h.at >= s}) >= Limit[k]
  <2>1. Cardinality(live) >= Limit[k]
    BY <1>4 DEF Blocked
  <2>2. RetryAfter(k, now) = Newest(Limit[k], live) + Window[k] - now
    BY <1>1, <1>2, <2>1 DEF RetryAfter
  <2>3. /\ Newest(Limit[k], live) \in {h.at : h \in live}
        /\ Cardinality({h \in live : h.at > Newest(Limit[k], live)}) < Limit[k]
        /\ Cardinality({h \in live : h.at >= Newest(Limit[k], live)}) >= Limit[k]
    BY <1>1, <1>2, <2>1, NewestExists
  <2>4. PICK h \in live : Newest(Limit[k], live) = h.at
    BY <2>3
  <2>5. h.at \in Nat /\ h.at > now - Window[k]
    BY <1>1 DEF Live, Hits
  <2> HIDE DEF live
  <2> QED  BY <2>2, <2>3, <2>4, <2>5
<1> QED  BY <1>3, <1>4

\* Whoever is let through finds fewer hits than the limit.
LEMMA AdmittedIsNotBlocked ==
    ASSUME SignInTypeOK, LedgerKnows, NEW k \in Keys, RetryAfter(k, now) <= 0
    PROVE  ~Blocked(k, now)
<1> SUFFICES ASSUME Blocked(k, now) PROVE FALSE
  OBVIOUS
<1>1. PICK s \in Nat : s > now - Window[k] /\ RetryAfter(k, now) = s + Window[k] - now
  BY WaitIsToTheSlotThatCounts
<1> QED  BY <1>1, Bounds, Types

\* In every state of the right types whose ledger is right, the wait is exact.
LEMMA WaitExact ==
    ASSUME SignInTypeOK, LedgerKnows
    PROVE  WaitIsExact
<1> SUFFICES ASSUME NEW k \in Keys
             PROVE  LET wait == RetryAfter(k, now)
                    IN /\ wait >= 0
                       /\ \A t \in now..(now + wait - 1) : Blocked(k, t)
                       /\ ~Blocked(k, now + wait)
  BY DEF WaitIsExact
<1> DEFINE wait == RetryAfter(k, now)
           live == Live(k, ledger[k], now)
<1>1. Limit[k] \in Nat \ {0} /\ Window[k] \in Nat \ {0} /\ now \in Nat
  BY Bounds, Types
<1>2. live \in SUBSET Hits /\ IsFiniteSet(live) /\ ledger[k] \in SUBSET Hits
  BY Types, LiveFacts
<1>3. CASE ~Blocked(k, now)
  <2>1. wait = 0
    BY <1>3, WaitIsToTheSlotThatCounts
  <2> HIDE DEF wait
  <2>2. now + wait = now /\ now..(now + wait - 1) = {}
    BY <1>1, <2>1
  <2>3. wait >= 0 /\ (\A t \in now..(now + wait - 1) : Blocked(k, t)) /\ ~Blocked(k, now + wait)
    BY <1>3, <2>1, <2>2
  <2> QED  BY <2>3 DEF wait
<1>4. CASE Blocked(k, now)
  <2>1. PICK s \in Nat :
            /\ s > now - Window[k]
            /\ wait = s + Window[k] - now
            /\ Cardinality({h \in live : h.at > s}) < Limit[k]
            /\ Cardinality({h \in live : h.at >= s}) >= Limit[k]
    BY <1>4, WaitIsToTheSlotThatCounts
  <2> HIDE DEF wait
  <2>2. ASSUME NEW t \in now..(now + wait - 1)
        PROVE  Blocked(k, t)
    <3>1. t \in Nat /\ now <= t /\ t < s + Window[k]
      BY <1>1, <2>1
    <3>2. {h \in live : h.at >= s} \in SUBSET Live(k, ledger[k], t)
      <4> SUFFICES ASSUME NEW h \in ledger[k], h.at >= s PROVE h.at > t - Window[k]
        BY DEF Live
      <4>1. h.at \in Nat
        BY <1>2 DEF Hits
      <4> QED  BY <1>1, <3>1, <4>1
    <3>3. IsFiniteSet(Live(k, ledger[k], t)) /\ Cardinality(Live(k, ledger[k], t)) \in Nat
      BY Types, LiveFacts
    <3>4. Cardinality({h \in live : h.at >= s}) <= Cardinality(Live(k, ledger[k], t))
      BY <3>2, <3>3, FS_Subset
    <3>5. Cardinality({h \in live : h.at >= s}) \in Nat
      BY <3>2, <3>3, FS_Subset, FS_CardinalityType
    <3> HIDE DEF live
    <3> QED  BY <1>1, <2>1, <3>3, <3>4, <3>5 DEF Blocked
  <2>3. Live(k, ledger[k], now + wait) = {h \in live : h.at > s}
    <3>1. \A h \in ledger[k] : h.at \in Nat
      BY <1>2 DEF Hits
    <3>2. (now + wait) - Window[k] = s
      BY <1>1, <2>1
    <3>3. Live(k, ledger[k], now + wait) = {h \in ledger[k] : h.at > s}
      BY <3>2 DEF Live
    <3>4. \A h \in ledger[k] : h.at > s => h.at > now - Window[k]
      BY <1>1, <2>1, <3>1
    <3>5. live = {h \in ledger[k] : h.at > now - Window[k]}
      BY DEF Live
    <3>6. {h \in ledger[k] : h.at > s} = {h \in live : h.at > s}
      <4> HIDE DEF live
      <4>1. live \subseteq ledger[k]
        BY <3>5
      <4>2. \A h \in ledger[k] : h.at > s => h \in live
        BY <3>4, <3>5
      <4> QED  BY <4>1, <4>2
    <3> QED  BY <3>3, <3>6
  <2>4. Cardinality({h \in live : h.at > s}) \in Nat
    <3> HIDE DEF live
    <3>1. {h \in live : h.at > s} \in SUBSET live
      OBVIOUS
    <3> QED  BY <1>2, <3>1, FS_Subset, FS_CardinalityType
  <2>5. ~Blocked(k, now + wait)
    <3> DEFINE after == {h \in live : h.at > s}
    <3>1. Cardinality(after) \in Nat /\ Cardinality(after) < Limit[k]
      BY <2>1, <2>4
    <3>2. Live(k, ledger[k], now + wait) = after
      BY <2>3
    <3> HIDE DEF live, after
    <3>3. ~(Cardinality(after) >= Limit[k])
      BY <1>1, <3>1
    <3> QED  BY <3>2, <3>3 DEF Blocked
  <2>6. wait >= 0
    BY <1>1, <2>1
  <2> QED  BY <2>2, <2>5, <2>6 DEF wait
<1> QED  BY <1>3, <1>4

-----------------------------------------------------------------------------
(* Who owes what.                                                          *)

\* The hits that count are the same in the ledger and among all charged.
LEMMA LedgerCounts ==
    ASSUME SignInTypeOK, LedgerKnows, NEW k \in Keys
    PROVE  /\ Live(k, ledger[k], now) = Live(k, charged[k], now)
           /\ Within(k, now) \in Nat
           /\ Blocked(k, now) <=> Within(k, now) >= Limit[k]
<1>1. Live(k, ledger[k], now) = Live(k, charged[k], now)
  BY DEF LedgerKnows, Live
<1> QED  BY <1>1, Types, LiveFacts DEF Within, Blocked

LEMMA OwingFacts ==
    ASSUME NEW k
    PROVE  /\ IsFiniteSet(Owing(k))
           /\ Cardinality(Owing(k)) \in Nat
           /\ Cardinality(Owing(k)) <= Cardinality(Clients)
<1>1. Owing(k) \in SUBSET Clients
  BY DEF Owing
<1> QED  BY <1>1, SignInAssumption, FS_Subset, FS_CardinalityType

\* Nobody in flight owes a hit that is charged as it is allowed.
LEMMA NobodyOwesASpend ==
    ASSUME KeysFit, NEW k \in Spends
    PROVE  Owing(k) = {}
<1> SUFFICES ASSUME NEW c \in Clients, k \in Owes(client[c]) PROVE FALSE
  BY DEF Owing
<1>1. k \notin Accounts \cup CallTeams /\ k # "pw-ip" /\ k # "otp-ip"
  BY SignInAssumption
<1> QED  BY <1>1 DEF Owes, KeysFit

\* Answering one who owes a key takes one from those who owe it.
LEMMA AnswerSettles ==
    ASSUME SignInTypeOK, NEW c \in Clients, Answered(c), NEW k
    PROVE  Cardinality(Owing(k)') =
             Cardinality(Owing(k)) - (IF k \in Owes(client[c]) THEN 1 ELSE 0)
<1>1. \A b \in Clients : client'[b] = IF b = c THEN Waiting ELSE client[b]
  BY DEF Answered, SignInTypeOK
<1>2. k \notin Owes(Waiting)
  BY DEF Owes, Waiting
<1>3. Owing(k)' = Owing(k) \ {c}
  BY <1>1, <1>2 DEF Owing
<1>4. c \in Owing(k) <=> k \in Owes(client[c])
  BY DEF Owing
<1>5. Cardinality(Owing(k) \ {c}) =
        IF c \in Owing(k) THEN Cardinality(Owing(k)) - 1 ELSE Cardinality(Owing(k))
  BY OwingFacts, FS_RemoveElement
<1> QED  BY <1>3, <1>4, <1>5, OwingFacts

\* Who owes a key changes only with the request of one client.
LEMMA OthersOweAsBefore ==
    ASSUME SignInTypeOK, NEW c \in Clients, NEW r, NEW k,
           client' = [client EXCEPT ![c] = r],
           k \in Owes(r) <=> k \in Owes(client[c])
    PROVE  Owing(k)' = Owing(k)
<1>1. \A b \in Clients : client'[b] = IF b = c THEN r ELSE client[b]
  BY DEF SignInTypeOK
<1> QED  BY <1>1 DEF Owing

-----------------------------------------------------------------------------
(* Charging.                                                               *)

LEMMA ChargeIsRight ==
    ASSUME SignInTypeOK, LedgerKnows, NEW keys, Charge(keys), now' = now
    PROVE  /\ ledger' \in [Keys -> SUBSET Hits] /\ charged' \in [Keys -> SUBSET Hits]
           /\ LedgerKnows'
           /\ \A k \in Keys : /\ Within(k, now)' \in Nat
                              /\ Within(k, now)' <= Within(k, now)
                                                      + (IF k \in keys THEN 1 ELSE 0)
<1> DEFINE hit == [k \in keys |-> [at |-> now, nth |-> Cardinality(charged[k]) + 1]]
<1>1. PICK swept \in BOOLEAN :
        ledger' = [k \in Keys |->
            IF k \in keys THEN Live(k, ledger[k], now) \cup {hit[k]}
            ELSE IF swept THEN Live(k, ledger[k], now) ELSE ledger[k]]
  BY DEF Charge
<1>2. charged' = [k \in Keys |-> IF k \in keys THEN charged[k] \cup {hit[k]} ELSE charged[k]]
  BY DEF Charge
<1>3. \A k \in Keys : k \in keys => hit[k] \in Hits /\ hit[k].at = now
  <2> TAKE k \in Keys
  <2> HAVE k \in keys
  <2>1. Cardinality(charged[k]) \in Nat
    BY Types, FS_CardinalityType
  <2> QED  BY <2>1 DEF Hits, SignInTypeOK
<1> HIDE DEF hit
<1>4. \A k \in Keys : Live(k, ledger[k], now) \subseteq ledger[k]
  BY DEF Live
<1>5. ledger' \in [Keys -> SUBSET Hits] /\ charged' \in [Keys -> SUBSET Hits]
  <2>1. \A k \in Keys : ledger[k] \subseteq Hits /\ charged[k] \subseteq Hits
    BY DEF SignInTypeOK
  <2>2. \A k \in Keys : ledger'[k] \subseteq Hits
    BY <1>1, <1>3, <1>4, <2>1
  <2>3. \A k \in Keys : charged'[k] \subseteq Hits
    BY <1>2, <1>3, <2>1
  <2> QED  BY <1>1, <1>2, <2>2, <2>3
<1>6. ASSUME NEW k \in Keys
      PROVE  /\ IsFiniteSet(charged'[k])
             /\ ledger'[k] \subseteq charged'[k]
             /\ Live(k, charged'[k], now) \subseteq ledger'[k]
  <2>1. /\ IsFiniteSet(charged[k])
        /\ ledger[k] \subseteq charged[k]
        /\ Live(k, charged[k], now) \subseteq ledger[k]
    BY DEF LedgerKnows
  <2>2. IsFiniteSet(charged[k] \cup {hit[k]})
    BY <2>1, FS_AddElement
  <2>3. CASE k \in keys
    <3>1. charged'[k] = charged[k] \cup {hit[k]}
      BY <1>2, <2>3
    <3>2. ledger'[k] = Live(k, ledger[k], now) \cup {hit[k]}
      BY <1>1, <2>3
    <3>3. Live(k, charged[k], now) \subseteq Live(k, ledger[k], now)
      BY <2>1 DEF Live
    <3>4. Live(k, charged'[k], now) \subseteq Live(k, charged[k], now) \cup {hit[k]}
      BY <3>1 DEF Live
    <3> QED  BY <1>4, <2>1, <2>2, <3>1, <3>2, <3>3, <3>4
  <2>4. CASE k \notin keys
    <3>1. charged'[k] = charged[k]
      BY <1>2, <2>4
    <3>2. ledger'[k] = Live(k, ledger[k], now) \/ ledger'[k] = ledger[k]
      BY <1>1, <2>4
    <3>3. Live(k, charged[k], now) \subseteq Live(k, ledger[k], now)
      BY <2>1 DEF Live
    <3> QED  BY <1>4, <2>1, <3>1, <3>2, <3>3
  <2> QED  BY <2>3, <2>4
<1>7. LedgerKnows'
  BY <1>6 DEF LedgerKnows
<1>8. ASSUME NEW k \in Keys
      PROVE  /\ Within(k, now)' \in Nat
             /\ Within(k, now)' <= Within(k, now) + (IF k \in keys THEN 1 ELSE 0)
  <2> DEFINE old == Live(k, charged[k], now)
             new == Live(k, charged'[k], now)
  <2>1. IsFiniteSet(old) /\ Cardinality(old) \in Nat
    BY Types, LiveFacts
  <2>2. IsFiniteSet(new) /\ Cardinality(new) \in Nat
    BY <1>6, LiveFacts
  <2>3. Within(k, now) = Cardinality(old) /\ Within(k, now)' = Cardinality(new)
    BY DEF Within
  <2>4. CASE k \in keys
    <3>1. new \subseteq old \cup {hit[k]}
      BY <1>2, <2>4 DEF Live
    <3> HIDE DEF old, new
    <3>2. /\ IsFiniteSet(old \cup {hit[k]})
          /\ Cardinality(old \cup {hit[k]}) <= Cardinality(old) + 1
      BY <2>1, FS_AddElement
    <3>3. Cardinality(new) <= Cardinality(old \cup {hit[k]})
      BY <3>1, <3>2, FS_Subset
    <3>4. Cardinality(old \cup {hit[k]}) \in Nat
      BY <3>2, FS_CardinalityType
    <3> QED  BY <2>1, <2>2, <2>3, <2>4, <3>2, <3>3, <3>4
  <2>5. CASE k \notin keys
    <3>1. new = old
      BY <1>2, <2>5
    <3> HIDE DEF old, new
    <3> QED  BY <2>1, <2>3, <2>5, <3>1
  <2> QED  BY <2>4, <2>5
<1> QED  BY <1>5, <1>7, <1>8

-----------------------------------------------------------------------------
(* The steps.                                                              *)

LEMMA RequestTypes ==
    ASSUME SignInTypeOK, NEW c \in Clients
    PROVE  /\ client[c].op \in {"idle", "password", "call", "ask", "issue", "try"}
           /\ client[c].key \in Accounts \cup CallTeams \cup {"none"}
           /\ client[c].at \in Int
           /\ client[c].read \in Codes
           /\ client[c].read.attempts \in Nat
           /\ code.attempts \in Nat
           /\ Waiting \in SignInRequests
           /\ NoCode \in Codes
<1>1. NoCode \in Codes
  BY Bounds DEF NoCode, Codes
<1>2. Waiting \in SignInRequests
  BY <1>1 DEF Waiting, SignInRequests
<1>3. client[c] \in SignInRequests /\ code \in Codes
  BY DEF SignInTypeOK
<1>4. client[c].read \in Codes
  BY <1>3 DEF SignInRequests
<1> QED  BY <1>1, <1>2, <1>3, <1>4 DEF SignInRequests, Codes

LEMMA InitInv == SignInInit => SignInInv
<1> SUFFICES ASSUME SignInInit PROVE SignInInv
  OBVIOUS
<1>1. NoCode \in Codes /\ Waiting \in SignInRequests
  BY Bounds DEF NoCode, Codes, Waiting, SignInRequests
<1>2. SignInTypeOK
  BY <1>1, Bounds DEF SignInInit, SignInTypeOK, NoHits
<1>3. KeysFit
  BY DEF SignInInit, KeysFit, Waiting
<1>4. LedgerKnows
  BY FS_EmptySet DEF SignInInit, LedgerKnows, NoHits, Live
<1>5. RoomForThoseWhoOwe
  <2> SUFFICES ASSUME NEW k \in Keys
               PROVE  Within(k, now) + Cardinality(Owing(k)) <= Limit[k] + Overrun(k)
    BY DEF RoomForThoseWhoOwe
  <2>1. Within(k, now) = 0
    <3>1. Live(k, charged[k], now) = {}
      BY DEF SignInInit, NoHits, Live
    <3> QED  BY <3>1, FS_EmptySet DEF Within
  <2>2. Owing(k) = {}
    BY DEF Owing, Owes, SignInInit, Waiting
  <2> QED  BY <2>1, <2>2, FS_EmptySet, Bounds DEF Overrun
<1> QED  BY <1>2, <1>3, <1>4, <1>5 DEF SignInInv

\* A step that charges no key leaves the ledger right.
LEMMA LedgerUntouched ==
    ASSUME SignInTypeOK, LedgerKnows, UNCHANGED <<now, ledger, charged>>
    PROVE  /\ LedgerKnows'
           /\ \A k \in Keys : Within(k, now)' = Within(k, now)
BY DEF LedgerKnows, Live, Within

\* A step that charges no key and leaves those who owe one alone keeps the room.
LEMMA RoomUntouched ==
    ASSUME SignInTypeOK, LedgerKnows, RoomForThoseWhoOwe,
           UNCHANGED <<now, ledger, charged>>,
           \A k \in Keys : Cardinality(Owing(k)') <= Cardinality(Owing(k)),
           \A k \in Keys : Cardinality(Owing(k)') \in Nat
    PROVE  RoomForThoseWhoOwe'
<1> SUFFICES ASSUME NEW k \in Keys
             PROVE  Within(k, now)' + Cardinality(Owing(k)') <= Limit[k] + Overrun(k)
  BY DEF RoomForThoseWhoOwe, Overrun
<1>1. Within(k, now)' = Within(k, now) /\ Within(k, now) \in Nat
  BY LedgerUntouched, LedgerCounts
<1>2. Within(k, now) + Cardinality(Owing(k)) <= Limit[k] + Overrun(k)
  BY DEF RoomForThoseWhoOwe
<1>3. Limit[k] \in Nat /\ Overrun(k) \in Int
  BY Bounds DEF Overrun
<1> QED  BY <1>1, <1>2, <1>3, OwingFacts

\* Whoever is let in has found room under every key they will charge.
LEMMA AdmissionKeepsRoom ==
    ASSUME SignInInv, NEW c \in Clients, NEW r, client[c] = Waiting,
           client' = [client EXCEPT ![c] = r], UNCHANGED <<now, ledger, charged>>,
           Owes(r) \cap Spends = {}, \A k \in Owes(r) : RetryAfter(k, now) <= 0
    PROVE  RoomForThoseWhoOwe'
<1> USE DEF SignInInv
<1> SUFFICES ASSUME NEW k \in Keys
             PROVE  Within(k, now)' + Cardinality(Owing(k)') <= Limit[k] + Overrun(k)
  BY DEF RoomForThoseWhoOwe, Overrun
<1>1. Within(k, now)' = Within(k, now) /\ Within(k, now) \in Nat
  BY LedgerUntouched, LedgerCounts
<1>2. Limit[k] \in Nat \ {0} /\ Cardinality(Clients) \in Nat \ {0}
  BY Bounds
<1>3. CASE k \in Owes(r)
  <2>1. ~Blocked(k, now)
    BY <1>3, AdmittedIsNotBlocked
  <2>2. Within(k, now) < Limit[k]
    BY <1>2, <2>1, LedgerCounts
  <2>3. Cardinality(Owing(k)') \in Nat /\ Cardinality(Owing(k)') <= Cardinality(Clients)
    <3>1. Owing(k)' \in SUBSET Clients
      BY DEF Owing
    <3> QED  BY <3>1, SignInAssumption, FS_Subset, FS_CardinalityType
  <2>4. Overrun(k) = Cardinality(Clients) - 1
    BY <1>3 DEF Overrun
  <2> QED  BY <1>1, <1>2, <2>2, <2>3, <2>4
<1>4. CASE k \notin Owes(r)
  <2>1. k \notin Owes(client[c])
    BY DEF Owes, Waiting
  <2>2. Owing(k)' = Owing(k)
    BY <1>4, <2>1, OthersOweAsBefore
  <2> QED  BY <1>1, <2>2 DEF RoomForThoseWhoOwe
<1> QED  BY <1>3, <1>4

\* Whoever is answered and has charged what they owed leaves the room there was.
LEMMA SettlementKeepsRoom ==
    ASSUME SignInInv, NEW c \in Clients, Answered(c), Charge(Owes(client[c])), now' = now
    PROVE  RoomForThoseWhoOwe'
<1> USE DEF SignInInv
<1> SUFFICES ASSUME NEW k \in Keys
             PROVE  Within(k, now)' + Cardinality(Owing(k)') <= Limit[k] + Overrun(k)
  BY DEF RoomForThoseWhoOwe, Overrun
<1> DEFINE one == IF k \in Owes(client[c]) THEN 1 ELSE 0
<1>1. Within(k, now)' \in Nat /\ Within(k, now)' <= Within(k, now) + one
  BY ChargeIsRight
<1>2. Cardinality(Owing(k)') = Cardinality(Owing(k)) - one
  BY AnswerSettles
<1>3. Within(k, now) + Cardinality(Owing(k)) <= Limit[k] + Overrun(k)
  BY DEF RoomForThoseWhoOwe
<1>4. /\ Within(k, now) \in Nat /\ Cardinality(Owing(k)) \in Nat
      /\ Limit[k] + Overrun(k) \in Int /\ one \in {0, 1}
  BY LedgerCounts, OwingFacts, Bounds DEF Overrun
<1> HIDE DEF one
<1> QED  BY <1>1, <1>2, <1>3, <1>4

\* Whoever is answered and charges nothing leaves no less room.
LEMMA AnswerKeepsRoom ==
    ASSUME SignInInv, NEW c \in Clients, Answered(c), UNCHANGED <<now, ledger, charged>>
    PROVE  LedgerKnows' /\ RoomForThoseWhoOwe'
<1> USE DEF SignInInv
<1>1. ASSUME NEW k \in Keys
      PROVE  Cardinality(Owing(k)') <= Cardinality(Owing(k)) /\ Cardinality(Owing(k)') \in Nat
  <2>1. Cardinality(Owing(k)') = Cardinality(Owing(k)) - (IF k \in Owes(client[c]) THEN 1 ELSE 0)
    BY AnswerSettles
  <2>2. Cardinality(Owing(k)) \in Nat
    BY OwingFacts
  <2>3. Cardinality(Owing(k)') \in Nat
    <3>1. Owing(k)' \in SUBSET Clients
      BY DEF Owing
    <3> QED  BY <3>1, SignInAssumption, FS_Subset, FS_CardinalityType
  <2> QED  BY <2>1, <2>2, <2>3
<1> QED  BY <1>1, LedgerUntouched, RoomUntouched

\* What an answer does to the requests in flight.
LEMMA AnswerIsTyped ==
    ASSUME SignInInv, NEW c \in Clients, Answered(c)
    PROVE  /\ client' \in [Clients -> SignInRequests]
           /\ asks' \in 0..MaxAsks
           /\ KeysFit'
<1> USE DEF SignInInv
<1>1. client' = [client EXCEPT ![c] = Waiting] /\ asks' = asks
  BY DEF Answered
<1>2. Waiting \in SignInRequests /\ Waiting.op = "idle"
  BY RequestTypes DEF Waiting
<1> QED  BY <1>1, <1>2 DEF SignInTypeOK, KeysFit

LEMMA TryPasswordInv ==
    ASSUME SignInInv, NEW c \in Clients, NEW a \in Accounts, TryPassword(c, a)
    PROVE  SignInInv'
<1> DEFINE r == [Waiting EXCEPT !.op = "password", !.key = a]
<1> USE DEF SignInInv
<1>1. /\ client' = [client EXCEPT ![c] = r] /\ client[c] = Waiting
      /\ asks > 0 /\ asks' = asks - 1
      /\ UNCHANGED <<now, ledger, charged, code, mailed, tries>>
      /\ \A k \in {a, "pw-ip"} : RetryAfter(k, now) <= 0
  BY DEF TryPassword, Busy, Counted, Admitted
<1>2. r \in SignInRequests /\ r.op = "password" /\ r.key = a
  BY RequestTypes DEF Waiting, SignInRequests
<1> HIDE DEF r
<1>3. Owes(r) = {a, "pw-ip"} /\ Owes(r) \cap Spends = {}
  BY <1>2, SignInAssumption DEF Owes
<1>4. SignInTypeOK'
  BY <1>1, <1>2, Bounds DEF SignInTypeOK
<1>5. KeysFit'
  BY <1>1, <1>2 DEF KeysFit, SignInTypeOK
<1>6. LedgerKnows'
  BY <1>1, LedgerUntouched
<1>7. RoomForThoseWhoOwe'
  BY <1>1, <1>3, AdmissionKeepsRoom
<1> QED  BY <1>4, <1>5, <1>6, <1>7

LEMMA PlanCallInv ==
    ASSUME SignInInv, NEW c \in Clients, NEW k \in CallTeams, PlanCall(c, k)
    PROVE  SignInInv'
<1> DEFINE r == [Waiting EXCEPT !.op = "call", !.key = k]
<1> USE DEF SignInInv
<1>1. /\ client' = [client EXCEPT ![c] = r] /\ client[c] = Waiting
      /\ asks > 0 /\ asks' = asks - 1
      /\ UNCHANGED <<now, ledger, charged, code, mailed, tries>>
      /\ ~Blocked(k, now)
  BY DEF PlanCall, Busy, Counted
<1>2. r \in SignInRequests /\ r.op = "call" /\ r.key = k
  BY RequestTypes DEF Waiting, SignInRequests
<1> HIDE DEF r
<1>3. Owes(r) = {k} /\ Owes(r) \cap Spends = {}
  BY <1>2, SignInAssumption DEF Owes
<1>4. SignInTypeOK'
  BY <1>1, <1>2, Bounds DEF SignInTypeOK
<1>5. KeysFit'
  BY <1>1, <1>2 DEF KeysFit, SignInTypeOK
<1>6. LedgerKnows'
  BY <1>1, LedgerUntouched
<1>7. RetryAfter(k, now) = 0
  BY <1>1, WaitIsToTheSlotThatCounts DEF Keys
<1>8. \A key \in Owes(r) : RetryAfter(key, now) <= 0
  BY <1>3, <1>7
<1>9. RoomForThoseWhoOwe'
  BY <1>1, <1>3, <1>8, AdmissionKeepsRoom
<1> QED  BY <1>4, <1>5, <1>6, <1>9

LEMMA RequestCodeInv ==
    ASSUME SignInInv, NEW c \in Clients, RequestCode(c)
    PROVE  SignInInv'
<1> DEFINE r == [Waiting EXCEPT !.op = "ask", !.at = now]
<1> USE DEF SignInInv
<1>1. /\ client' = [client EXCEPT ![c] = r] /\ client[c] = Waiting
      /\ asks > 0 /\ asks' = asks - 1
      /\ UNCHANGED <<now, ledger, charged, code, mailed, tries>>
      /\ RetryAfter("otp-ip", now) <= 0
  BY DEF RequestCode, Busy, Counted, Admitted
<1>2. r \in SignInRequests /\ r.op = "ask"
  <2>1. now \in Int
    BY Bounds DEF SignInTypeOK
  <2> QED  BY <2>1, RequestTypes DEF Waiting, SignInRequests
<1> HIDE DEF r
<1>3. Owes(r) = {"otp-ip"} /\ Owes(r) \cap Spends = {}
  BY <1>2, SignInAssumption DEF Owes
<1>4. SignInTypeOK'
  BY <1>1, <1>2, Bounds DEF SignInTypeOK
<1>5. KeysFit'
  BY <1>1, <1>2 DEF KeysFit, SignInTypeOK
<1>6. LedgerKnows'
  BY <1>1, LedgerUntouched
<1>7. RoomForThoseWhoOwe'
  BY <1>1, <1>3, AdmissionKeepsRoom
<1> QED  BY <1>4, <1>5, <1>6, <1>7

LEMMA PasswordWrongInv ==
    ASSUME SignInInv, NEW c \in Clients, PasswordWrong(c)
    PROVE  SignInInv'
<1> USE DEF SignInInv
<1>1. /\ Charge(Owes(client[c])) /\ Answered(c)
      /\ UNCHANGED <<now, code, mailed, tries>>
  BY DEF PasswordWrong, Owes
<1>2. LedgerKnows' /\ ledger' \in [Keys -> SUBSET Hits] /\ charged' \in [Keys -> SUBSET Hits]
  BY <1>1, ChargeIsRight
<1>3. SignInTypeOK' /\ KeysFit'
  BY <1>1, <1>2, AnswerIsTyped DEF SignInTypeOK
<1>4. RoomForThoseWhoOwe'
  BY <1>1, SettlementKeepsRoom
<1> QED  BY <1>2, <1>3, <1>4

LEMMA AnnounceCallInv ==
    ASSUME SignInInv, NEW c \in Clients, AnnounceCall(c)
    PROVE  SignInInv'
<1> USE DEF SignInInv
<1>1. /\ Charge(Owes(client[c])) /\ Answered(c)
      /\ UNCHANGED <<now, code, mailed, tries>>
  BY DEF AnnounceCall, Owes
<1>2. LedgerKnows' /\ ledger' \in [Keys -> SUBSET Hits] /\ charged' \in [Keys -> SUBSET Hits]
  BY <1>1, ChargeIsRight
<1>3. SignInTypeOK' /\ KeysFit'
  BY <1>1, <1>2, AnswerIsTyped DEF SignInTypeOK
<1>4. RoomForThoseWhoOwe'
  BY <1>1, SettlementKeepsRoom
<1> QED  BY <1>2, <1>3, <1>4

LEMMA CodeStandsInv ==
    ASSUME SignInInv, NEW c \in Clients, CodeStands(c)
    PROVE  SignInInv'
<1> USE DEF SignInInv
<1>1. /\ Charge(Owes(client[c])) /\ Answered(c)
      /\ UNCHANGED <<now, code, mailed, tries>>
  BY DEF CodeStands, Owes
<1>2. LedgerKnows' /\ ledger' \in [Keys -> SUBSET Hits] /\ charged' \in [Keys -> SUBSET Hits]
  BY <1>1, ChargeIsRight
<1>3. SignInTypeOK' /\ KeysFit'
  BY <1>1, <1>2, AnswerIsTyped DEF SignInTypeOK
<1>4. RoomForThoseWhoOwe'
  BY <1>1, SettlementKeepsRoom
<1> QED  BY <1>2, <1>3, <1>4

LEMMA MailCodeInv ==
    ASSUME SignInInv, NEW c \in Clients, MailCode(c)
    PROVE  SignInInv'
<1> USE DEF SignInInv
<1>1. /\ Charge(Owes(client[c])) /\ Answered(c) /\ now' = now /\ tries' = tries
      /\ mailed < MaxCodes /\ mailed' = mailed + 1
      /\ code' = [id |-> mailed + 1, sent |-> client[c].at, expires |-> client[c].at + Ttl,
                  attempts |-> CounterAfter(c)]
  BY DEF MailCode, Owes
<1>2. LedgerKnows' /\ ledger' \in [Keys -> SUBSET Hits] /\ charged' \in [Keys -> SUBSET Hits]
  BY <1>1, ChargeIsRight
<1>3. CounterAfter(c) \in Nat
  BY RequestTypes DEF CounterAfter
<1>4. mailed' \in 0..MaxCodes
  BY <1>1, Bounds DEF SignInTypeOK
<1>5. code' \in Codes
  BY <1>1, <1>3, <1>4, RequestTypes, Bounds DEF Codes
<1>6. SignInTypeOK' /\ KeysFit'
  BY <1>1, <1>2, <1>4, <1>5, AnswerIsTyped DEF SignInTypeOK
<1>7. RoomForThoseWhoOwe'
  BY <1>1, SettlementKeepsRoom
<1> QED  BY <1>2, <1>6, <1>7

\* A right password and a call whose commit failed charge nothing.
LEMMA ForgivenInv ==
    ASSUME SignInInv, NEW c \in Clients, PasswordRight(c) \/ DropCall(c)
    PROVE  SignInInv'
<1> USE DEF SignInInv
<1>1. Answered(c) /\ UNCHANGED <<now, ledger, charged, code, mailed, tries>>
  BY DEF PasswordRight, DropCall
<1>2. SignInTypeOK' /\ KeysFit'
  BY <1>1, AnswerIsTyped DEF SignInTypeOK
<1> QED  BY <1>1, <1>2, AnswerKeepsRoom

LEMMA CodeWrongInv ==
    ASSUME SignInInv, NEW c \in Clients, CodeWrong(c)
    PROVE  SignInInv'
<1> USE DEF SignInInv
<1>1. /\ Answered(c) /\ UNCHANGED <<now, ledger, charged, mailed>>
      /\ code' = [code EXCEPT !.attempts = client[c].read.attempts + 1]
      /\ tries' = [tries EXCEPT ![client[c].read.id] = @ + 1]
  BY DEF CodeWrong
<1>2. code' \in Codes
  <2>1. client[c].read.attempts + 1 \in Nat
    BY RequestTypes
  <2> QED  BY <1>1, <2>1 DEF SignInTypeOK, Codes
<1>3. tries' \in [1..MaxCodes -> Nat]
  <2> DEFINE i == client[c].read.id
  <2>1. tries \in [1..MaxCodes -> Nat] /\ tries' = [tries EXCEPT ![i] = @ + 1]
    BY <1>1 DEF SignInTypeOK
  <2> HIDE DEF i
  <2>2. i \in 1..MaxCodes => tries[i] + 1 \in Nat
    BY <2>1
  <2> QED  BY <2>1, <2>2
<1>4. SignInTypeOK' /\ KeysFit'
  BY <1>1, <1>2, <1>3, AnswerIsTyped DEF SignInTypeOK
<1> QED  BY <1>1, <1>4, AnswerKeepsRoom

LEMMA CodeRightInv ==
    ASSUME SignInInv, NEW c \in Clients, CodeRight(c)
    PROVE  SignInInv'
<1> USE DEF SignInInv
<1>1. /\ Answered(c) /\ UNCHANGED <<now, ledger, charged, mailed, tries>>
      /\ code' = [NoCode EXCEPT !.attempts = CounterAfter(c)]
  BY DEF CodeRight
<1>2. CounterAfter(c) \in Nat
  BY RequestTypes DEF CounterAfter
<1>3. code' \in Codes
  BY <1>1, <1>2, RequestTypes DEF Codes, NoCode
<1>4. SignInTypeOK' /\ KeysFit'
  BY <1>1, <1>3, AnswerIsTyped DEF SignInTypeOK
<1> QED  BY <1>1, <1>4, AnswerKeepsRoom

LEMMA MintCodeInv ==
    ASSUME SignInInv, NEW c \in Clients, MintCode(c)
    PROVE  SignInInv'
<1> DEFINE r == [client[c] EXCEPT !.op = "issue", !.read = code]
<1> USE DEF SignInInv
<1>1. /\ client[c].op = "ask" /\ client' = [client EXCEPT ![c] = r]
      /\ UNCHANGED <<now, ledger, charged, code, mailed, tries, asks>>
  BY DEF MintCode, SignInTypeOK
<1>2. r \in SignInRequests /\ r.op = "issue"
  BY DEF SignInTypeOK, SignInRequests
<1> HIDE DEF r
<1>3. SignInTypeOK'
  BY <1>1, <1>2 DEF SignInTypeOK
<1>4. KeysFit'
  BY <1>1, <1>2 DEF KeysFit, SignInTypeOK
<1>5. \A k \in Keys : Owing(k)' = Owing(k)
  BY <1>1, <1>2, OthersOweAsBefore DEF Owes
<1>6. LedgerKnows' /\ RoomForThoseWhoOwe'
  BY <1>1, <1>5, LedgerUntouched DEF RoomForThoseWhoOwe, Overrun
<1> QED  BY <1>3, <1>4, <1>6

LEMMA TryCodeInv ==
    ASSUME SignInInv, NEW c \in Clients, TryCode(c)
    PROVE  SignInInv'
<1> DEFINE r == [Waiting EXCEPT !.op = "try", !.read = code]
<1> USE DEF SignInInv
<1>1. /\ client[c] = Waiting /\ client' = [client EXCEPT ![c] = r]
      /\ asks > 0 /\ asks' = asks - 1
      /\ UNCHANGED <<now, ledger, charged, code, mailed, tries>>
  BY DEF TryCode, Busy, Counted
<1>2. r \in SignInRequests /\ r.op = "try"
  BY RequestTypes DEF SignInTypeOK, SignInRequests, Waiting
<1> HIDE DEF r
<1>3. SignInTypeOK'
  BY <1>1, <1>2, Bounds DEF SignInTypeOK
<1>4. KeysFit'
  BY <1>1, <1>2 DEF KeysFit, SignInTypeOK
<1>5. ASSUME NEW k \in Keys PROVE Owing(k)' = Owing(k)
  <2>1. k \notin Owes(r) /\ k \notin Owes(client[c])
    BY <1>1, <1>2 DEF Owes, Waiting
  <2> QED  BY <1>1, <2>1, OthersOweAsBefore
<1>6. LedgerKnows' /\ RoomForThoseWhoOwe'
  BY <1>1, <1>5, LedgerUntouched DEF RoomForThoseWhoOwe, Overrun
<1> QED  BY <1>3, <1>4, <1>6

LEMMA SpendInv ==
    ASSUME SignInInv, NEW key \in Spends, Spend(key)
    PROVE  SignInInv'
<1> USE DEF SignInInv
<1>1. /\ RetryAfter(key, now) <= 0 /\ Charge({key})
      /\ asks > 0 /\ asks' = asks - 1
      /\ UNCHANGED <<now, code, mailed, client, tries>>
  BY DEF Spend, Admitted, Counted
<1>2. LedgerKnows' /\ ledger' \in [Keys -> SUBSET Hits] /\ charged' \in [Keys -> SUBSET Hits]
  BY <1>1, ChargeIsRight
<1>3. SignInTypeOK' /\ KeysFit'
  BY <1>1, <1>2, Bounds DEF SignInTypeOK, KeysFit
<1>4. RoomForThoseWhoOwe'
  <2> SUFFICES ASSUME NEW k \in Keys
               PROVE  Within(k, now)' + Cardinality(Owing(k)') <= Limit[k] + Overrun(k)
    BY DEF RoomForThoseWhoOwe, Overrun
  <2>1. /\ Within(k, now)' \in Nat
        /\ Within(k, now)' <= Within(k, now) + (IF k \in {key} THEN 1 ELSE 0)
    BY <1>1, ChargeIsRight
  <2>2. Owing(k)' = Owing(k)
    BY <1>1 DEF Owing
  <2>3. /\ Within(k, now) \in Nat /\ Cardinality(Owing(k)) \in Nat
        /\ Limit[k] \in Nat \ {0} /\ Overrun(k) \in Int
    BY LedgerCounts, OwingFacts, Bounds DEF Overrun
  <2>4. CASE k = key
    <3>1. ~Blocked(k, now)
      BY <1>1, <2>4, AdmittedIsNotBlocked
    <3>2. Within(k, now) < Limit[k]
      BY <2>3, <3>1, LedgerCounts
    <3>3. Cardinality(Owing(k)) = 0 /\ Overrun(k) = 0
      BY <2>4, NobodyOwesASpend, FS_EmptySet DEF Overrun
    <3> QED  BY <2>1, <2>2, <2>3, <2>4, <3>2, <3>3
  <2>5. CASE k # key
    <3>1. Within(k, now) + Cardinality(Owing(k)) <= Limit[k] + Overrun(k)
      BY DEF RoomForThoseWhoOwe
    <3> QED  BY <2>1, <2>2, <2>3, <2>5, <3>1
  <2> QED  BY <2>4, <2>5
<1> QED  BY <1>2, <1>3, <1>4

LEMMA RestartInv ==
    ASSUME SignInInv, Restart
    PROVE  SignInInv'
<1> USE DEF SignInInv
<1>1. /\ ledger' = NoHits /\ charged' = NoHits
      /\ client' = [c \in Clients |-> Waiting]
      /\ asks > 0 /\ asks' = asks - 1
      /\ UNCHANGED <<now, code, mailed, tries>>
  BY DEF Restart, Counted
<1>2. Waiting \in SignInRequests /\ Waiting.op = "idle"
  BY Bounds DEF NoCode, Codes, Waiting, SignInRequests
<1>3. SignInTypeOK'
  BY <1>1, <1>2, Bounds DEF SignInTypeOK, NoHits
<1>4. KeysFit'
  BY <1>1, <1>2 DEF KeysFit
<1>5. LedgerKnows'
  BY <1>1, FS_EmptySet DEF LedgerKnows, NoHits, Live
<1>6. RoomForThoseWhoOwe'
  <2> SUFFICES ASSUME NEW k \in Keys
               PROVE  Within(k, now)' + Cardinality(Owing(k)') <= Limit[k] + Overrun(k)
    BY DEF RoomForThoseWhoOwe, Overrun
  <2>1. Within(k, now)' = 0
    <3>1. Live(k, charged'[k], now') = {}
      BY <1>1 DEF NoHits, Live
    <3> QED  BY <3>1, FS_EmptySet DEF Within
  <2>2. Owing(k)' = {}
    BY <1>1, <1>2 DEF Owing, Owes
  <2> QED  BY <2>1, <2>2, FS_EmptySet, Bounds DEF Overrun
<1> QED  BY <1>3, <1>4, <1>5, <1>6

LEMMA SlotPassesInv ==
    ASSUME SignInInv, SlotPasses
    PROVE  SignInInv'
<1> USE DEF SignInInv
<1>1. /\ now < Horizon /\ now' = now + 1
      /\ UNCHANGED <<ledger, charged, code, mailed, client, tries, asks>>
  BY DEF SlotPasses
<1>2. SignInTypeOK'
  BY <1>1, Bounds DEF SignInTypeOK
<1>3. KeysFit'
  BY <1>1 DEF KeysFit
<1>4. \A k \in Keys : Live(k, charged[k], now') \in SUBSET Live(k, charged[k], now)
  <2> SUFFICES ASSUME NEW k \in Keys, NEW h \in charged[k], h.at > now' - Window[k]
               PROVE  h.at > now - Window[k]
    BY DEF Live
  <2>1. h.at \in Nat /\ now \in Nat /\ Window[k] \in Nat
    BY Types, Bounds DEF Hits
  <2> QED  BY <1>1, <2>1
<1>5. LedgerKnows'
  BY <1>1, <1>4 DEF LedgerKnows
<1>6. RoomForThoseWhoOwe'
  <2> SUFFICES ASSUME NEW k \in Keys
               PROVE  Within(k, now)' + Cardinality(Owing(k)') <= Limit[k] + Overrun(k)
    BY DEF RoomForThoseWhoOwe, Overrun
  <2>1. Within(k, now)' = Cardinality(Live(k, charged[k], now'))
    BY <1>1 DEF Within
  <2>2. IsFiniteSet(Live(k, charged[k], now)) /\ Cardinality(Live(k, charged[k], now')) \in Nat
    BY Types, LiveFacts
  <2>3. Within(k, now)' <= Within(k, now)
    BY <1>4, <2>1, <2>2, FS_Subset DEF Within
  <2>4. Owing(k)' = Owing(k)
    BY <1>1 DEF Owing
  <2>5. /\ Within(k, now) \in Nat /\ Cardinality(Owing(k)) \in Nat
        /\ Limit[k] + Overrun(k) \in Int
    BY LedgerCounts, OwingFacts, Bounds DEF Overrun
  <2>6. Within(k, now) + Cardinality(Owing(k)) <= Limit[k] + Overrun(k)
    BY DEF RoomForThoseWhoOwe
  <2> QED  BY <2>1, <2>2, <2>3, <2>4, <2>5, <2>6
<1> QED  BY <1>2, <1>3, <1>5, <1>6

-----------------------------------------------------------------------------
(* The theorems.                                                           *)

LEMMA StepInv == SignInInv /\ [SignInNext]_signVars => SignInInv'
<1> SUFFICES ASSUME SignInInv, [SignInNext]_signVars PROVE SignInInv'
  OBVIOUS
<1>1. ASSUME NEW c \in Clients,
             \/ \E a \in Accounts : TryPassword(c, a)
             \/ PasswordWrong(c) \/ PasswordRight(c)
             \/ \E k \in CallTeams : PlanCall(c, k)
             \/ AnnounceCall(c) \/ DropCall(c)
             \/ RequestCode(c) \/ CodeStands(c) \/ MintCode(c) \/ MailCode(c)
             \/ TryCode(c) \/ CodeWrong(c) \/ CodeRight(c)
      PROVE  SignInInv'
  BY <1>1, TryPasswordInv, PasswordWrongInv, ForgivenInv, PlanCallInv, AnnounceCallInv,
     RequestCodeInv, CodeStandsInv, MintCodeInv, MailCodeInv, TryCodeInv, CodeWrongInv, CodeRightInv
<1>2. ASSUME NEW k \in Spends, Spend(k) PROVE SignInInv'
  BY <1>2, SpendInv
<1>3. CASE Restart
  BY <1>3, RestartInv
<1>4. CASE SlotPasses
  BY <1>4, SlotPassesInv
<1>5. CASE UNCHANGED signVars
  BY <1>5 DEF signVars, SignInInv, SignInTypeOK, KeysFit, LedgerKnows, Live,
              RoomForThoseWhoOwe, Within, Owing, Overrun
<1> QED  BY <1>1, <1>2, <1>3, <1>4, <1>5 DEF SignInNext

\* Whatever the doors, the clock and restarts do, in any order: the ledger holds
\* hits that were charged and all that still count (LedgerKnows), and with what
\* the requests in flight will charge they stay within the bound.
THEOREM SignInInvariance == SignInSpec => []SignInInv
<1> QED  BY InitInv, StepInv, PTL DEF SignInSpec

\* The state keeps its types: throttle.py, cells.py and the otp_ columns.
THEOREM SignInTypeCorrect == SignInSpec => []SignInTypeOK
<1>1. SignInInv => SignInTypeOK
  BY DEF SignInInv
<1> QED  BY <1>1, SignInInvariance, PTL

\* Checks made together and charged later overrun a limit by at most one less
\* than are in flight at once; an address change, charged as it is checked, never does.
THEOREM FloodIsBounded == SignInSpec => []FloodBound
<1>1. SignInInv => FloodBound
  <2> SUFFICES ASSUME SignInInv, NEW k \in Keys
               PROVE  Within(k, now) <= Limit[k]
                        + (IF k \in Spends THEN 0 ELSE Cardinality(Clients) - 1)
    BY DEF FloodBound
  <2>1. /\ Within(k, now) \in Nat /\ Cardinality(Owing(k)) \in Nat
        /\ Limit[k] + Overrun(k) \in Int
    BY LedgerCounts, OwingFacts, Bounds DEF SignInInv, Overrun
  <2>2. Within(k, now) + Cardinality(Owing(k)) <= Limit[k] + Overrun(k)
    BY DEF SignInInv, RoomForThoseWhoOwe
  <2>3. Within(k, now) <= Limit[k] + Overrun(k)
    BY <2>1, <2>2
  <2> QED  BY <2>3 DEF Overrun
<1> QED  BY <1>1, SignInInvariance, PTL

\* The wait retry_after names ends with the last slot in which the key is
\* blocked, and not before, for every limit and window and however the key was
\* overrun.
THEOREM WaitNamed == SignInSpec => []WaitIsExact
<1>1. SignInInv => WaitIsExact
  BY WaitExact DEF SignInInv
<1> QED  BY <1>1, SignInInvariance, PTL

-----------------------------------------------------------------------------
(* Counting.  The bound on the guesses is a binomial coefficient, and      *)
(* Combinatorics defines the factorial recursively: as the library's       *)
(* induction cannot be used, its values, and the number of shapes, are     *)
(* found by the smallest counterexample.                                   *)

LEMMA Products ==
    ASSUME NEW a \in Nat \ {0}, NEW b \in Nat \ {0}
    PROVE  a * b \in Nat \ {0}
OBVIOUS

LEMMA Quotient ==
    ASSUME NEW x \in Nat, NEW d \in Nat \ {0}
    PROVE  (x * d) \div d = x
OBVIOUS

\* The first factorials, up to n's.
Factorials(f, n) == f = [i \in 0..n |-> IF i = 0 THEN 1 ELSE i * f[i - 1]]

LEMMA FactorialsExist ==
    ASSUME NEW n \in Nat
    PROVE  \E f : Factorials(f, n)
<1> DEFINE Missing == {m \in Nat : ~ \E f : Factorials(f, m)}
<1> SUFFICES ASSUME Missing # {} PROVE FALSE
  OBVIOUS
<1>1. PICK m \in Missing : \A k \in Missing : m <= k
  <2>1. Missing \subseteq Nat
    OBVIOUS
  <2> QED  BY <2>1, SmallestNumber
<1>2. CASE m = 0
  <2> DEFINE f == [i \in 0..0 |-> 1]
  <2>1. f = [i \in 0..0 |-> IF i = 0 THEN 1 ELSE i * f[i - 1]]
    OBVIOUS
  <2> HIDE DEF f
  <2> QED  BY <1>2, <2>1 DEF Factorials
<1>3. CASE m # 0
  <2>1. m \in Nat /\ m - 1 \in Nat /\ ~(m <= m - 1)
    BY <1>3
  <2>2. PICK f : Factorials(f, m - 1)
    BY <1>1, <2>1
  <2> DEFINE h == [i \in 0..m |-> IF i = m THEN m * f[m - 1] ELSE f[i]]
  <2>3. \A i \in 0..(m - 1) : f[i] = IF i = 0 THEN 1 ELSE i * f[i - 1]
    BY <2>2 DEF Factorials
  <2>4. \A i \in 0..m : h[i] = IF i = 0 THEN 1 ELSE i * h[i - 1]
    <3> TAKE i \in 0..m
    <3>1. CASE i = m
      <4>1. h[i] = m * f[m - 1]
        BY <3>1
      <4>2. i # 0 /\ h[i - 1] = f[m - 1]
        BY <2>1, <3>1
      <4> HIDE DEF h
      <4> QED  BY <3>1, <4>1, <4>2
    <3>2. CASE i # m
      <4>1. i \in 0..(m - 1) /\ h[i] = f[i]
        BY <2>1, <3>2
      <4>2. i # 0 => h[i - 1] = f[i - 1]
        BY <2>1, <3>2
      <4> HIDE DEF h
      <4> QED  BY <2>3, <4>1, <4>2
    <3> QED  BY <3>1, <3>2
  <2>5. h = [i \in 0..m |-> h[i]]
    OBVIOUS
  <2> HIDE DEF h
  <2>6. [i \in 0..m |-> h[i]] = [i \in 0..m |-> IF i = 0 THEN 1 ELSE i * h[i - 1]]
    BY <2>4, Zenon
  <2>7. Factorials(h, m)
    BY <2>5, <2>6 DEF Factorials
  <2> QED  BY <2>7
<1> QED  BY <1>2, <1>3

LEMMA FactorialsAgree ==
    ASSUME NEW n \in Nat, NEW m \in 0..n, NEW f, NEW h, Factorials(f, n), Factorials(h, m)
    PROVE  f[m] = h[m]
<1> DEFINE Differ == {i \in 0..m : f[i] # h[i]}
<1>1. \A i \in 0..m : /\ f[i] = IF i = 0 THEN 1 ELSE i * f[i - 1]
                      /\ h[i] = IF i = 0 THEN 1 ELSE i * h[i - 1]
  BY DEF Factorials
<1>2. SUFFICES ASSUME Differ # {} PROVE FALSE
  OBVIOUS
<1>3. PICK i \in Differ : \A k \in Differ : i <= k
  <2>1. Differ \subseteq Nat
    OBVIOUS
  <2> QED  BY <1>2, <2>1, SmallestNumber
<1>4. i # 0
  BY <1>1
<1>5. i - 1 \in 0..m /\ ~(i <= i - 1)
  BY <1>4
<1>6. f[i - 1] = h[i - 1]
  BY <1>3, <1>5
<1>7. f[i] = i * f[i - 1] /\ h[i] = i * h[i - 1]
  BY <1>1, <1>4
<1> QED  BY <1>6, <1>7

\* The factorial of Combinatorics is what its definition says.
LEMMA FactorialFacts ==
    /\ factorial[0] = 1
    /\ \A n \in Nat : factorial[n] \in Nat \ {0} /\ factorial[n + 1] = (n + 1) * factorial[n]
<1> DEFINE Is(f) == f = [n \in Nat |-> IF n = 0 THEN 1 ELSE n * f[n - 1]]
           first(n) == CHOOSE f : Factorials(f, n)
           all == [n \in Nat |-> first(n)[n]]
<1>1. \A n \in Nat : Factorials(first(n), n)
  BY FactorialsExist
<1>2. \A n \in Nat : all[n] = IF n = 0 THEN 1 ELSE n * all[n - 1]
  <2> TAKE n \in Nat
  <2>1. all[n] = first(n)[n] /\ n \in 0..n
    OBVIOUS
  <2>2. first(n)[n] = IF n = 0 THEN 1 ELSE n * first(n)[n - 1]
    <3> HIDE DEF first
    <3> QED  BY <1>1 DEF Factorials
  <2>3. CASE n = 0
    BY <2>1, <2>2, <2>3
  <2>4. CASE n # 0
    <3>1. n - 1 \in Nat /\ n - 1 \in 0..n
      BY <2>4
    <3>2. first(n)[n - 1] = first(n - 1)[n - 1]
      <4> HIDE DEF first
      <4> QED  BY <1>1, <3>1, FactorialsAgree
    <3>3. all[n - 1] = first(n - 1)[n - 1]
      BY <3>1
    <3> HIDE DEF first, all
    <3> QED  BY <2>1, <2>2, <2>4, <3>2, <3>3
  <2> QED  BY <2>3, <2>4
<1>3. all = [n \in Nat |-> all[n]]
  OBVIOUS
<1> HIDE DEF all
<1>4. [n \in Nat |-> all[n]] = [n \in Nat |-> IF n = 0 THEN 1 ELSE n * all[n - 1]]
  BY <1>2, Zenon
<1>5. Is(all)
  BY <1>3, <1>4
<1>6. Is(CHOOSE f : Is(f))
  BY <1>5, Zenon
<1>7. factorial = CHOOSE f : Is(f)
  BY DEF factorial
<1>8. Is(factorial)
  BY <1>6, <1>7, Zenon
<1>9. \A n \in Nat : factorial[n] = IF n = 0 THEN 1 ELSE n * factorial[n - 1]
  BY <1>8
<1>10. \A n \in Nat : factorial[n + 1] = (n + 1) * factorial[n]
  <2> TAKE n \in Nat
  <2>1. n + 1 \in Nat /\ n + 1 # 0 /\ (n + 1) - 1 = n
    OBVIOUS
  <2> QED  BY <1>9, <2>1
<1> DEFINE Wrong == {n \in Nat : factorial[n] \notin Nat \ {0}}
<1>11. ASSUME Wrong # {} PROVE FALSE
  <2>1. PICK n \in Wrong : \A k \in Wrong : n <= k
    <3>1. Wrong \subseteq Nat
      OBVIOUS
    <3> QED  BY <1>11, <3>1, SmallestNumber
  <2>2. n # 0
    BY <1>9
  <2>3. n - 1 \in Nat /\ ~(n <= n - 1) /\ n \in Nat \ {0}
    BY <2>2
  <2>4. factorial[n - 1] \in Nat \ {0}
    BY <2>1, <2>3
  <2>5. n * factorial[n - 1] \in Nat \ {0}
    BY <2>3, <2>4, Products
  <2>6. factorial[n] = n * factorial[n - 1]
    BY <1>9, <2>2
  <2> QED  BY <2>5, <2>6
<1> QED  BY <1>9, <1>10, <1>11

\* How many of n callers may have got as far as each of m guesses: no more at
\* a later one than at an earlier.
Shapes(m, n) ==
    {f \in [1..m -> 0..n] : \A x, y \in 1..m : x <= y => f[x] >= f[y]}

\* The shapes of m and n are as many as the ways to choose n of m + n.
CountIsRight(m, n) ==
    /\ IsFiniteSet(Shapes(m, n))
    /\ Cardinality(Shapes(m, n)) * (factorial[n] * factorial[m]) = factorial[m + n]

\* With no guess, or no caller, there is one shape.
LEMMA OneShape ==
    ASSUME NEW m \in Nat, NEW n \in Nat, m = 0 \/ n = 0
    PROVE  CountIsRight(m, n)
<1> DEFINE f == [x \in 1..m |-> 0]
<1>1. Shapes(m, n) = {f}
  <2>1. f \in Shapes(m, n)
    BY DEF Shapes
  <2>2. ASSUME NEW g \in Shapes(m, n) PROVE g = f
    <3>1. g \in [1..m -> 0..n]
      BY DEF Shapes
    <3>2. \A x \in 1..m : g[x] = 0
      BY <3>1
    <3> QED  BY <3>1, <3>2
  <2> HIDE DEF f
  <2> QED  BY <2>1, <2>2
<1>2. IsFiniteSet(Shapes(m, n)) /\ Cardinality(Shapes(m, n)) = 1
  BY <1>1, FS_Singleton
<1>3. factorial[0] = 1 /\ factorial[m] \in Nat /\ factorial[n] \in Nat
  BY FactorialFacts
<1>4. CASE m = 0
  <2>1. m + n = n /\ factorial[n] * factorial[m] = factorial[n]
    BY <1>3, <1>4
  <2> QED  BY <1>2, <1>3, <2>1 DEF CountIsRight
<1>5. CASE n = 0
  <2>1. m + n = m /\ factorial[n] * factorial[m] = factorial[m]
    BY <1>3, <1>5
  <2> QED  BY <1>2, <1>3, <2>1 DEF CountIsRight
<1> QED  BY <1>4, <1>5

\* Those that end with nobody at the last guess are the shapes of one guess less.
LEMMA ShapesThatEndAtNone ==
    ASSUME NEW m \in Nat \ {0}, NEW n \in Nat
    PROVE  ExistsBijection(Shapes(m - 1, n), {f \in Shapes(m, n) : f[m] = 0})
<1> DEFINE A == Shapes(m - 1, n)
           Z == {f \in Shapes(m, n) : f[m] = 0}
           longer(a) == [x \in 1..m |-> IF x = m THEN 0 ELSE a[x]]
           on == [a \in A |-> longer(a)]
<1>1. \A a \in A : a \in [1..(m - 1) -> 0..n] /\ \A x, y \in 1..(m - 1) : x <= y => a[x] >= a[y]
  BY DEF Shapes
<1>2. ASSUME NEW a \in A PROVE longer(a) \in Z /\ \A x \in 1..(m - 1) : longer(a)[x] = a[x]
  <2>1. \A x \in 1..m : x # m => x \in 1..(m - 1)
    OBVIOUS
  <2>2. longer(a) \in [1..m -> 0..n]
    BY <1>1, <2>1
  <2>3. \A x \in 1..m : longer(a)[x] = IF x = m THEN 0 ELSE a[x]
    OBVIOUS
  <2>4. m \in 1..m
    OBVIOUS
  <2> HIDE DEF longer
  <2>5. ASSUME NEW x \in 1..m, NEW y \in 1..m, x <= y PROVE longer(a)[x] >= longer(a)[y]
    <3>1. CASE y = m
      <4>1. longer(a)[y] = 0 /\ longer(a)[x] \in 0..n
        BY <2>2, <2>3, <3>1
      <4> QED  BY <4>1
    <3>2. CASE y # m
      <4>1. x \in 1..(m - 1) /\ y \in 1..(m - 1) /\ x # m
        BY <2>1, <2>5, <3>2
      <4> QED  BY <1>1, <2>3, <2>5, <3>2, <4>1
    <3> QED  BY <3>1, <3>2
  <2>6. longer(a) \in Shapes(m, n)
    BY <2>2, <2>5 DEF Shapes
  <2> QED  BY <2>3, <2>4, <2>6
<1>3. ASSUME NEW f \in Z PROVE \E a \in A : longer(a) = f
  <2> DEFINE a == [x \in 1..(m - 1) |-> f[x]]
  <2>1. f \in [1..m -> 0..n] /\ f[m] = 0 /\ \A x, y \in 1..m : x <= y => f[x] >= f[y]
    BY DEF Shapes
  <2>2. a \in A
    BY <2>1 DEF Shapes
  <2>3. \A x \in 1..m : f[x] = IF x = m THEN 0 ELSE a[x]
    BY <2>1
  <2> HIDE DEF a
  <2>4. longer(a) = f
    BY <2>1, <2>3
  <2> QED  BY <2>2, <2>4
<1>4. ASSUME NEW a \in A, NEW b \in A, longer(a) = longer(b) PROVE a = b
  <2>1. \A x \in 1..(m - 1) : a[x] = b[x]
    <3> HIDE DEF longer
    <3> QED  BY <1>2, <1>4
  <2> QED  BY <1>1, <2>1
<1> HIDE DEF longer, A, Z
<1>5. on \in Bijection(A, Z)
  BY <1>2, <1>3, <1>4 DEF Bijection, Injection, Surjection, IsInjective
<1> QED  BY <1>5 DEF ExistsBijection, A, Z

\* The others are the shapes of one caller less, raised by one.
LEMMA ShapesThatEndAtSome ==
    ASSUME NEW m \in Nat \ {0}, NEW n \in Nat \ {0}
    PROVE  ExistsBijection(Shapes(m, n - 1), {f \in Shapes(m, n) : f[m] # 0})
<1> DEFINE B == Shapes(m, n - 1)
           P == {f \in Shapes(m, n) : f[m] # 0}
           raised(b) == [x \in 1..m |-> b[x] + 1]
           on == [b \in B |-> raised(b)]
<1>1. \A b \in B : b \in [1..m -> 0..(n - 1)] /\ \A x, y \in 1..m : x <= y => b[x] >= b[y]
  BY DEF Shapes
<1>2. ASSUME NEW b \in B PROVE raised(b) \in P /\ \A x \in 1..m : raised(b)[x] = b[x] + 1
  <2>1. \A x \in 1..m : b[x] \in 0..(n - 1)
    BY <1>1
  <2>2. raised(b) \in [1..m -> 0..n]
    BY <2>1
  <2>3. \A x \in 1..m : raised(b)[x] = b[x] + 1
    OBVIOUS
  <2> HIDE DEF raised
  <2>4. ASSUME NEW x \in 1..m, NEW y \in 1..m, x <= y PROVE raised(b)[x] >= raised(b)[y]
    <3>1. b[x] >= b[y]
      BY <1>1, <2>4
    <3> QED  BY <2>1, <2>3, <3>1
  <2>5. raised(b)[m] # 0
    <3>1. m \in 1..m
      OBVIOUS
    <3> QED  BY <2>1, <2>3, <3>1
  <2> QED  BY <2>2, <2>3, <2>4, <2>5 DEF Shapes
<1>3. ASSUME NEW f \in P PROVE \E b \in B : raised(b) = f
  <2> DEFINE b == [x \in 1..m |-> f[x] - 1]
  <2>1. f \in [1..m -> 0..n] /\ f[m] # 0 /\ \A x, y \in 1..m : x <= y => f[x] >= f[y]
    BY DEF Shapes
  <2>2. \A x \in 1..m : f[x] \in 1..n
    <3> TAKE x \in 1..m
    <3>1. m \in 1..m /\ x <= m
      OBVIOUS
    <3>2. f[x] >= f[m] /\ f[x] \in 0..n /\ f[m] \in 0..n
      BY <2>1, <3>1
    <3> QED  BY <2>1, <3>2
  <2>3. b \in [1..m -> 0..(n - 1)]
    <3>1. \A x \in 1..m : f[x] - 1 \in 0..(n - 1)
      BY <2>2
    <3> QED  BY <3>1
  <2>4. \A x, y \in 1..m : x <= y => b[x] >= b[y]
    BY <2>1, <2>2
  <2>5. \A x \in 1..m : f[x] = b[x] + 1
    BY <2>2
  <2> HIDE DEF b
  <2>6. raised(b) = f
    BY <2>1, <2>5
  <2> QED  BY <2>3, <2>4, <2>6 DEF Shapes
<1>4. ASSUME NEW a \in B, NEW b \in B, raised(a) = raised(b) PROVE a = b
  <2>1. \A x \in 1..m : a[x] + 1 = b[x] + 1
    <3> HIDE DEF raised
    <3> QED  BY <1>2, <1>4
  <2>2. \A x \in 1..m : a[x] \in Nat /\ b[x] \in Nat
    BY <1>1
  <2>3. \A x \in 1..m : a[x] = b[x]
    BY <2>1, <2>2
  <2> QED  BY <1>1, <2>3
<1> HIDE DEF raised, B, P
<1>5. on \in Bijection(B, P)
  BY <1>2, <1>3, <1>4 DEF Bijection, Injection, Surjection, IsInjective
<1> QED  BY <1>5 DEF ExistsBijection, B, P

\* Pascal's rule, with the denominators cleared.
LEMMA PascalsRule ==
    ASSUME NEW m \in Nat, NEW n \in Nat, NEW a \in Nat, NEW b \in Nat,
           NEW fm \in Nat, NEW fn \in Nat, NEW f \in Nat,
           a * ((n * fn) * fm) = f, b * (fn * (m * fm)) = f
    PROVE  (a + b) * ((n * fn) * (m * fm)) = (m + n) * f
<1>1. (n * fn) * (m * fm) = m * ((n * fn) * fm)
  OBVIOUS
<1>2. (n * fn) * (m * fm) = n * (fn * (m * fm))
  OBVIOUS
<1> DEFINE d == (n * fn) * (m * fm)
           p == (n * fn) * fm
           q == fn * (m * fm)
<1>3. d \in Nat /\ p \in Nat /\ q \in Nat
  OBVIOUS
<1>4. d = m * p /\ d = n * q /\ a * p = f /\ b * q = f
  BY <1>1, <1>2
<1> HIDE DEF d, p, q
<1>5. a * d = m * (a * p)
  BY <1>3, <1>4
<1>6. b * d = n * (b * q)
  BY <1>3, <1>4
<1>7. (a + b) * d = m * f + n * f
  BY <1>3, <1>4, <1>5, <1>6
<1> QED  BY <1>7 DEF d

LEMMA ShapesAreCounted == \A m, n \in Nat : CountIsRight(m, n)
<1> DEFINE Miscounted == {k \in Nat : \E m, n \in Nat : m + n = k /\ ~CountIsRight(m, n)}
<1> SUFFICES ASSUME Miscounted # {} PROVE FALSE
  <2>1. \A m, n \in Nat : m + n \in Nat
    OBVIOUS
  <2> QED  BY <2>1
<1>1. PICK k \in Miscounted : \A j \in Miscounted : k <= j
  <2>1. Miscounted \subseteq Nat
    OBVIOUS
  <2> QED  BY <2>1, SmallestNumber
<1>2. PICK m \in Nat, n \in Nat : m + n = k /\ ~CountIsRight(m, n)
  BY <1>1
<1>3. m # 0 /\ n # 0
  BY <1>2, OneShape
<1>4. m - 1 \in Nat /\ n - 1 \in Nat /\ k - 1 \in Nat /\ ~(k <= k - 1)
      /\ (m - 1) + n = k - 1 /\ m + (n - 1) = k - 1 /\ (k - 1) + 1 = k
      /\ (m - 1) + 1 = m /\ (n - 1) + 1 = n
  BY <1>2, <1>3
<1>5. k - 1 \notin Miscounted
  BY <1>1, <1>4
<1>6. CountIsRight(m - 1, n) /\ CountIsRight(m, n - 1)
  BY <1>4, <1>5
<1> DEFINE Z == {f \in Shapes(m, n) : f[m] = 0}
           P == {f \in Shapes(m, n) : f[m] # 0}
           a == Cardinality(Shapes(m - 1, n))
           b == Cardinality(Shapes(m, n - 1))
<1>7. IsFiniteSet(Z) /\ Cardinality(Z) = a /\ a \in Nat
  BY <1>3, <1>6, ShapesThatEndAtNone, FS_Bijection, FS_CardinalityType DEF CountIsRight
<1>8. IsFiniteSet(P) /\ Cardinality(P) = b /\ b \in Nat
  BY <1>3, <1>6, ShapesThatEndAtSome, FS_Bijection, FS_CardinalityType DEF CountIsRight
<1>9. Shapes(m, n) = Z \cup P /\ Z \cap P = {}
  OBVIOUS
<1> HIDE DEF Z, P, a, b
<1>10. IsFiniteSet(Shapes(m, n)) /\ Cardinality(Shapes(m, n)) = a + b
  <2>1. IsFiniteSet(Z \cup P)
        /\ Cardinality(Z \cup P) = Cardinality(Z) + Cardinality(P) - Cardinality(Z \cap P)
    BY <1>7, <1>8, FS_Union
  <2>2. Cardinality(Z \cap P) = 0
    BY <1>9, FS_EmptySet
  <2> QED  BY <1>7, <1>8, <1>9, <2>1, <2>2
<1>11. /\ a * (factorial[n] * factorial[m - 1]) = factorial[k - 1]
       /\ b * (factorial[n - 1] * factorial[m]) = factorial[k - 1]
  BY <1>4, <1>6 DEF CountIsRight, a, b
<1>12. /\ factorial[n - 1] \in Nat /\ factorial[m - 1] \in Nat /\ factorial[k - 1] \in Nat
       /\ factorial[n] = n * factorial[n - 1] /\ factorial[m] = m * factorial[m - 1]
       /\ factorial[k] = k * factorial[k - 1]
  BY <1>4, FactorialFacts
<1>13. (a + b) * (factorial[n] * factorial[m]) = factorial[k]
  <2> DEFINE fn == factorial[n - 1]
             fm == factorial[m - 1]
             f == factorial[k - 1]
  <2>1. fn \in Nat /\ fm \in Nat /\ f \in Nat
    BY <1>12
  <2>2. a * ((n * fn) * fm) = f /\ b * (fn * (m * fm)) = f
    BY <1>11, <1>12
  <2>3. factorial[n] = n * fn /\ factorial[m] = m * fm /\ factorial[k] = (m + n) * f
    BY <1>2, <1>12
  <2> HIDE DEF fn, fm, f
  <2>4. (a + b) * ((n * fn) * (m * fm)) = (m + n) * f
    BY <1>7, <1>8, <2>1, <2>2, PascalsRule
  <2> QED  BY <2>3, <2>4
<1>14. CountIsRight(m, n)
  BY <1>2, <1>10, <1>13 DEF CountIsRight
<1> QED  BY <1>2, <1>14

\* The shapes of m and n are choose(m + n, n).
LEMMA ShapesAreChosen ==
    ASSUME NEW m \in Nat, NEW n \in Nat
    PROVE  IsFiniteSet(Shapes(m, n)) /\ Cardinality(Shapes(m, n)) = choose(m + n, n)
<1> DEFINE d == factorial[n] * factorial[m]
           s == Cardinality(Shapes(m, n))
<1>1. IsFiniteSet(Shapes(m, n)) /\ s \in Nat /\ s * d = factorial[m + n]
  BY ShapesAreCounted, FS_CardinalityType DEF CountIsRight
<1>2. d \in Nat \ {0}
  BY FactorialFacts, Products
<1>3. (m + n) - n = m
  OBVIOUS
<1>4. choose(m + n, n) = factorial[m + n] \div d
  BY <1>3 DEF choose
<1> HIDE DEF d, s
<1>5. (s * d) \div d = s
  BY <1>1, <1>2, Quotient
<1> QED  BY <1>1, <1>4, <1>5 DEF s

\* The order in which the shapes can follow one another: at the first guess at
\* which they differ there are more.
Rises(f, g) ==
    \E x \in DOMAIN g : g[x] > f[x] /\ \A y \in DOMAIN g : y < x => g[y] >= f[y]

\* How many requests may have got as far as each guess of a code.
GuessShapes == Shapes(MaxGuesses, Cardinality(Clients))

Before(g) == {f \in GuessShapes : Rises(f, g)}

LEMMA GuessShapesFacts ==
    /\ IsFiniteSet(GuessShapes)
    /\ Cardinality(GuessShapes) = choose(MaxGuesses + Cardinality(Clients), Cardinality(Clients))
    /\ MaxGuesses \in Nat
    /\ \A f \in GuessShapes : DOMAIN f = 1..MaxGuesses /\ \A x \in 1..MaxGuesses : f[x] \in Nat
<1>1. MaxGuesses \in Nat /\ Cardinality(Clients) \in Nat
  BY SignInAssumption, FS_CardinalityType
<1>2. \A f \in GuessShapes : f \in [1..MaxGuesses -> 0..Cardinality(Clients)]
  BY DEF GuessShapes, Shapes
<1>3. \A f \in GuessShapes : DOMAIN f = 1..MaxGuesses /\ \A x \in 1..MaxGuesses : f[x] \in Nat
  BY <1>1, <1>2
<1> QED  BY <1>1, <1>3, ShapesAreChosen DEF GuessShapes

LEMMA RisesIsAnOrder ==
    /\ \A f \in GuessShapes : ~Rises(f, f)
    /\ \A f, g, h \in GuessShapes : Rises(f, g) /\ Rises(g, h) => Rises(f, h)
<1>1. \A f \in GuessShapes : DOMAIN f = 1..MaxGuesses /\ \A x \in 1..MaxGuesses : f[x] \in Nat
  BY GuessShapesFacts
<1>2. ASSUME NEW f \in GuessShapes PROVE ~Rises(f, f)
  <2>1. ASSUME NEW x \in DOMAIN f PROVE ~(f[x] > f[x])
    <3>1. f[x] \in Nat
      BY <1>1
    <3> QED  BY <3>1
  <2> QED  BY <2>1 DEF Rises
<1>3. ASSUME NEW f \in GuessShapes, NEW g \in GuessShapes, NEW h \in GuessShapes,
             Rises(f, g), Rises(g, h)
      PROVE  Rises(f, h)
  <2>1. PICK x \in 1..MaxGuesses :
            g[x] > f[x] /\ \A y \in 1..MaxGuesses : y < x => g[y] >= f[y]
    BY <1>1, <1>3 DEF Rises
  <2>2. PICK z \in 1..MaxGuesses :
            h[z] > g[z] /\ \A y \in 1..MaxGuesses : y < z => h[y] >= g[y]
    BY <1>1, <1>3 DEF Rises
  <2>3. CASE x <= z
    <3>1. h[x] >= g[x]
      BY <1>1, <2>2, <2>3
    <3>2. h[x] > f[x]
      BY <1>1, <2>1, <3>1
    <3>3. \A y \in 1..MaxGuesses : y < x => h[y] >= f[y]
      BY <1>1, <2>1, <2>2, <2>3
    <3> QED  BY <1>1, <3>2, <3>3 DEF Rises
  <2>4. CASE z < x
    <3>1. h[z] > f[z]
      BY <1>1, <2>1, <2>2, <2>4
    <3>2. \A y \in 1..MaxGuesses : y < z => h[y] >= f[y]
      BY <1>1, <2>1, <2>2, <2>4
    <3> QED  BY <1>1, <3>1, <3>2 DEF Rises
  <2> QED  BY <2>3, <2>4
<1> QED  BY <1>2, <1>3

LEMMA BeforeFacts ==
    ASSUME NEW g
    PROVE  /\ IsFiniteSet(Before(g)) /\ Cardinality(Before(g)) \in Nat
           /\ g \in GuessShapes => Cardinality(Before(g)) < Cardinality(GuessShapes)
<1>1. Before(g) \in SUBSET GuessShapes
  BY DEF Before
<1>2. /\ IsFiniteSet(GuessShapes) /\ IsFiniteSet(Before(g))
      /\ Cardinality(GuessShapes) \in Nat /\ Cardinality(Before(g)) \in Nat
      /\ Cardinality(Before(g)) <= Cardinality(GuessShapes)
      /\ Cardinality(GuessShapes) = Cardinality(Before(g)) => GuessShapes = Before(g)
  BY <1>1, GuessShapesFacts, FS_Subset, FS_CardinalityType
<1>3. g \in GuessShapes => GuessShapes # Before(g)
  BY RisesIsAnOrder DEF Before
<1> QED  BY <1>2, <1>3

\* A rise leaves at least one shape more behind.
LEMMA ARiseCounts ==
    ASSUME NEW f \in GuessShapes, NEW g \in GuessShapes, Rises(f, g)
    PROVE  Cardinality(Before(f)) + 1 <= Cardinality(Before(g))
<1>1. Before(f) \cup {f} \in SUBSET Before(g)
  BY RisesIsAnOrder DEF Before
<1>2. f \notin Before(f)
  BY RisesIsAnOrder DEF Before
<1>3. Cardinality(Before(f) \cup {f}) = Cardinality(Before(f)) + 1
  BY <1>2, BeforeFacts, FS_AddElement
<1> QED  BY <1>1, <1>3, BeforeFacts, FS_Subset

\* Where nothing falls, no fewer are behind.
LEMMA NothingFalls ==
    ASSUME NEW f \in GuessShapes, NEW g \in GuessShapes, \A x \in 1..MaxGuesses : g[x] >= f[x]
    PROVE  Cardinality(Before(f)) <= Cardinality(Before(g))
<1>1. ASSUME NEW e \in GuessShapes, Rises(e, f) PROVE Rises(e, g)
  <2>1. /\ DOMAIN e = 1..MaxGuesses /\ DOMAIN f = 1..MaxGuesses /\ DOMAIN g = 1..MaxGuesses
        /\ \A x \in 1..MaxGuesses : e[x] \in Nat /\ f[x] \in Nat /\ g[x] \in Nat
    BY GuessShapesFacts
  <2>2. PICK x \in 1..MaxGuesses :
            f[x] > e[x] /\ \A y \in 1..MaxGuesses : y < x => f[y] >= e[y]
    BY <1>1, <2>1 DEF Rises
  <2>3. g[x] > e[x] /\ \A y \in 1..MaxGuesses : y < x => g[y] >= e[y]
    BY <2>1, <2>2
  <2> QED  BY <2>1, <2>3 DEF Rises
<1>2. Before(f) \in SUBSET Before(g)
  BY <1>1 DEF Before
<1> QED  BY <1>2, BeforeFacts, FS_Subset

-----------------------------------------------------------------------------
(* The wrong guesses compared with a code.                                 *)

\* Who stands at x wrong guesses of code i, or past them: while the code is the
\* account's its counter does, and so does the counter that was read by one who
\* is comparing a guess and will write it; of a code that is gone, only what was
\* read by those still comparing with it.
Past(i, x) ==
    {c \in Clients :
        /\ i = code.id => code.attempts >= x
        /\ client[c].op = "try" /\ i \in {code.id, client[c].read.id}
             => client[c].read.attempts >= x}

Profile(i) == [x \in 1..MaxGuesses |-> Cardinality(Past(i, x))]

CodesAreNumbered ==
    /\ code.id <= mailed /\ code.attempts <= MaxGuesses
    /\ \A c \in Clients : client[c].op = "try" =>
        client[c].read.id \in 1..mailed /\ client[c].read.attempts < MaxGuesses
    /\ \A i \in 1..MaxCodes : i > mailed => tries[i] = 0

\* Every wrong guess has moved its code's profile up the order.
TriesClimb == \A i \in 1..MaxCodes : tries[i] <= Cardinality(Before(Profile(i)))

\* The inductive invariant, relative to SignInInv.
GuessInv == CodesAreNumbered /\ TriesClimb

LEMMA PastFacts ==
    ASSUME NEW i, NEW x
    PROVE  /\ IsFiniteSet(Past(i, x))
           /\ Cardinality(Past(i, x)) \in 0..Cardinality(Clients)
<1>1. Past(i, x) \in SUBSET Clients
  BY DEF Past
<1> QED  BY <1>1, SignInAssumption, FS_Subset, FS_CardinalityType

ProfilesAreShapes == \A i : Profile(i) \in GuessShapes

PastsAreFinite ==
    \A i, x : /\ IsFiniteSet(Past(i, x))
              /\ Cardinality(Past(i, x)) \in Nat

LEMMA PastIsFinite == PastsAreFinite
<1> QED  BY PastFacts, Bounds DEF PastsAreFinite

LEMMA NextPastIsFinite == PastsAreFinite'
<1> QED  BY PastIsFinite, PTL

LEMMA ProfileIsAShape == SignInTypeOK => ProfilesAreShapes
<1> SUFFICES ASSUME SignInTypeOK, NEW i PROVE Profile(i) \in GuessShapes
  BY DEF ProfilesAreShapes
<1>1. Profile(i) \in [1..MaxGuesses -> 0..Cardinality(Clients)]
  BY PastFacts DEF Profile
<1>2. ASSUME NEW x \in 1..MaxGuesses, NEW y \in 1..MaxGuesses, x <= y
      PROVE  Profile(i)[x] >= Profile(i)[y]
  <2>1. code.attempts \in Nat /\ \A c \in Clients : client[c].read.attempts \in Nat
    BY RequestTypes DEF SignInTypeOK, Codes
  <2>2. Past(i, y) \in SUBSET Past(i, x)
    BY <1>2, <2>1 DEF Past
  <2>3. Cardinality(Past(i, y)) <= Cardinality(Past(i, x))
    BY <2>2, PastFacts, FS_Subset
  <2>4. Cardinality(Past(i, y)) \in Nat /\ Cardinality(Past(i, x)) \in Nat
    BY PastFacts
  <2> QED  BY <2>3, <2>4 DEF Profile
<1> QED  BY <1>1, <1>2 DEF GuessShapes, Shapes

LEMMA NextProfileIsAShape == SignInTypeOK' => ProfilesAreShapes'
<1> QED  BY ProfileIsAShape, PTL

\* A code's wrong guesses stay within the order when nobody falls back, and a
\* guess more when its profile rises.
LEMMA TriesStayWithin ==
    ASSUME SignInTypeOK, SignInTypeOK', NEW i \in 1..MaxCodes,
           tries[i] <= Cardinality(Before(Profile(i))),
           \/ /\ tries'[i] = tries[i]
              /\ \A x \in 1..MaxGuesses : Past(i, x) \subseteq Past(i, x)'
           \/ /\ tries'[i] <= tries[i] + 1
              /\ Rises(Profile(i), Profile(i)')
    PROVE  tries'[i] <= Cardinality(Before(Profile(i)'))
<1>1. Profile(i) \in GuessShapes /\ Profile(i)' \in GuessShapes
  BY ProfileIsAShape, NextProfileIsAShape DEF ProfilesAreShapes
<1> DEFINE p == Profile(i)
           q == Profile(i)'
<1>2. /\ tries[i] \in Nat /\ tries'[i] \in Nat
      /\ Cardinality(Before(p)) \in Nat /\ Cardinality(Before(q)) \in Nat
  BY BeforeFacts DEF SignInTypeOK
<1>3. ASSUME \A x \in 1..MaxGuesses : Past(i, x) \subseteq Past(i, x)'
      PROVE  Cardinality(Before(p)) <= Cardinality(Before(q))
  <2>1. ASSUME NEW x \in 1..MaxGuesses PROVE q[x] >= p[x]
    <3>1. /\ IsFiniteSet(Past(i, x)') /\ Cardinality(Past(i, x)') \in Nat
          /\ Cardinality(Past(i, x)) \in Nat
      BY PastIsFinite, NextPastIsFinite DEF PastsAreFinite
    <3>2. Cardinality(Past(i, x)) <= Cardinality(Past(i, x)')
      BY <1>3, <3>1, FS_Subset
    <3> QED  BY <3>1, <3>2 DEF Profile
  <2> QED  BY <1>1, <2>1, NothingFalls
<1>4. Rises(p, q) => Cardinality(Before(p)) + 1 <= Cardinality(Before(q))
  BY <1>1, ARiseCounts
<1> HIDE DEF p, q
<1>5. tries[i] <= Cardinality(Before(p))
  BY DEF p
<1>6. \/ tries'[i] = tries[i] /\ Cardinality(Before(p)) <= Cardinality(Before(q))
      \/ tries'[i] <= tries[i] + 1 /\ Cardinality(Before(p)) + 1 <= Cardinality(Before(q))
  BY <1>3, <1>4 DEF p, q
<1>7. tries'[i] <= Cardinality(Before(q))
  BY <1>2, <1>5, <1>6
<1> QED  BY <1>7 DEF q

\* Requests that end, and guesses begun on the account's code, set nobody back.
LEMMA GuessesKept ==
    ASSUME SignInInv, SignInInv', GuessInv, UNCHANGED <<code, mailed, tries>>,
           \A c \in Clients : client'[c].op = "try" =>
              \/ client'[c] = client[c]
              \/ code.id # 0 /\ client'[c].read = code /\ code.attempts < MaxGuesses
    PROVE  GuessInv'
<1> USE DEF SignInInv, GuessInv
<1>1. CodesAreNumbered'
  <2>1. code.id # 0 => code.id \in 1..mailed
    BY Bounds DEF CodesAreNumbered, SignInTypeOK, Codes
  <2> QED  BY <2>1 DEF CodesAreNumbered
<1>2. ASSUME NEW i \in 1..MaxCodes
      PROVE  tries'[i] <= Cardinality(Before(Profile(i)'))
  <2>1. \A x \in 1..MaxGuesses : Past(i, x) \subseteq Past(i, x)'
    BY DEF Past
  <2> QED  BY <2>1, TriesStayWithin DEF TriesClimb
<1> QED  BY <1>1, <1>2 DEF TriesClimb

LEMMA MailCodeGuesses ==
    ASSUME SignInInv, SignInInv', GuessInv, NEW c \in Clients, MailCode(c)
    PROVE  GuessInv'
<1> USE DEF SignInInv, GuessInv
<1>1. /\ client[c].op = "issue" /\ Answered(c) /\ tries' = tries
      /\ mailed < MaxCodes /\ mailed' = mailed + 1
      /\ code'.id = mailed + 1 /\ code'.attempts = CounterAfter(c)
  BY DEF MailCode
<1>2. /\ \A b \in Clients : client'[b] = IF b = c THEN Waiting ELSE client[b]
      /\ Waiting.op = "idle" /\ mailed \in Nat
  BY <1>1, Bounds DEF Answered, SignInTypeOK, Waiting
<1>3. CounterAfter(c) <= MaxGuesses
  BY GuessShapesFacts DEF CounterAfter, CodesAreNumbered
<1>4. CodesAreNumbered'
  <2>1. \A n \in 1..mailed : n \in 1..mailed'
    BY <1>1, <1>2
  <2>2. \A i \in 1..MaxCodes : i > mailed' => i > mailed
    BY <1>1, <1>2
  <2>3. code'.id <= mailed'
    BY <1>1, <1>2
  <2> QED  BY <1>1, <1>2, <1>3, <2>1, <2>2, <2>3 DEF CodesAreNumbered
<1>5. ASSUME NEW i \in 1..MaxCodes
      PROVE  tries'[i] <= Cardinality(Before(Profile(i)'))
  <2>1. CASE i = mailed + 1
    <3>1. tries'[i] = 0
      BY <1>1, <1>2, <2>1 DEF CodesAreNumbered
    <3> QED  BY <3>1, BeforeFacts
  <2>2. CASE i # mailed + 1
    <3>1. \A x \in 1..MaxGuesses : Past(i, x) \subseteq Past(i, x)'
      BY <1>1, <1>2, <2>2 DEF Past
    <3> QED  BY <1>1, <3>1, TriesStayWithin DEF TriesClimb
  <2> QED  BY <2>1, <2>2
<1> QED  BY <1>4, <1>5 DEF TriesClimb

LEMMA CodeRightGuesses ==
    ASSUME SignInInv, SignInInv', GuessInv, NEW c \in Clients, CodeRight(c)
    PROVE  GuessInv'
<1> USE DEF SignInInv, GuessInv
<1>1. /\ Answered(c) /\ UNCHANGED <<mailed, tries>>
      /\ code'.id = 0 /\ code'.attempts = CounterAfter(c)
  BY DEF CodeRight, NoCode
<1>2. /\ \A b \in Clients : client'[b] = IF b = c THEN Waiting ELSE client[b]
      /\ Waiting.op = "idle" /\ mailed \in Nat
  BY <1>1, Bounds DEF Answered, SignInTypeOK, Waiting
<1>3. CounterAfter(c) <= MaxGuesses
  BY GuessShapesFacts DEF CounterAfter, CodesAreNumbered
<1>4. CodesAreNumbered'
  BY <1>1, <1>2, <1>3 DEF CodesAreNumbered
<1>5. ASSUME NEW i \in 1..MaxCodes
      PROVE  tries'[i] <= Cardinality(Before(Profile(i)'))
  <2>1. \A x \in 1..MaxGuesses : Past(i, x) \subseteq Past(i, x)'
    BY <1>1, <1>2 DEF Past
  <2> QED  BY <1>1, <2>1, TriesStayWithin DEF TriesClimb
<1> QED  BY <1>4, <1>5 DEF TriesClimb

\* One request more gets as far as x, and none falls back from there or before.
LEMMA OneMoreGetsThere ==
    ASSUME NEW i, NEW x \in 1..MaxGuesses, NEW c,
           \A y \in 1..x : Past(i, y) \subseteq Past(i, y)',
           c \in Past(i, x)', c \notin Past(i, x)
    PROVE  Rises(Profile(i), Profile(i)')
<1>1. MaxGuesses \in Nat
  BY GuessShapesFacts
<1>2. \A y : /\ IsFiniteSet(Past(i, y)') /\ Cardinality(Past(i, y)') \in Nat
             /\ IsFiniteSet(Past(i, y)) /\ Cardinality(Past(i, y)) \in Nat
  BY PastIsFinite, NextPastIsFinite DEF PastsAreFinite
<1>3. ASSUME NEW y \in 1..MaxGuesses, y < x
      PROVE  Cardinality(Past(i, y)') >= Cardinality(Past(i, y))
  <2>1. Past(i, y) \in SUBSET (Past(i, y)')
    BY <1>3
  <2>2. Cardinality(Past(i, y)) <= Cardinality(Past(i, y)')
    BY <1>2, <2>1, FS_Subset
  <2> QED  BY <1>2, <2>2
<1>4. Cardinality(Past(i, x)') > Cardinality(Past(i, x))
  <2>1. x \in 1..x
    OBVIOUS
  <2>2. Past(i, x) \in SUBSET (Past(i, x)') /\ Past(i, x) # Past(i, x)'
    BY <2>1
  <2>3. /\ Cardinality(Past(i, x)) <= Cardinality(Past(i, x)')
        /\ Cardinality(Past(i, x)) # Cardinality(Past(i, x)')
    BY <1>2, <2>2, FS_Subset
  <2> QED  BY <1>2, <2>3
<1>5. \A y \in 1..MaxGuesses : /\ Profile(i)[y] = Cardinality(Past(i, y))
                               /\ Profile(i)'[y] = Cardinality(Past(i, y)')
  BY DEF Profile
<1>6. DOMAIN (Profile(i)') = 1..MaxGuesses
  BY DEF Profile
<1> QED  BY <1>3, <1>4, <1>5, <1>6 DEF Rises

LEMMA CodeWrongGuesses ==
    ASSUME SignInInv, SignInInv', GuessInv, NEW c \in Clients, CodeWrong(c)
    PROVE  GuessInv'
<1> USE DEF SignInInv, GuessInv
<1> DEFINE r == client[c].read.attempts
           j == client[c].read.id
<1>1. /\ client[c].op = "try" /\ Answered(c) /\ mailed' = mailed
      /\ code'.id = code.id /\ code'.attempts = r + 1
      /\ tries' = [tries EXCEPT ![j] = @ + 1]
  BY DEF CodeWrong, SignInTypeOK, Codes
<1>2. /\ \A b \in Clients : client'[b] = IF b = c THEN Waiting ELSE client[b]
      /\ Waiting.op = "idle"
  BY <1>1 DEF Answered, SignInTypeOK, Waiting
<1>3. /\ r \in Nat /\ r < MaxGuesses /\ j \in 1..mailed
      /\ mailed \in Nat /\ MaxGuesses \in Nat
  <2>1. r \in Nat /\ mailed \in Nat /\ MaxGuesses \in Nat
    BY RequestTypes, Bounds, GuessShapesFacts DEF SignInTypeOK
  <2> QED  BY <1>1, <2>1 DEF CodesAreNumbered
<1>4. \A i \in 1..MaxCodes : /\ tries[i] \in Nat
                             /\ tries'[i] = IF i = j THEN tries[i] + 1 ELSE tries[i]
  BY <1>1 DEF SignInTypeOK
<1> HIDE DEF r, j
<1>5. PICK x \in 1..MaxGuesses : x = r + 1
  BY <1>3
<1>6. CodesAreNumbered'
  <2>1. \A i \in 1..MaxCodes : i > mailed => i # j
    BY <1>3
  <2> QED  BY <1>1, <1>2, <1>3, <1>4, <2>1 DEF CodesAreNumbered
<1>7. ASSUME NEW i \in 1..MaxCodes
      PROVE  tries'[i] <= Cardinality(Before(Profile(i)'))
  <2>1. CASE i \in {code.id, j}
    <3>1. ASSUME NEW y \in 1..x PROVE Past(i, y) \subseteq Past(i, y)'
      <4>1. r + 1 >= y
        BY <1>5
      <4> QED  BY <1>1, <1>2, <4>1 DEF Past
    <3>2. c \notin Past(i, x)
      <4>1. ~(r >= x)
        BY <1>3, <1>5
      <4> QED  BY <1>1, <2>1, <4>1 DEF Past, r, j
    <3>3. c \in Past(i, x)'
      <4>1. r + 1 >= x
        BY <1>5
      <4> QED  BY <1>1, <1>2, <4>1 DEF Past
    <3>4. Rises(Profile(i), Profile(i)')
      BY <3>1, <3>2, <3>3, OneMoreGetsThere
    <3>5. tries'[i] <= tries[i] + 1
      BY <1>4
    <3> QED  BY <3>4, <3>5, TriesStayWithin DEF TriesClimb
  <2>2. CASE i \notin {code.id, j}
    <3>1. \A y \in 1..MaxGuesses : Past(i, y) \subseteq Past(i, y)'
      BY <1>1, <1>2, <2>2 DEF Past
    <3>2. tries'[i] = tries[i]
      BY <1>4, <2>2
    <3> QED  BY <3>1, <3>2, TriesStayWithin DEF TriesClimb
  <2> QED  BY <2>1, <2>2
<1> QED  BY <1>6, <1>7 DEF TriesClimb

LEMMA InitGuesses == SignInInit => GuessInv
<1> SUFFICES ASSUME SignInInit PROVE GuessInv
  OBVIOUS
<1>1. CodesAreNumbered
  BY GuessShapesFacts DEF SignInInit, CodesAreNumbered, NoCode, Waiting
<1>2. \A i \in 1..MaxCodes : tries[i] = 0
  BY DEF SignInInit
<1> QED  BY <1>1, <1>2, BeforeFacts DEF GuessInv, TriesClimb

LEMMA StepGuesses == SignInInv /\ SignInInv' /\ GuessInv /\ [SignInNext]_signVars => GuessInv'
<1> SUFFICES ASSUME SignInInv, SignInInv', GuessInv, [SignInNext]_signVars PROVE GuessInv'
  OBVIOUS
<1>1. Waiting.op = "idle" /\ client \in [Clients -> SignInRequests]
  BY DEF Waiting, SignInInv, SignInTypeOK
<1>2. ASSUME NEW c \in Clients, NEW a \in Accounts, TryPassword(c, a) PROVE GuessInv'
  <2>1. /\ UNCHANGED <<code, mailed, tries>>
        /\ client' = [client EXCEPT ![c] = [Waiting EXCEPT !.op = "password", !.key = a]]
    BY <1>2 DEF TryPassword, Busy
  <2>2. \A b \in Clients : client'[b].op = "try" => client'[b] = client[b]
    BY <1>1, <2>1 DEF Waiting
  <2> QED  BY <2>1, <2>2, GuessesKept
<1>3. ASSUME NEW c \in Clients,
             \/ PasswordWrong(c) \/ PasswordRight(c)
             \/ AnnounceCall(c) \/ DropCall(c) \/ CodeStands(c)
      PROVE  GuessInv'
  <2>1. UNCHANGED <<code, mailed, tries>> /\ client' = [client EXCEPT ![c] = Waiting]
    BY <1>3 DEF PasswordWrong, PasswordRight, AnnounceCall, DropCall, CodeStands, Answered
  <2>2. \A b \in Clients : client'[b].op = "try" => client'[b] = client[b]
    BY <1>1, <2>1
  <2> QED  BY <2>1, <2>2, GuessesKept
<1>4. ASSUME NEW c \in Clients, RequestCode(c) PROVE GuessInv'
  <2>1. /\ UNCHANGED <<code, mailed, tries>>
        /\ client' = [client EXCEPT ![c] = [Waiting EXCEPT !.op = "ask", !.at = now]]
    BY <1>4 DEF RequestCode, Busy
  <2>2. \A b \in Clients : client'[b].op = "try" => client'[b] = client[b]
    BY <1>1, <2>1 DEF Waiting
  <2> QED  BY <2>1, <2>2, GuessesKept
<1>5. ASSUME NEW c \in Clients, MintCode(c) PROVE GuessInv'
  <2>1. /\ UNCHANGED <<code, mailed, tries>>
        /\ client' = [client EXCEPT ![c] = [client[c] EXCEPT !.op = "issue", !.read = code]]
    BY <1>1, <1>5 DEF MintCode
  <2>2. \A b \in Clients : client'[b].op = "try" => client'[b] = client[b]
    BY <1>1, <2>1 DEF SignInRequests
  <2> QED  BY <2>1, <2>2, GuessesKept
<1>6. ASSUME NEW c \in Clients, TryCode(c) PROVE GuessInv'
  <2>1. /\ UNCHANGED <<code, mailed, tries>> /\ code.id # 0 /\ code.attempts < MaxGuesses
        /\ client' = [client EXCEPT ![c] = [Waiting EXCEPT !.op = "try", !.read = code]]
    BY <1>6 DEF TryCode, Busy
  <2>2. \A b \in Clients : client'[b] = client[b] \/ client'[b].read = code
    BY <1>1, <2>1 DEF Waiting
  <2> QED  BY <2>1, <2>2, GuessesKept
<1>7. ASSUME NEW k \in Spends, Spend(k) PROVE GuessInv'
  BY <1>7, GuessesKept DEF Spend
<1>8. CASE Restart
  <2>1. UNCHANGED <<code, mailed, tries>> /\ \A b \in Clients : client'[b] = Waiting
    BY <1>8 DEF Restart
  <2> QED  BY <1>1, <2>1, GuessesKept
<1>9. CASE SlotPasses \/ UNCHANGED signVars
  BY <1>9, GuessesKept DEF SlotPasses, signVars
<1>10. ASSUME NEW c \in Clients, NEW k \in CallTeams, PlanCall(c, k) PROVE GuessInv'
  <2>1. /\ UNCHANGED <<code, mailed, tries>>
        /\ client' = [client EXCEPT ![c] = [Waiting EXCEPT !.op = "call", !.key = k]]
    BY <1>10 DEF PlanCall, Busy
  <2>2. \A b \in Clients : client'[b].op = "try" => client'[b] = client[b]
    BY <1>1, <2>1 DEF Waiting
  <2> QED  BY <2>1, <2>2, GuessesKept
<1> QED  BY <1>2, <1>3, <1>4, <1>5, <1>6, <1>7, <1>8, <1>9, <1>10,
            MailCodeGuesses, CodeWrongGuesses, CodeRightGuesses DEF SignInNext

\* However verifications overlap, each writing the sum it made of the counter it
\* read (verify_otp), with whatever codes are mailed and restarts come between:
\* a code takes fewer wrong guesses than there are ways for the requests in
\* flight to be spread over the counter's values.
THEOREM TriesAreBounded == SignInSpec => []TriesPerCodeBounded
<1>1. SignInInv /\ GuessInv => TriesPerCodeBounded
  <2> DEFINE n == Cardinality(Clients)
  <2> SUFFICES ASSUME SignInInv, GuessInv, NEW i \in 1..MaxCodes
               PROVE  tries[i] < choose(MaxGuesses + n, n)
    BY DEF TriesPerCodeBounded
  <2>1. tries[i] \in Nat /\ Profile(i) \in GuessShapes
    BY ProfileIsAShape DEF ProfilesAreShapes, SignInInv, SignInTypeOK
  <2>2. tries[i] <= Cardinality(Before(Profile(i)))
    BY DEF GuessInv, TriesClimb
  <2>3. /\ Cardinality(Before(Profile(i))) \in Nat
        /\ Cardinality(Before(Profile(i))) < Cardinality(GuessShapes)
    BY <2>1, BeforeFacts
  <2>4. Cardinality(GuessShapes) = choose(MaxGuesses + n, n) /\ Cardinality(GuessShapes) \in Nat
    BY GuessShapesFacts, FS_CardinalityType
  <2>5. tries[i] < Cardinality(GuessShapes)
    BY <2>1, <2>2, <2>3, <2>4
  <2> QED  BY <2>4, <2>5
<1>2. SignInInit => GuessInv
  BY InitGuesses
<1>3. SignInInv /\ SignInInv' /\ GuessInv /\ [SignInNext]_signVars => GuessInv'
  BY StepGuesses
<1> QED  BY <1>1, <1>2, <1>3, SignInInvariance, PTL DEF SignInSpec
=============================================================================
