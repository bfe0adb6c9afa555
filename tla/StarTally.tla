------------------------------ MODULE StarTally ------------------------------
(***************************************************************************)
(* The STAR count (star.py, and elections._tally that feeds it): score,    *)
(* then automatic runoff.  The count is a function of the ballots; the     *)
(* ballots arrive one at a time, so that every small profile is a state.   *)
(***************************************************************************)
EXTENDS Naturals, Sequences, FiniteSets

CONSTANTS
    MaxCandidates,  \* bound; ids are 1, 2, ...: the count reads only their order
    Stars,          \* scores on a ballot, of 0..5; a missing entry is 0
    MaxBallots,     \* bound
    MaxEntries      \* bound: scores on record, over all ballots

ASSUME TallyAssumption ==
    /\ MaxCandidates \in Nat
    /\ Stars \subseteq 0..5
    /\ MaxBallots \in Nat /\ MaxEntries \in Nat

VARIABLES contenders, papers

tallyVars == <<contenders, papers>>

\* For TLC: profiles that differ in the ballots' order only are one state.
\* Totals and Prefer, all the count reads of the ballots, do not see the order.
ProfileView ==
    <<contenders, [b \in {papers[i] : i \in DOMAIN papers} |->
                     Cardinality({i \in DOMAIN papers : papers[i] = b})]>>

Total(c, bs) ==
    LET upTo[i \in 0..Len(bs)] == IF i = 0 THEN 0 ELSE upTo[i - 1] + bs[i][c]
    IN  upTo[Len(bs)]

Totals(cs, bs) == [c \in cs |-> Total(c, bs)]

\* _prefer_counts: how many ballots score a over b.
Prefer(bs, a, b) == Cardinality({i \in DOMAIN bs : bs[i][a] > bs[i][b]})

\* Head-to-head wins within a tier: a win scores 2, a draw 1 apiece.
Wins(tier, bs) ==
    LET beaten(a) == {b \in tier \ {a} : Prefer(bs, a, b) > Prefer(bs, b, a)}
        drawn(a) == {b \in tier \ {a} : Prefer(bs, a, b) = Prefer(bs, b, a)}
    IN  [a \in tier |-> 2 * Cardinality(beaten(a)) + Cardinality(drawn(a))]

\* Each candidate's place in the tier: most wins first, then lowest id.
Places(tier, wins) ==
    [c \in tier |->
       Cardinality({x \in tier : \/ wins[x] > wins[c]
                                 \/ wins[x] = wins[c] /\ x <= c})]

\* Broken: the last seat goes to the lowest id when it is contested.
FillByLowestId(tier, bs, need) ==
    LET place == Places(tier, Wins(tier, bs))
    IN  [chosen |-> {c \in tier : place[c] <= need}, tied |-> {}]

\* Picks "need" finalists from a tier bigger than that, or reports who is
\* still tied for the last of them.
FillFromTier(tier, bs, need) ==
    LET wins == Wins(tier, bs)
        place == Places(tier, wins)
        At(i) == CHOOSE c \in tier : place[c] = i
        boundary == wins[At(need)]
    IN  IF wins[At(need + 1)] = boundary
        THEN [chosen |-> {}, tied |-> {c \in tier : wins[c] = boundary}]
        ELSE [chosen |-> {c \in tier : place[c] <= need}, tied |-> {}]

\* Broken: the tiers are taken from the lowest total up.
Trailers(rest, totals) == {c \in rest : \A x \in rest : totals[x] >= totals[c]}

\* The tier of the highest total left.
Leaders(rest, totals) == {c \in rest : \A x \in rest : totals[x] <= totals[c]}

\* The scoring round, of two candidates or more: whole tiers from the highest
\* total down, until two are found or the last seat stays contested.  Each tier
\* has somebody for a seat, so that the loop looks at two of them at most.
Finalists(cs, bs) ==
    LET totals == Totals(cs, bs)
        top == Leaders(cs, totals)
        next == Leaders(cs \ top, totals)
        one == FillFromTier(next, bs, 1)
    IN  IF Cardinality(top) = 2 THEN [chosen |-> top, tied |-> {}]
        ELSE IF Cardinality(top) > 2 THEN FillFromTier(top, bs, 2)
        ELSE IF Cardinality(next) = 1 THEN [chosen |-> top \cup next, tied |-> {}]
        ELSE [chosen |-> top \cup one.chosen, tied |-> one.tied]

\* Broken: the higher total wins, whatever the runoff says.
RunoffByTotal(pair, cs, bs) ==
    LET totals == Totals(cs, bs)
    IN  {a \in pair : \A b \in pair \ {a} : totals[a] > totals[b]}

\* The runoff between two finalists: preferred on more ballots, else the
\* higher total, else nobody.
Runoff(pair, cs, bs) ==
    LET totals == Totals(cs, bs)
        Beats(a, b) ==
            \/ Prefer(bs, a, b) > Prefer(bs, b, a)
            \/ Prefer(bs, a, b) = Prefer(bs, b, a) /\ totals[a] > totals[b]
    IN  {a \in pair : \A b \in pair \ {a} : Beats(a, b)}

\* star_tally: who wins, who runs off, and who is tied.
StarResult(cs, bs) ==
    IF Cardinality(cs) <= 1
    THEN [winners |-> cs, finalists |-> {}, tied |-> {}]
    ELSE LET found == Finalists(cs, bs)
             won == Runoff(found.chosen, cs, bs)
         IN  IF found.tied # {}
             THEN [winners |-> {}, finalists |-> {}, tied |-> found.tied]
             ELSE [winners |-> won, finalists |-> found.chosen,
                   tied |-> IF won = {} THEN found.chosen ELSE {}]

-----------------------------------------------------------------------------
TallyInit == contenders \in {1..n : n \in 0..MaxCandidates} /\ papers = <<>>

BallotCounted ==
    /\ Len(papers) < MaxBallots
    /\ (Len(papers) + 1) * Cardinality(contenders) <= MaxEntries
    /\ \E b \in [contenders -> Stars] : papers' = Append(papers, b)
    /\ UNCHANGED contenders

TallyNext == BallotCounted

TallySpec == TallyInit /\ [][TallyNext]_tallyVars

-----------------------------------------------------------------------------
\* The tally ends in one of three ways: no candidates; exactly one winner and
\* nobody tied; or no winner and at least two people tied, whose totals are
\* equal -- it never guesses and never stays silent.  Two run off, and nobody
\* outside the runoff outscored somebody in it.
OneOutcome ==
    LET r == StarResult(contenders, papers)
        totals == Totals(contenders, papers)
    IN  /\ \/ contenders = {} /\ r.winners = {} /\ r.tied = {}
           \/ Cardinality(r.winners) = 1 /\ r.tied = {}
           \/ /\ r.winners = {}
              /\ Cardinality(r.tied) >= 2
              /\ \A a, b \in r.tied : totals[a] = totals[b]
        /\ r.finalists # {} =>
             /\ Cardinality(r.finalists) = 2
             /\ \A f \in r.finalists, c \in contenders \ r.finalists :
                  totals[f] >= totals[c]

\* A candidate whom every other candidate beats head-to-head does not win.
BeatenByAllNeverWins ==
    \A w \in StarResult(contenders, papers).winners :
        contenders = {w}
        \/ \E c \in contenders \ {w} : Prefer(papers, c, w) <= Prefer(papers, w, c)

\* Who a candidate is does not matter: with two names exchanged on every
\* ballot, the outcome is the same with the names exchanged.  The ids only
\* order the lists the code builds.
NamesDoNotMatter ==
    LET r == StarResult(contenders, papers) IN
    \A a, b \in contenders :
        LET Swap(c) == IF c = a THEN b ELSE IF c = b THEN a ELSE c
            other == StarResult(contenders,
                       [i \in DOMAIN papers |->
                          [c \in contenders |-> papers[i][Swap(c)]]])
        IN  a < b => /\ {Swap(c) : c \in other.winners} = r.winners
                     /\ {Swap(c) : c \in other.tied} = r.tied
=============================================================================
