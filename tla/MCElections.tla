----------------------------- MODULE MCElections -----------------------------
(* Constants for model checking Elections: two volunteers, one of the       *)
(* team's core and one of the clergy.                                       *)
EXTENDS Elections, TLC

CONSTANTS ann, ben, s1, s2

MCPeople == {ann, ben}
MCClergy == {ben}
MCCore == {ann}
MCSessions == {s1, s2}
SessionSymmetry == Permutations(MCSessions)

\* The second proposal is opened, and then left alone.
SecondOnlyOpened == \A s \in ElectionSessions : ruling[s].proposal # 2

\* Proposals open with one candidate and one day of voting; later edits and
\* moves of the deadlines reach the rest.
ShortOpenings ==
    \A s \in ElectionSessions :
        /\ ruling[s].op = "create" => ruling[s].names = {ann}
        /\ ruling[s].op \in {"create", "new_round"} => ruling[s].d2 = ruling[s].d1 + 1
=============================================================================
