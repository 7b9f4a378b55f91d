---------------------------- MODULE MCEvolution ----------------------------
(* Two agents and three parameters, two of them in one category: proposals *)
(* that meet in a parameter, that meet in a category only, and that have   *)
(* nothing in common.  The value 0 is out of the bounds of two of them.    *)
(* An authority of 3 against one of 1 is just the supermajority.           *)
EXTENDS Evolution, TLC

CONSTANTS a1, a2, p1, p2

Symmetry == Permutations(Agents) \cup Permutations(Proposals)

MCParameters == {"decay", "learning_rate", "quorum_ratio"}
MCCategory == [x \in MCParameters |->
                 IF x = "quorum_ratio" THEN "governance" ELSE "authority"]
MCBounds == [x \in MCParameters |-> IF x = "decay" THEN {0, 1} ELSE {1}]
MCDefault == [x \in MCParameters |-> 1]
MCStandings == {<<3, TRUE>>, <<1, FALSE>>}
=============================================================================
