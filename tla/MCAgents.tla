------------------------------ MODULE MCAgents ------------------------------
(* Three agents on a scale of 20 (authority 0.05 each): every threshold of *)
(* the code falls on a unit, a failure takes an agent at 0.30 or 0.40 into *)
(* probation and two successes take it out of reach of the threshold.      *)
EXTENDS Agents, TLC

CONSTANTS a1, a2, a3

Symmetry == Permutations({a1, a2, a3})
MCJoin == {6, 13}
MCOverride == {0, 4}
=============================================================================
