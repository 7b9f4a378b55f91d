---------------------------- MODULE MCGovernance ----------------------------
(* Two agents and one proposal, authority in thirds.                       *)
(* `logged' is left out of the state's fingerprint: no guard reads it, and *)
(* the properties that do are action properties.                           *)
EXTENDS Governance, TLC

CONSTANTS a1, a2, p1

Symmetry == Permutations(Agents)
MCJoin == {3}
MCOverride == {}
NoLog == <<authority, status, killSwitch, proposalVars>>
=============================================================================
