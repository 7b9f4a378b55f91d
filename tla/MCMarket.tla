------------------------------ MODULE MCMarket ------------------------------
(* Three agents, two tasks and two bids: two bidders compete for a task,   *)
(* an agent bids again after a withdrawal, and a poster is the worker of   *)
(* another task.  An agent starts with the worth of one bounty, and may    *)
(* lose as much elsewhere, booked, or win it, unbooked.                    *)
EXTENDS Market, TLC

CONSTANTS a1, a2, a3, t1, t2, b1, b2

Symmetry == Permutations(Agents) \cup Permutations(Tasks) \cup Permutations(Bids)

MCOutcomes == {<<-8, -8, 0>>, <<8, 8, 1>>, <<8, 0, 1>>}
=============================================================================
