------------------------------ MODULE MCLedger ------------------------------
(* Four entries by three threads: enough for a fork, for entries built on  *)
(* either side of it, and for overlapping calls on one agent's balance.    *)
EXTENDS Ledger, TLC

CONSTANTS a1, a2, t1, t2, t3, e1, e2, e3, e4

Symmetry ==
  Permutations(Agents) \cup Permutations(Threads) \cup Permutations(Ids)

MCDeltas == {-1, 2}
=============================================================================
