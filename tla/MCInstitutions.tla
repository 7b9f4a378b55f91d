--------------------------- MODULE MCInstitutions ---------------------------
EXTENDS Institutions, TLC

CONSTANTS a1, a2, a3, a4, i1, i2

(* i1 and i2 serve as identifiers of every kind and as keywords.           *)

McHistories == {<<0, 0>>, <<3, 2>>}

McDefinitions ==
  {[min |-> 10, critical |-> FALSE, holders |-> 1],
   [min |-> 10, critical |-> TRUE, holders |-> 0]}

McFoundation == [i \in {"INV-1", "INV-2"} |-> {"kill"}]

Symmetry ==
  Permutations({a1, a2}) \cup Permutations({a3, a4}) \cup Permutations({i1, i2})
=============================================================================
