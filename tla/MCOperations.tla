---------------------------- MODULE MCOperations ----------------------------
EXTENDS Operations

(* Three threads and three entries: a fork with an entry between its       *)
(* branches, and calls that overlap on one agent's balance.                *)
McDeltas == {-1, 2}

McSort ==
  [x \in Facts |-> IF x = "sleeper" THEN "suspended agent" ELSE "proposal"]

(* f1 and f3 are the same weakness of one asset, at two points; f2 is      *)
(* another weakness elsewhere, whose row a search for that asset finds     *)
(* before theirs.                                                          *)
McDescribed ==
  [f1 |-> [cwe |-> 79, asset |-> "site", point |-> "login",
           severity |-> "medium", confidence |-> 8, at |-> 1],
   f2 |-> [cwe |-> 89, asset |-> "shop.site", point |-> "login",
           severity |-> "high", confidence |-> 8, at |-> 3],
   f3 |-> [cwe |-> 79, asset |-> "site", point |-> "search",
           severity |-> "low", confidence |-> 4, at |-> 2]]

McInside == {<<"site", "site">>, <<"shop.site", "shop.site">>, <<"site", "shop.site">>}
=============================================================================
