SPECIFICATION Spec
CONSTANTS
  Agents = {"a", "b"}
  Threads = {"t1", "t2", "t3"}
  Ids = {"e1", "e2", "e3"}
  Genesis = "genesis"
  Deltas <- McDeltas
  Workers = {"a"}
  Calls = {"c1", "c2"}
  Levels = {10, 50}
  MaxIterations = 3
  Tokens = 20
  Cost = 20
  Rate = 2
  Responses = {0, 3}
  Processes = {"p", "q"}
  Files = {"f", "g"}
  Facts = {"sleeper"}
  Sort <- McSort
  Findings = {"f1", "f2", "f3"}
  Weaknesses = {79, 89}
  Assets = {"site", "shop.site"}
  Points = {"login", "search"}
  Described <- McDescribed
  Inside <- McInside
  SearchLimit = 1
  Reactions = {"triaged", "resolved"}
INVARIANTS OperationsTypeOK LedgerTypeOK Rooted ForkIsSeen SerialChain SerialBalances
           BudgetKept ReportedStays FoundOnce
PROPERTIES KillHalts
CHECK_DEADLOCK FALSE
