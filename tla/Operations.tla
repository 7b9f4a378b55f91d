----------------------------- MODULE Operations -----------------------------
(***************************************************************************)
(* What is built on a FIRM: threads of the API that append to the ledger,  *)
(* agents that execute tasks with a language model, organisations kept in  *)
(* files by the command line, and bug bounty campaigns.  They share no     *)
(* state, so a behaviour has one of them in `focus', and the others stand  *)
(* still.                                                                  *)
(* Code: api/app.py, cli.py and bounty/, around core/ledger.py, llm/ and   *)
(* core/serialization.py.                                                  *)
(***************************************************************************)
EXTENDS Ledger, Execution, Persistence, Bounty

VARIABLE focus   \* the program whose steps are taken

vars == <<ledgerVars, executionVars, persistenceVars, bountyVars, focus>>

(* Beside LedgerTypeOK.                                                    *)
OperationsTypeOK ==
  /\ ExecutionTypeOK
  /\ PersistenceTypeOK
  /\ BountyTypeOK

Init ==
  /\ focus \in {"ledger", "execution", "persistence", "bounty"}
  /\ LedgerInit
  /\ ExecutionInit
  /\ PersistenceInit
  /\ BountyInit

Still(f) ==
  /\ f # "ledger" => UNCHANGED ledgerVars
  /\ f # "execution" => UNCHANGED executionVars
  /\ f # "persistence" => UNCHANGED persistenceVars
  /\ f # "bounty" => UNCHANGED bountyVars

Next ==
  /\ UNCHANGED focus
  /\ \/ focus = "ledger" /\ LedgerNext
     \/ focus = "execution" /\ ExecutionNext
     \/ focus = "persistence" /\ PersistenceNext
     \/ focus = "bounty" /\ BountyNext
  /\ Still(focus)

Spec == Init /\ [][Next]_vars /\ ExecutionFairness

=============================================================================
