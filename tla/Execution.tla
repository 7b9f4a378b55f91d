----------------------------- MODULE Execution ------------------------------
(***************************************************************************)
(* Tasks that agents execute with a language model: a loop of asking the   *)
(* model and using the tools it calls for, within a budget that the        *)
(* authority of the agent sets, reported to the FIRM when it ends.         *)
(* Code: LLMAgent.execute_task in llm/agent.py, TaskExecutor in            *)
(* llm/executor.py, ToolKit.execute in llm/tools.py, the route             *)
(* /agents/{agent_id}/execute in api/app.py, which runs each call in a     *)
(* thread of its own, and Firm.record_action in runtime.py.                *)
(*                                                                         *)
(* Tokens in and out have one rate.  What the model says and what the      *)
(* tools do to the world outside is left out, and with it which tools an   *)
(* agent is given.  Authority is in hundredths.                            *)
(***************************************************************************)
EXTENDS Integers

CONSTANTS
  Workers,        \* agents with a language model
  Calls,          \* threads that execute tasks
  Levels,         \* authorities an agent is brought to
  MaxIterations,  \* AgentConfig.max_iterations
  Tokens,         \* AgentConfig.max_tokens_budget
  Cost,           \* AgentConfig.max_cost_usd
  Rate,           \* cost of a token
  Responses       \* tokens that an answer takes, 0 if no usage is reported

ASSUME ExecutionAssumption ==
  /\ Levels \subseteq 0..100
  /\ {MaxIterations, Tokens, Cost, Rate} \subseteq Nat
  /\ Responses \subseteq Nat

VARIABLES
  authority,  \* Agent.authority
  active,     \* Agent.is_active
  killed,     \* ConstitutionalAgent.kill_switch_active
  call        \* per thread, the execute_task it is in

executionVars == <<authority, active, killed, call>>

(* Where a call is: at the top of the loop, waiting for the model, using   *)
(* tools, or about to report to the FIRM.                                  *)
Place == {"looping", "asking", "using", "reporting"}

Call == [at : Place, agent : Workers, given : 0..100, iteration : Nat, spent : Nat,
         cancelled : BOOLEAN, success : BOOLEAN]

Idle == [at |-> "idle"]

ExecutionTypeOK ==
  /\ authority \in [Workers -> 0..100]
  /\ active \in [Workers -> BOOLEAN]
  /\ killed \in BOOLEAN
  /\ call \in [Calls -> Call \cup {Idle}]

ExecutionInit ==
  /\ authority = [a \in Workers |-> 50]
  /\ active = [a \in Workers |-> TRUE]
  /\ killed = FALSE
  /\ call = [c \in Calls |-> Idle]

-----------------------------------------------------------------------------
(* budget_scale: authority, and a fifth at least.                          *)
Scale(x) == IF x < 20 THEN 20 ELSE x

TokenBudget(x) == (Tokens * Scale(x)) \div 100

Exceeded_TokensOnly(c) == call[c].spent > TokenBudget(call[c].given)

(* Either budget is exceeded.                                              *)
Exceeded(c) ==
  \/ call[c].spent > TokenBudget(call[c].given)
  \/ 100 * Rate * call[c].spent > Cost * Scale(call[c].given)

Advanced_Not(c) == call[c].iteration

Advanced(c) == call[c].iteration + 1

Ended(c, success) ==
  call' = [call EXCEPT ![c].at = "reporting", ![c].success = success]

(* LLMAgent.execute_task: only here is the kill switch looked at, and the  *)
(* status of the agent not even here.                                      *)
ExecuteTask(c, a) ==
  /\ call[c] = Idle
  /\ ~killed
  /\ call' = [call EXCEPT ![c] =
       [at |-> "looping", agent |-> a, given |-> authority[a], iteration |-> 0,
        spent |-> 0, cancelled |-> FALSE, success |-> FALSE]]
  /\ UNCHANGED <<authority, active, killed>>

(* The top of the loop of TaskExecutor.execute: cancelled, out of          *)
(* iterations, over a budget, or on to the model.                          *)
Loop(c) ==
  /\ call[c].at = "looping"
  /\ \/ /\ call[c].iteration >= MaxIterations \/ call[c].cancelled
        /\ Ended(c, FALSE)
     \/ /\ call[c].iteration < MaxIterations /\ ~call[c].cancelled
        /\ call' = [call EXCEPT ![c].iteration = Advanced(c),
                                ![c].at = IF Exceeded(c) THEN "reporting" ELSE "asking"]
  /\ UNCHANGED <<authority, active, killed>>

(* The model fails, answers for good, or calls for tools.                  *)
Answer(c) ==
  /\ call[c].at = "asking"
  /\ \/ Ended(c, FALSE)
     \/ \E tokens \in Responses, final \in BOOLEAN :
          call' = [call EXCEPT ![c].spent = @ + tokens,
                               ![c].at = IF final THEN "reporting" ELSE "using",
                               ![c].success = final]
  /\ UNCHANGED <<authority, active, killed>>

(* ToolKit.execute of every tool called for, which never raises.           *)
UseTools(c) ==
  /\ call[c].at = "using"
  /\ call' = [call EXCEPT ![c].at = "looping"]
  /\ UNCHANGED <<authority, active, killed>>

(* LLMAgent._record_in_firm and the end of the call.  record_action moves  *)
(* the authority up or down; it refuses a killed FIRM and raises for an    *)
(* inactive agent, and either way the call ends as if it had recorded.     *)
Report(c) ==
  LET a == call[c].agent
  IN /\ call[c].at = "reporting"
     /\ call' = [call EXCEPT ![c] = Idle]
     /\ IF killed \/ ~active[a]
        THEN UNCHANGED authority
        ELSE \E x \in Levels :
               /\ IF call[c].success THEN x >= authority[a] ELSE x <= authority[a]
               /\ authority' = [authority EXCEPT ![a] = x]
     /\ UNCHANGED <<active, killed>>

Proceed(c) == Loop(c) \/ Answer(c) \/ UseTools(c) \/ Report(c)

(* TaskExecutor.cancel, from another thread.  LLMAgent keeps no reference  *)
(* to its executor: only who runs one itself can call this.                *)
Cancel(c) ==
  /\ call[c] # Idle
  /\ call' = [call EXCEPT ![c].cancelled = TRUE]
  /\ UNCHANGED <<authority, active, killed>>

-----------------------------------------------------------------------------
(* The human operator, at any time.                                        *)
SwitchKill ==
  /\ killed' = ~killed
  /\ UNCHANGED <<authority, active, call>>

Override(a) ==
  /\ \/ \E x \in Levels : authority' = [authority EXCEPT ![a] = x] /\ UNCHANGED active
     \/ active' = [active EXCEPT ![a] = ~@] /\ UNCHANGED authority
  /\ UNCHANGED <<killed, call>>

ExecutionNext ==
  \/ \E c \in Calls :
       \/ \E a \in Workers : ExecuteTask(c, a)
       \/ Proceed(c)
       \/ Cancel(c)
  \/ SwitchKill
  \/ \E a \in Workers : Override(a)

(* Each thread goes on: the operating system schedules it, a model that    *)
(* does not answer is given up by the time limits of the HTTP clients and  *)
(* tools end by their own.  Nobody has to start or to cancel anything.     *)
ExecutionFairness == \A c \in Calls : WF_executionVars(Proceed(c))

ExecutionSpec == ExecutionInit /\ [][ExecutionNext]_executionVars /\ ExecutionFairness

-----------------------------------------------------------------------------
(* Properties.                                                             *)

(* No call asks the model once it is over one of its budgets, and in all   *)
(* it takes no more than both and one answer, whatever became of the       *)
(* authority that the budgets came of.                                     *)
BudgetKept ==
  \A c \in Calls : call[c] # Idle =>
    \E last \in Responses \cup {0} :
      /\ call[c].spent - last <= TokenBudget(call[c].given)
      /\ 100 * Rate * (call[c].spent - last) <= Cost * Scale(call[c].given)

(* Once the kill switch is on for good, every call comes to its end: none  *)
(* is begun, and none goes round its loop for ever, though no call that is *)
(* in it looks at the switch.  What they do meanwhile is not recorded.     *)
KillHalts == <>[]killed => <>[](\A c \in Calls : call[c] = Idle)

=============================================================================
