------------------------------- MODULE Members -------------------------------
(***************************************************************************)
(* What the institutions of a FIRM share: its agents, with the status,     *)
(* authority and credits that their guards read.  Between two calls to one *)
(* institution an agent works, is overridden by the human operator and is  *)
(* used by the other institutions; Agents.tla says how authority and       *)
(* status move then, and here they move anywhere.                          *)
(* Code: core/agent.py, core/human.py and Firm._agents in runtime.py.      *)
(*                                                                         *)
(* Authority is counted in hundredths.                                     *)
(***************************************************************************)
EXTENDS Integers, FiniteSets

CONSTANTS
  Agents,     \* identifiers an agent can get
  Founders,   \* the agents that are there when the institutions open
  Levels,     \* authorities an agent is brought to
  Endowment,  \* credits an agent joins with
  RoleNames   \* names of roles

ASSUME MembersAssumption ==
  /\ Founders \subseteq Agents /\ IsFiniteSet(Founders)
  /\ Levels \subseteq 0..100
  /\ Endowment \in Int

VARIABLES
  authority,  \* Agent.authority
  status,     \* Agent.status; "absent" before the agent is in Firm._agents
  credits,    \* Agent.credits
  roles       \* Agent.roles

memberVars == <<authority, status, credits, roles>>

(* The suspended, the probationers and the terminated are all the same to  *)
(* the institutions: they ask whether an agent is active, or do not ask.   *)
AgentStatus == {"active", "inactive"}

MembersTypeOK ==
  /\ authority \in [Agents -> 0..100]
  /\ status \in [Agents -> AgentStatus \cup {"absent"}]
  /\ credits \in [Agents -> Int]
  /\ roles \in [Agents -> SUBSET RoleNames]

MembersInit ==
  /\ authority = [a \in Agents |-> 50]
  /\ status = [a \in Agents |-> IF a \in Founders THEN "active" ELSE "absent"]
  /\ credits = [a \in Agents |-> IF a \in Founders THEN Endowment ELSE 0]
  /\ roles = [a \in Agents |-> {}]

Registered(a) == status[a] # "absent"

Active(a) == status[a] = "active"

(* record_action, decay and HumanOverride.set_authority                    *)
AuthorityMoves(a) ==
  /\ Registered(a)
  /\ \E x \in Levels : authority' = [authority EXCEPT ![a] = x]
  /\ UNCHANGED <<status, credits, roles>>

(* Agent.suspend and HumanOverride.force_status, which brings back the     *)
(* terminated as well.                                                     *)
StatusMoves(a, s) ==
  /\ Registered(a)
  /\ status' = [status EXCEPT ![a] = s]
  /\ UNCHANGED <<authority, credits, roles>>

=============================================================================
