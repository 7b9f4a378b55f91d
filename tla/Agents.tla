------------------------------- MODULE Agents -------------------------------
(***************************************************************************)
(* The members of a FIRM: how they join, how each recorded action moves    *)
(* their authority, when they fall into probation, and when the            *)
(* Constitutional Agent bootstraps a deadlocked organisation.              *)
(* Code: core/agent.py, core/authority.py, core/constitution.py,           *)
(* core/human.py and Firm.add_agent / Firm.record_action in runtime.py.    *)
(*                                                                         *)
(* Authority is counted in units of 1/MaxAuthority.  Credit amounts and    *)
(* success counts are left to the modules whose guards read them: nothing  *)
(* here branches on a credit, and the success rate only breaks ties        *)
(* between agents of equal authority, which Boosted leaves open.           *)
(* A call that raises or returns {"blocked": True} changes nothing and is  *)
(* therefore no step.                                                      *)
(***************************************************************************)
EXTENDS Integers, FiniteSets, Sequences

CONSTANTS
  Agents,               \* identifiers an agent can get when it joins
  Human,                \* HUMAN_AGENT_ID, the author of overrides in the ledger
  MaxAuthority,         \* authority 1.0
  ProposeMin,           \* THRESHOLD_PROPOSE, 0.8
  VoteMin,              \* THRESHOLD_VOTE, 0.6
  ProbationBelow,       \* THRESHOLD_PROBATION, 0.3
  BootstrapAuthority,   \* ConstitutionalAgent.BOOTSTRAP_AUTHORITY, 0.65
  BootstrapTop,         \* top_n of bootstrap_governance, 3
  LearningRate,         \* gain of a success, a parameter of Firm
  Decay,                \* loss of a failure, a parameter of Firm
  JoinAuthorities,      \* authorities add_agent is called with
  OverrideAuthorities   \* authorities the human operator sets

ASSUME AgentsAssumption ==
  /\ IsFiniteSet(Agents)
  /\ Human \notin Agents
  /\ MaxAuthority \in Nat \ {0}
  /\ ProbationBelow \in 1..MaxAuthority
  /\ VoteMin \in ProbationBelow..MaxAuthority
  /\ ProposeMin \in VoteMin..MaxAuthority
  /\ BootstrapAuthority \in VoteMin..MaxAuthority
  /\ BootstrapTop \in Nat \ {0}
  /\ LearningRate \in 1..MaxAuthority
  /\ Decay \in 1..MaxAuthority
  /\ JoinAuthorities \subseteq 0..MaxAuthority
  /\ OverrideAuthorities \subseteq 0..MaxAuthority

VARIABLES
  authority,    \* Agent.authority
  status,       \* Agent.status; "absent" before the agent is in Firm._agents
  killSwitch,   \* ConstitutionalAgent.kill_switch_active
  logged        \* the entries the latest call appended to the ledger

agentVars == <<authority, status, killSwitch, logged>>

AgentStatus == {"active", "suspended", "probation", "terminated"}

LedgerAction == {"decision", "task_completed", "task_failed",
                 "authority_change", "governance_vote"}

(* What of a ledger entry the properties tell apart.                       *)
Entry == [agent : Agents \cup {Human}, action : LedgerAction]

Log(agent, action) == <<[agent |-> agent, action |-> action]>>

ByHuman == \E i \in DOMAIN logged : logged[i].agent = Human

Registered == {a \in Agents : status[a] # "absent"}

AgentsTypeOK ==
  /\ authority \in [Agents -> 0..MaxAuthority]
  /\ status \in [Agents -> AgentStatus \cup {"absent"}]
  /\ killSwitch \in BOOLEAN
  /\ logged \in Seq(Entry)

AgentsInit ==
  /\ authority = [a \in Agents |-> 0]
  /\ status = [a \in Agents |-> "absent"]
  /\ killSwitch = FALSE
  /\ logged = << >>

-----------------------------------------------------------------------------
(* Authority engine.                                                       *)

(* Definitions whose names end in an underscore and a fault are variants   *)
(* that no specification uses: README.md lists the property each breaks.   *)
Clamp_NoFloor(x) == IF x > MaxAuthority THEN MaxAuthority ELSE x

Clamp(x) == IF x < 0 THEN 0 ELSE IF x > MaxAuthority THEN MaxAuthority ELSE x

(* AuthorityEngine.update without calibration bonus.                       *)
Updated(a, success) ==
  [authority EXCEPT ![a] = Clamp(@ + IF success THEN LearningRate ELSE -Decay)]

CanVote(a) == status[a] = "active" /\ authority[a] >= VoteMin

-----------------------------------------------------------------------------
(* Constitutional Agent.  `auth' and `st' are the authorities and statuses *)
(* in the middle of the call that triggers the check.                      *)

Candidates_WithSuspended(st) ==
  {a \in Agents : st[a] \in {"active", "probation", "suspended"}}

Candidates(st) == {a \in Agents : st[a] \in {"active", "probation"}}

NeedsBootstrap_NoVoters(auth, st) ==
  \A a \in Agents : st[a] = "active" => auth[a] < VoteMin

NeedsBootstrap_SomeActive(auth, st) ==
  /\ \E a \in Agents : st[a] = "active"
  /\ \A a \in Agents : st[a] = "active" => auth[a] < ProbationBelow

(* assess_governance_health asks for a bootstrap when no agent is active   *)
(* or every active one is below the probation threshold.  An organisation  *)
(* without voters is only reported ("boost_best_performers").              *)
NeedsBootstrap(auth, st) ==
  \A a \in Agents : st[a] = "active" => auth[a] < ProbationBelow

(* The top_n candidates by authority.                                      *)
Boosted(auth, st) ==
  {T \in SUBSET Candidates(st) :
     /\ \/ Cardinality(T) = BootstrapTop
        \/ T = Candidates(st) /\ Cardinality(T) < BootstrapTop
     /\ \A t \in T, c \in Candidates(st) \ T : auth[t] >= auth[c]}

CheckGovernanceHealth(auth, st) ==
  IF NeedsBootstrap(auth, st)
  THEN \E T \in Boosted(auth, st) :
         /\ authority' = [a \in Agents |->
                            IF a \in T THEN BootstrapAuthority ELSE auth[a]]
         /\ status' = [a \in Agents |-> IF a \in T THEN "active" ELSE st[a]]
  ELSE authority' = auth /\ status' = st

-----------------------------------------------------------------------------
(* Firm.add_agent                                                          *)
AddAgent(a, x) ==
  /\ status[a] = "absent"
  /\ authority' = [authority EXCEPT ![a] = x]
  /\ status' = [status EXCEPT ![a] = "active"]
  /\ logged' = Log(a, "decision")
  /\ UNCHANGED killSwitch

OnProbation_Sweep(a, auth) ==
  [b \in Agents |-> IF status[b] = "active" /\ auth[b] < ProbationBelow
                    THEN "probation" ELSE status[b]]

(* The agent's status after Firm.record_action's probation check.          *)
OnProbation(a, auth) ==
  [status EXCEPT ![a] = IF auth[a] < ProbationBelow THEN "probation" ELSE @]

(* Firm.record_action                                                      *)
RecordAction(a, success) ==
  /\ status[a] = "active"
  /\ ~killSwitch
  /\ LET auth == Updated(a, success)
         st   == OnProbation(a, auth)
     IN /\ logged' = Log(a, IF success THEN "task_completed" ELSE "task_failed")
                       \o IF st[a] = "probation"
                          THEN Log(a, "authority_change") ELSE << >>
        /\ CheckGovernanceHealth(auth, st)
  /\ UNCHANGED killSwitch

(* AuthorityEngine.apply_decay over all agents: only active ones decay.    *)
ApplyDecay ==
  /\ authority' = [a \in Agents |->
                     IF status[a] = "active" THEN Clamp(authority[a] - Decay)
                     ELSE authority[a]]
  /\ logged' = << >>
  /\ UNCHANGED <<status, killSwitch>>

(* Agent.suspend has no guard.                                             *)
Suspend(a) ==
  /\ a \in Registered
  /\ status' = [status EXCEPT ![a] = "suspended"]
  /\ logged' = << >>
  /\ UNCHANGED <<authority, killSwitch>>

(* Agent.reactivate returns a suspended agent to probation.                *)
Reactivate(a) ==
  /\ status[a] = "suspended"
  /\ status' = [status EXCEPT ![a] = "probation"]
  /\ logged' = << >>
  /\ UNCHANGED <<authority, killSwitch>>

-----------------------------------------------------------------------------
(* Human override, agent part.                                             *)

(* HumanOverride.set_authority: 0 terminates, and a probation agent lifted *)
(* to the threshold is active again.                                       *)
HumanSetAuthority(a, x) ==
  /\ a \in Registered
  /\ authority' = [authority EXCEPT ![a] = x]
  /\ status' = [status EXCEPT ![a] =
                  IF x = 0 THEN "terminated"
                  ELSE IF @ = "probation" /\ x >= ProbationBelow THEN "active"
                  ELSE @]
  /\ logged' = Log(Human, "authority_change")
  /\ UNCHANGED killSwitch

HumanForceStatus(a, s) ==
  /\ a \in Registered
  /\ status' = [status EXCEPT ![a] = s]
  /\ logged' = Log(Human, "decision")
  /\ UNCHANGED <<authority, killSwitch>>

(* activate_kill_switch and deactivate_kill_switch                         *)
HumanKillSwitch(on) ==
  /\ killSwitch' = on
  /\ logged' = Log(Human, "decision")
  /\ UNCHANGED <<authority, status>>

-----------------------------------------------------------------------------
AgentStep ==
  \/ \E a \in Agents, x \in JoinAuthorities : AddAgent(a, x)
  \/ \E a \in Agents, success \in BOOLEAN : RecordAction(a, success)
  \/ ApplyDecay
  \/ \E a \in Agents : Suspend(a)
  \/ \E a \in Agents : Reactivate(a)
  \/ \E a \in Agents, x \in OverrideAuthorities : HumanSetAuthority(a, x)
  \/ \E a \in Agents, s \in AgentStatus : HumanForceStatus(a, s)
  \/ \E on \in BOOLEAN : HumanKillSwitch(on)

AgentsSpec == AgentsInit /\ [][AgentStep]_agentVars

-----------------------------------------------------------------------------
(* Properties.                                                             *)

ActionRecorded ==
  \E i \in DOMAIN logged : logged[i].action \in {"task_completed", "task_failed"}

(* "Authority is earned, never assigned" (agent.py): the authority of a    *)
(* member only rises through its own recorded success and by no more than  *)
(* the learning rate, through the human, or through a bootstrap, and a     *)
(* bootstrap happens only when no active agent was further than one        *)
(* failure above the probation threshold.                                  *)
EarnedAuthority ==
  [][\A a \in Registered : authority'[a] > authority[a] =>
       \/ ByHuman'
       \/ /\ logged'[1] = [agent |-> a, action |-> "task_completed"]
          /\ authority'[a] <= authority[a] + LearningRate
       \/ /\ authority'[a] = BootstrapAuthority
          /\ \A b \in Agents :
               status[b] = "active" => authority[b] < ProbationBelow + Decay]_agentVars

(* The health check that ends record_action leaves no deadlock: whatever   *)
(* the action did, some active agent is at or above the probation          *)
(* threshold afterwards.                                                   *)
HealthyAfterAction ==
  [][ActionRecorded' =>
       \E a \in Agents : status'[a] = "active" /\ authority'[a] >= ProbationBelow
    ]_agentVars

(* A suspended or terminated agent is never made active by the             *)
(* organisation itself: a bootstrap lifts probation, not a suspension.     *)
NoSilentReturn ==
  [][\A a \in Agents :
       status[a] \in {"suspended", "terminated"} /\ status'[a] = "active"
         => ByHuman']_agentVars

(* The ledger accounts for probation: an active agent loses its status     *)
(* through its own recorded action only with the probation entry, and a    *)
(* probation entry means probation unless the bootstrap of the same call   *)
(* lifted it again.                                                        *)
ProbationLedgered ==
  [][\A a \in Agents :
       LET entered == \E i \in DOMAIN logged' :
                        logged'[i] = [agent |-> a, action |-> "authority_change"]
       IN /\ (status[a] = "active" /\ status'[a] = "probation") => ByHuman' \/ entered
          /\ entered => \/ status'[a] = "probation"
                        \/ status'[a] = "active" /\ authority'[a] = BootstrapAuthority
    ]_agentVars
=============================================================================
