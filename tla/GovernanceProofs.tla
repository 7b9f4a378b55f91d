-------------------------- MODULE GovernanceProofs --------------------------
(* Theorems of module Agents, for every set of agents and every value of   *)
(* the thresholds, gains and losses that AgentsAssumption admits, and of   *)
(* module Governance, which rests on them, for every set of proposals.     *)
EXTENDS Governance, FiniteSetTheorems, SequenceTheorems, TLAPS

-----------------------------------------------------------------------------
(* Agents: lemmas.                                                         *)

(* Authority never leaves its scale.                                       *)
LEMMA ClampRange == \A x \in Int : Clamp(x) \in 0..MaxAuthority
  BY AgentsAssumption DEF Clamp

(* A success lifts one agent by at most the learning rate; a failure lowers *)
(* it by at most the decay; the others keep what they have.                *)
LEMMA UpdatedRange ==
  ASSUME NEW a \in Agents, NEW success \in BOOLEAN,
         authority \in [Agents -> 0..MaxAuthority]
  PROVE  /\ Updated(a, success) \in [Agents -> 0..MaxAuthority]
         /\ Updated(a, success)[a] <= authority[a] + LearningRate
         /\ Updated(a, success)[a] >= authority[a] - Decay
         /\ ~success => Updated(a, success)[a] <= authority[a]
         /\ \A b \in Agents \ {a} : Updated(a, success)[b] = authority[b]
<1> DEFINE step == IF success THEN LearningRate ELSE -Decay
<1>1. step \in Int /\ authority[a] + step \in Int /\ authority[a] \in 0..MaxAuthority
  BY AgentsAssumption
<1>2. Clamp(authority[a] + step) \in 0..MaxAuthority
  BY <1>1, ClampRange
<1>3. Updated(a, success) = [authority EXCEPT ![a] = Clamp(authority[a] + step)]
  BY DEF Updated
<1>4. /\ Clamp(authority[a] + step) <= authority[a] + LearningRate
      /\ Clamp(authority[a] + step) >= authority[a] - Decay
      /\ ~success => Clamp(authority[a] + step) <= authority[a]
  BY <1>1, AgentsAssumption DEF Clamp
<1> HIDE DEF step
<1> QED BY <1>2, <1>3, <1>4

(* The health check keeps authorities on the scale and statuses known.     *)
LEMMA HealthType ==
  ASSUME NEW auth \in [Agents -> 0..MaxAuthority],
         NEW st \in [Agents -> AgentStatus \cup {"absent"}],
         CheckGovernanceHealth(auth, st)
  PROVE  /\ authority' \in [Agents -> 0..MaxAuthority]
         /\ status' \in [Agents -> AgentStatus \cup {"absent"}]
  BY AgentsAssumption DEF CheckGovernanceHealth, AgentStatus

(* A bootstrap that has a candidate lifts somebody.                        *)
LEMMA BoostedSomebody ==
  ASSUME NEW auth, NEW st, Candidates(st) # {}, NEW T \in Boosted(auth, st)
  PROVE  T # {}
  BY FS_EmptySet, AgentsAssumption DEF Boosted

LEMMA LogType ==
  ASSUME NEW a \in Agents \cup {Human}, NEW act \in LedgerAction
  PROVE  /\ Log(a, act) \in Seq(Entry)
         /\ Len(Log(a, act)) = 1
         /\ Log(a, act)[1] = [agent |-> a, action |-> act]
  BY DEF Log, Entry

-----------------------------------------------------------------------------
(* Type correctness.                                                       *)

LEMMA AgentStepType == AgentsTypeOK /\ [AgentStep]_agentVars => AgentsTypeOK'
<1> SUFFICES ASSUME AgentsTypeOK, [AgentStep]_agentVars PROVE AgentsTypeOK'
  OBVIOUS
<1> USE DEF AgentsTypeOK
<1>1. ASSUME NEW a \in Agents, NEW x \in JoinAuthorities, AddAgent(a, x)
      PROVE  AgentsTypeOK'
  <2>1. x \in 0..MaxAuthority
    BY AgentsAssumption
  <2>2. logged' \in Seq(Entry)
    BY <1>1, LogType DEF AddAgent, LedgerAction
  <2> QED BY <1>1, <2>1, <2>2 DEF AddAgent, AgentStatus
<1>2. ASSUME NEW a \in Agents, NEW success \in BOOLEAN, RecordAction(a, success)
      PROVE  AgentsTypeOK'
  <2> DEFINE auth == Updated(a, success)
             st   == OnProbation(a, auth)
             done == IF success THEN "task_completed" ELSE "task_failed"
             more == IF st[a] = "probation" THEN Log(a, "authority_change") ELSE << >>
  <2>1. auth \in [Agents -> 0..MaxAuthority]
    BY UpdatedRange
  <2>2. st \in [Agents -> AgentStatus \cup {"absent"}]
    BY DEF OnProbation, AgentStatus
  <2>3. Log(a, done) \in Seq(Entry)
    BY LogType DEF LedgerAction
  <2>6. more \in Seq(Entry)
    <3>1. Log(a, "authority_change") \in Seq(Entry)
      BY LogType DEF LedgerAction
    <3>2. << >> \in Seq(Entry)
      OBVIOUS
    <3> QED BY <3>1, <3>2
  <2>4. logged' = Log(a, done) \o more /\ CheckGovernanceHealth(auth, st)
    BY <1>2 DEF RecordAction
  <2>5. killSwitch' = killSwitch
    BY <1>2 DEF RecordAction
  <2> HIDE DEF auth, st, done, more
  <2>7. logged' \in Seq(Entry)
    BY <2>3, <2>4, <2>6, ConcatProperties
  <2>8. authority' \in [Agents -> 0..MaxAuthority] /\ status' \in [Agents -> AgentStatus \cup {"absent"}]
    BY <2>1, <2>2, <2>4, HealthType
  <2> QED BY <2>5, <2>7, <2>8
<1>3. CASE ApplyDecay
  <2>1. \A a \in Agents : Clamp(authority[a] - Decay) \in 0..MaxAuthority
    <3> TAKE a \in Agents
    <3>1. authority[a] - Decay \in Int
      BY AgentsAssumption
    <3> QED BY <3>1, ClampRange
  <2>2. logged' \in Seq(Entry)
    BY <1>3 DEF ApplyDecay
  <2> QED BY <1>3, <2>1, <2>2 DEF ApplyDecay
<1>4. ASSUME NEW a \in Agents, Suspend(a) PROVE AgentsTypeOK'
  BY <1>4 DEF Suspend, AgentStatus
<1>5. ASSUME NEW a \in Agents, Reactivate(a) PROVE AgentsTypeOK'
  BY <1>5 DEF Reactivate, AgentStatus
<1>6. ASSUME NEW a \in Agents, NEW x \in OverrideAuthorities, HumanSetAuthority(a, x)
      PROVE  AgentsTypeOK'
  <2>1. x \in 0..MaxAuthority
    BY AgentsAssumption
  <2>2. logged' \in Seq(Entry)
    BY <1>6, LogType DEF HumanSetAuthority, LedgerAction
  <2> QED BY <1>6, <2>1, <2>2 DEF HumanSetAuthority, AgentStatus
<1>7. ASSUME NEW a \in Agents, NEW s \in AgentStatus, HumanForceStatus(a, s)
      PROVE  AgentsTypeOK'
  <2>1. logged' \in Seq(Entry)
    BY <1>7, LogType DEF HumanForceStatus, LedgerAction
  <2> QED BY <1>7, <2>1 DEF HumanForceStatus
<1>8. ASSUME NEW on \in BOOLEAN, HumanKillSwitch(on) PROVE AgentsTypeOK'
  <2>1. logged' \in Seq(Entry)
    BY <1>8, LogType DEF HumanKillSwitch, LedgerAction
  <2> QED BY <1>8, <2>1 DEF HumanKillSwitch
<1>9. CASE UNCHANGED agentVars
  BY <1>9 DEF agentVars
<1> QED BY <1>1, <1>2, <1>3, <1>4, <1>5, <1>6, <1>7, <1>8, <1>9 DEF AgentStep

LEMMA AgentsInitType == AgentsInit => AgentsTypeOK
<1>1. 0 \in 0..MaxAuthority
  BY AgentsAssumption
<1>2. << >> \in Seq(Entry)
  OBVIOUS
<1> QED BY <1>1, <1>2 DEF AgentsInit, AgentsTypeOK

(* Authority stays on its scale and every status is one the code knows,    *)
(* whatever the order of joins, actions, decays and overrides.             *)
THEOREM AgentsTypeCorrect == AgentsSpec => []AgentsTypeOK
  BY AgentsInitType, AgentStepType, PTL DEF AgentsSpec

-----------------------------------------------------------------------------
(* Action properties.                                                      *)

(* What a recorded action does to the ledger and to the agents, before the *)
(* health check.                                                           *)
LEMMA RecordActionEffect ==
  ASSUME AgentsTypeOK, NEW a \in Agents, NEW success \in BOOLEAN,
         RecordAction(a, success)
  PROVE  /\ status[a] = "active"
         /\ Len(logged') \in {1, 2}
         /\ logged'[1] = [agent |-> a, action |->
                             IF success THEN "task_completed" ELSE "task_failed"]
         /\ Len(logged') = 2 =>
              /\ logged'[2] = [agent |-> a, action |-> "authority_change"]
              /\ OnProbation(a, Updated(a, success))[a] = "probation"
         /\ OnProbation(a, Updated(a, success))[a] = "probation" => Len(logged') = 2
         /\ CheckGovernanceHealth(Updated(a, success), OnProbation(a, Updated(a, success)))
  BY DEF RecordAction, Log

(* The first entry of an action tells its outcome.                         *)
LEMMA RecordActionFirst ==
  ASSUME NEW a \in Agents, NEW success \in BOOLEAN, RecordAction(a, success)
  PROVE  logged'[1].action \in {"task_completed", "task_failed"}
<1>1. logged'[1] = [agent |-> a, action |->
                      IF success THEN "task_completed" ELSE "task_failed"]
  BY DEF RecordAction, Log
<1> QED BY <1>1

Overridden == \E act \in LedgerAction : logged' = Log(Human, act)

(* An override, and nothing else, is logged under the human's name.        *)
LEMMA OverriddenByHuman == Overridden => ByHuman'
  BY DEF Overridden, ByHuman, Log

(* The steps that record an action are those of record_action, and those   *)
(* that log under the human's name are the overrides.                      *)
LEMMA StepKinds ==
  ASSUME AgentsTypeOK, AgentStep
  PROVE  \/ \E a \in Agents, x \in JoinAuthorities : AddAgent(a, x) /\ ~ActionRecorded'
         \/ \E a \in Agents, success \in BOOLEAN : RecordAction(a, success)
         \/ ApplyDecay /\ ~ActionRecorded'
         \/ \E a \in Agents : Suspend(a) /\ ~ActionRecorded'
         \/ \E a \in Agents : Reactivate(a) /\ ~ActionRecorded'
         \/ Overridden /\ ~ActionRecorded'
<1>1. ASSUME NEW a \in Agents, NEW x \in JoinAuthorities, AddAgent(a, x)
      PROVE  ~ActionRecorded'
  BY <1>1 DEF AddAgent, Log, ActionRecorded
<1>2. ASSUME NEW a \in Agents, NEW x \in OverrideAuthorities, HumanSetAuthority(a, x)
      PROVE  Overridden /\ ~ActionRecorded'
  BY <1>2 DEF HumanSetAuthority, Log, ActionRecorded, Overridden, LedgerAction
<1>3. ASSUME NEW a \in Agents, NEW s \in AgentStatus, HumanForceStatus(a, s)
      PROVE  Overridden /\ ~ActionRecorded'
  BY <1>3 DEF HumanForceStatus, Log, ActionRecorded, Overridden, LedgerAction
<1>4. ASSUME NEW on \in BOOLEAN, HumanKillSwitch(on)
      PROVE  Overridden /\ ~ActionRecorded'
  BY <1>4 DEF HumanKillSwitch, Log, ActionRecorded, Overridden, LedgerAction
<1>5. ApplyDecay => ~ActionRecorded'
  BY DEF ApplyDecay, ActionRecorded
<1>6. ASSUME NEW a \in Agents PROVE Suspend(a) \/ Reactivate(a) => ~ActionRecorded'
  BY DEF Suspend, Reactivate, ActionRecorded
<1> QED BY <1>1, <1>2, <1>3, <1>4, <1>5, <1>6 DEF AgentStep

(* An organisation that has a candidate has, after its health check, an    *)
(* active agent at or above the probation threshold.                       *)
LEMMA HealthRestored ==
  ASSUME NEW auth \in [Agents -> 0..MaxAuthority],
         NEW st \in [Agents -> AgentStatus \cup {"absent"}],
         Candidates(st) # {}, CheckGovernanceHealth(auth, st)
  PROVE  \E a \in Agents : status'[a] = "active" /\ authority'[a] >= ProbationBelow
<1>1. CASE NeedsBootstrap(auth, st)
  <2>1. PICK T \in Boosted(auth, st) :
           /\ authority' = [a \in Agents |->
                              IF a \in T THEN BootstrapAuthority ELSE auth[a]]
           /\ status' = [a \in Agents |-> IF a \in T THEN "active" ELSE st[a]]
    BY <1>1 DEF CheckGovernanceHealth
  <2>2. PICK t \in T : t \in Agents
    BY BoostedSomebody DEF Boosted, Candidates
  <2>3. BootstrapAuthority >= ProbationBelow
    BY AgentsAssumption
  <2> QED BY <2>1, <2>2, <2>3
<1>2. CASE ~NeedsBootstrap(auth, st)
  <2>1. PICK a \in Agents : st[a] = "active" /\ ~(auth[a] < ProbationBelow)
    BY <1>2 DEF NeedsBootstrap
  <2>2. auth[a] >= ProbationBelow
    BY <2>1, AgentsAssumption
  <2>3. authority' = auth /\ status' = st
    BY <1>2 DEF CheckGovernanceHealth
  <2> QED BY <2>1, <2>2, <2>3
<1> QED BY <1>1, <1>2

(* However low the recorded action left everybody, the organisation is not *)
(* deadlocked afterwards.                                                  *)
THEOREM HealthyAfterActionHolds == AgentsSpec => HealthyAfterAction
<1>1. AgentsTypeOK /\ [AgentStep]_agentVars =>
        [ActionRecorded' =>
           \E a \in Agents : status'[a] = "active" /\ authority'[a] >= ProbationBelow
        ]_agentVars
  <2> SUFFICES ASSUME AgentsTypeOK, AgentStep, ActionRecorded'
               PROVE  \E a \in Agents : status'[a] = "active" /\ authority'[a] >= ProbationBelow
    OBVIOUS
  <2>1. PICK a \in Agents, success \in BOOLEAN : RecordAction(a, success)
    BY StepKinds
  <2> DEFINE auth == Updated(a, success)
             st   == OnProbation(a, auth)
  <2>2. auth \in [Agents -> 0..MaxAuthority]
    BY UpdatedRange DEF AgentsTypeOK
  <2>3. st \in [Agents -> AgentStatus \cup {"absent"}]
    BY DEF OnProbation, AgentStatus, AgentsTypeOK
  <2>4. status[a] = "active" /\ CheckGovernanceHealth(auth, st)
    BY <2>1, RecordActionEffect
  <2>5. a \in Candidates(st)
    BY <2>4 DEF Candidates, OnProbation, AgentsTypeOK
  <2> HIDE DEF auth, st
  <2> QED BY <2>2, <2>3, <2>4, <2>5, HealthRestored
<1> QED BY <1>1, AgentsTypeCorrect, PTL DEF AgentsSpec, HealthyAfterAction

(* No suspension and no termination is undone by the organisation itself.  *)
THEOREM NoSilentReturnHolds == AgentsSpec => NoSilentReturn
<1>1. AgentsTypeOK /\ [AgentStep]_agentVars =>
        [\A a \in Agents :
           status[a] \in {"suspended", "terminated"} /\ status'[a] = "active"
             => ByHuman']_agentVars
  <2> SUFFICES ASSUME AgentsTypeOK, AgentStep, ~ByHuman', NEW a \in Agents,
                      status[a] \in {"suspended", "terminated"}
               PROVE  status'[a] # "active"
    OBVIOUS
  <2> USE DEF AgentsTypeOK
  <2>1. ASSUME NEW b \in Agents, NEW x \in JoinAuthorities, AddAgent(b, x)
        PROVE  status'[a] # "active"
    BY <2>1 DEF AddAgent
  <2>2. ASSUME NEW b \in Agents, NEW success \in BOOLEAN, RecordAction(b, success)
        PROVE  status'[a] # "active"
    <3> DEFINE auth == Updated(b, success)
               st   == OnProbation(b, auth)
    <3>1. status[b] = "active" /\ CheckGovernanceHealth(auth, st)
      BY <2>2, RecordActionEffect
    <3>2. st[a] \in {"suspended", "terminated"}
      BY <3>1 DEF OnProbation
    <3> HIDE DEF auth, st
    <3> QED BY <3>1, <3>2 DEF CheckGovernanceHealth, Boosted, Candidates
  <2>3. ASSUME NEW b \in Agents, Suspend(b) \/ Reactivate(b) PROVE status'[a] # "active"
    BY <2>3 DEF Suspend, Reactivate
  <2>4. ApplyDecay => status'[a] # "active"
    BY DEF ApplyDecay
  <2> QED BY <2>1, <2>2, <2>3, <2>4, StepKinds, OverriddenByHuman
<1> QED BY <1>1, AgentsTypeCorrect, PTL DEF AgentsSpec, NoSilentReturn

(* The authority each agent ends a recorded action with.                   *)
LEMMA RecordActionAuthority ==
  ASSUME AgentsTypeOK, NEW a \in Agents, NEW b \in Agents, NEW success \in BOOLEAN,
         RecordAction(b, success)
  PROVE  \/ authority'[a] = Updated(b, success)[a]
         \/ /\ authority'[a] = BootstrapAuthority
            /\ \A c \in Agents :
                 status[c] = "active" => authority[c] < ProbationBelow + Decay
<1> DEFINE auth == Updated(b, success)
           st   == OnProbation(b, auth)
<1>1. /\ auth \in [Agents -> 0..MaxAuthority]
      /\ auth[b] >= authority[b] - Decay
      /\ \A c \in Agents \ {b} : auth[c] = authority[c]
  BY UpdatedRange DEF AgentsTypeOK
<1>2. CheckGovernanceHealth(auth, st)
  BY RecordActionEffect
<1>3. /\ st[b] = IF auth[b] < ProbationBelow THEN "probation" ELSE status[b]
      /\ \A c \in Agents \ {b} : st[c] = status[c]
  BY DEF OnProbation, AgentsTypeOK
<1> HIDE DEF auth, st
<1>4. CASE ~NeedsBootstrap(auth, st)
  BY <1>2, <1>4 DEF CheckGovernanceHealth, auth
<1>5. CASE NeedsBootstrap(auth, st)
  <2>1. authority'[a] = BootstrapAuthority \/ authority'[a] = auth[a]
    BY <1>2, <1>5 DEF CheckGovernanceHealth
  <2>2. ASSUME NEW c \in Agents, status[c] = "active"
        PROVE  authority[c] < ProbationBelow + Decay
    <3>1. auth[c] < ProbationBelow
      BY <1>3, <1>5, <2>2 DEF NeedsBootstrap
    <3>2. auth[c] >= authority[c] - Decay
      <4>1. CASE c = b
        BY <1>1, <4>1
      <4>2. CASE c # b
        <5>1. auth[c] = authority[c] /\ authority[c] \in 0..MaxAuthority
          BY <1>1, <4>2 DEF AgentsTypeOK
        <5> QED BY <5>1, AgentsAssumption
      <4> QED BY <4>1, <4>2
    <3>3. auth[c] \in Int /\ authority[c] \in Int
      BY <1>1 DEF AgentsTypeOK
    <3> QED BY <3>1, <3>2, <3>3, AgentsAssumption
  <2> QED BY <2>1, <2>2 DEF auth
<1> QED BY <1>4, <1>5

(* "Authority is earned, never assigned", for every step of every history. *)
THEOREM EarnedAuthorityHolds == AgentsSpec => EarnedAuthority
<1>1. AgentsTypeOK /\ [AgentStep]_agentVars =>
        [\A a \in Registered : authority'[a] > authority[a] =>
           \/ ByHuman'
           \/ /\ logged'[1] = [agent |-> a, action |-> "task_completed"]
              /\ authority'[a] <= authority[a] + LearningRate
           \/ /\ authority'[a] = BootstrapAuthority
              /\ \A b \in Agents :
                   status[b] = "active" => authority[b] < ProbationBelow + Decay]_agentVars
  <2> SUFFICES ASSUME AgentsTypeOK, AgentStep, ~ByHuman', NEW a \in Registered,
                      authority'[a] > authority[a]
               PROVE  \/ /\ logged'[1] = [agent |-> a, action |-> "task_completed"]
                         /\ authority'[a] <= authority[a] + LearningRate
                      \/ /\ authority'[a] = BootstrapAuthority
                         /\ \A b \in Agents :
                              status[b] = "active" => authority[b] < ProbationBelow + Decay
    OBVIOUS
  <2>1. a \in Agents /\ status[a] # "absent" /\ authority[a] \in 0..MaxAuthority
    BY DEF Registered, AgentsTypeOK
  <2>2. ASSUME NEW b \in Agents, NEW x \in JoinAuthorities, AddAgent(b, x)
        PROVE  FALSE
    BY <2>1, <2>2 DEF AddAgent, AgentsTypeOK
  <2>3. ApplyDecay => FALSE
    BY <2>1, AgentsAssumption DEF ApplyDecay, Clamp, AgentsTypeOK
  <2>4. ASSUME NEW b \in Agents, Suspend(b) \/ Reactivate(b) PROVE FALSE
    BY <2>1, <2>4 DEF Suspend, Reactivate
  <2>5. PICK b \in Agents, success \in BOOLEAN : RecordAction(b, success)
    BY <2>2, <2>3, <2>4, StepKinds, OverriddenByHuman
  <2>6. CASE authority'[a] = Updated(b, success)[a]
    <3>1. a = b /\ success
      <4>1. authority[a] \in 0..MaxAuthority /\ a \in Agents
        BY DEF AgentsTypeOK, Registered
      <4>2. Updated(b, success)[a] > authority[a]
        BY <2>1, <2>6
      <4>3. a = b
        BY <4>1, <4>2, UpdatedRange, AgentsAssumption DEF AgentsTypeOK
      <4>4. success
        BY <4>1, <4>2, <4>3, UpdatedRange, AgentsAssumption DEF AgentsTypeOK
      <4> QED BY <4>3, <4>4
    <3>2. authority'[a] <= authority[a] + LearningRate
      BY <2>6, <3>1, UpdatedRange DEF AgentsTypeOK
    <3> QED BY <2>5, <3>1, <3>2, RecordActionEffect
  <2> QED BY <2>1, <2>5, <2>6, RecordActionAuthority
<1> QED BY <1>1, AgentsTypeCorrect, PTL DEF AgentsSpec, EarnedAuthority

(* The ledger's probation entries and the agents' probations agree.        *)
THEOREM ProbationLedgeredHolds == AgentsSpec => ProbationLedgered
<1> DEFINE Entered(a) == \E i \in DOMAIN logged' :
                           logged'[i] = [agent |-> a, action |-> "authority_change"]
           Lifted(a) == status'[a] = "active" /\ authority'[a] = BootstrapAuthority
<1>1. ASSUME AgentsTypeOK, AgentsTypeOK', AgentStep, NEW a \in Agents
      PROVE  /\ (status[a] = "active" /\ status'[a] = "probation")
                   => ByHuman' \/ Entered(a)
             /\ Entered(a) => status'[a] = "probation" \/ Lifted(a)
  <2> USE DEF AgentsTypeOK
  <2>1. ASSUME NEW b \in Agents, NEW x \in JoinAuthorities, AddAgent(b, x)
        PROVE  status'[a] # "probation" \/ status[a] # "active"
    BY <1>1, <2>1 DEF AddAgent
  <2>2. ASSUME NEW b \in Agents, NEW x \in JoinAuthorities, AddAgent(b, x)
        PROVE  ~Entered(a)
    BY <2>2 DEF AddAgent, Log
  <2>3. ASSUME ApplyDecay \/ \E b \in Agents : Suspend(b) \/ Reactivate(b)
        PROVE  ~Entered(a) /\ ~(status[a] = "active" /\ status'[a] = "probation")
    <3>1. logged' = << >>
      BY <1>1, <2>3 DEF ApplyDecay, Suspend, Reactivate
    <3>2. ~(status[a] = "active" /\ status'[a] = "probation")
      BY <1>1, <2>3 DEF ApplyDecay, Suspend, Reactivate
    <3> QED BY <3>1, <3>2
  <2>4. Overridden => ByHuman' /\ ~Entered(a)
    BY OverriddenByHuman, AgentsAssumption DEF Overridden, Log
  <2>5. ASSUME NEW b \in Agents, NEW success \in BOOLEAN, RecordAction(b, success)
        PROVE  /\ (status[a] = "active" /\ status'[a] = "probation") => Entered(a)
               /\ Entered(a) => status'[a] = "probation" \/ Lifted(a)
    <3> DEFINE auth == Updated(b, success)
               st   == OnProbation(b, auth)
    <3>1. /\ (st[b] = "probation") <=> (Len(logged') = 2)
          /\ Len(logged') \in {1, 2}
          /\ Len(logged') = 2 => logged'[2] = [agent |-> b, action |-> "authority_change"]
      BY <1>1, <2>5, RecordActionEffect
    <3>6. logged'[1].action # "authority_change"
      BY <2>5, RecordActionFirst
    <3>7. CheckGovernanceHealth(auth, st)
      BY <1>1, <2>5, RecordActionEffect
    <3>2. DOMAIN logged' = 1..Len(logged')
      BY <1>1
    <3>3. Entered(a) <=> a = b /\ st[b] = "probation"
      BY <3>1, <3>2, <3>6
    <3>4. \A c \in Agents \ {b} : st[c] = status[c]
      BY <1>1 DEF OnProbation
    <3> HIDE DEF auth, st, Entered
    <3>5. status'[a] = st[a] \/ Lifted(a)
      BY <1>1, <3>7 DEF CheckGovernanceHealth
    <3>8. CASE a = b
      BY <1>1, <3>3, <3>5, <3>8
    <3>9. CASE a # b
      BY <1>1, <3>3, <3>4, <3>5, <3>9
    <3> QED BY <3>8, <3>9
  <2> HIDE DEF Entered, Lifted
  <2> QED BY <1>1, <2>1, <2>2, <2>3, <2>4, <2>5, StepKinds
<1>2. AgentsTypeOK /\ AgentsTypeOK' /\ [AgentStep]_agentVars =>
        [\A a \in Agents :
           LET entered == \E i \in DOMAIN logged' :
                            logged'[i] = [agent |-> a, action |-> "authority_change"]
           IN /\ (status[a] = "active" /\ status'[a] = "probation") => ByHuman' \/ entered
              /\ entered => \/ status'[a] = "probation"
                            \/ status'[a] = "active" /\ authority'[a] = BootstrapAuthority
        ]_agentVars
  BY <1>1
<1> QED BY <1>2, AgentsTypeCorrect, PTL DEF AgentsSpec, ProbationLedgered

-----------------------------------------------------------------------------
(* Governance.                                                             *)

(* No weight is behind a choice that nobody made.                          *)
LEMMA NoVoteNoWeight ==
  ASSUME NEW vs, NEW choice, \A v \in vs : v.choice # choice
  PROVE  Weight(vs, choice) = 0
<1> DEFINE chosen == {v \in vs : v.choice = choice}
<1>1. chosen = {}
  OBVIOUS
<1>2. MapThenSumSet(LAMBDA v : v.weight, {}) = 0
  <2> DEFINE iter[s \in SUBSET {}] ==
        IF s = {} THEN 0
        ELSE LET x == CHOOSE x \in s : TRUE IN x.weight + iter[s \ {x}]
  <2>1. iter[{}] = 0
    <3> DEFINE F == [s \in SUBSET {} |-> 0]
        P(f) == f = [s \in SUBSET {} |->
                  IF s = {} THEN 0
                  ELSE LET x == CHOOSE x \in s : TRUE IN x.weight + f[s \ {x}]]
    <3>1. P(F)
      OBVIOUS
    <3>2. P(CHOOSE f : P(f))
      BY <3>1
    <3>3. iter = (CHOOSE f : P(f))
      OBVIOUS
    <3> QED BY <3>2, <3>3
  <2> QED BY <2>1 DEF MapThenSumSet, MapThenFoldSet
<1> QED BY <1>1, <1>2 DEF Weight

LEMMA MajorityHasSupporter ==
  ASSUME NEW vs, MajorityApproves(vs)
  PROVE  \E v \in vs : v.choice = "approve"
  BY NoVoteNoWeight DEF MajorityApproves

-----------------------------------------------------------------------------
(* Type correctness.                                                       *)

(* No governance step touches the agents, and each logs one entry at most. *)
LEMMA ProposalStepAgents ==
  ASSUME AgentsTypeOK, ProposalStep
  PROVE  UNCHANGED <<authority, status, killSwitch>> /\ logged' \in Seq(Entry)
<1>1. UNCHANGED <<authority, status, killSwitch>>
  BY DEF ProposalStep, Propose, Simulate, OpenVoting, CastVote, Finalize, CompleteCooldown,
         Rollback, Veto, ResolveFutarchy, HumanForce, Tick,
         Unlogged, LoggedBy
<1>2. \/ logged' = << >>
      \/ \E a \in Agents \cup {Human} : logged' = Log(a, "governance_vote")
  BY DEF ProposalStep, Propose, Simulate, OpenVoting, CastVote, Finalize, CompleteCooldown,
         Rollback, Veto, ResolveFutarchy, HumanForce, Tick,
         Unlogged, LoggedBy
<1>3. << >> \in Seq(Entry)
  OBVIOUS
<1>4. \A a \in Agents \cup {Human} : Log(a, "governance_vote") \in Seq(Entry)
  BY LogType DEF LedgerAction
<1> QED BY <1>1, <1>2, <1>3, <1>4

LEMMA ProposalStepType == TypeOK /\ ProposalStep => TypeOK'
<1> SUFFICES ASSUME TypeOK, ProposalStep PROVE TypeOK'
  OBVIOUS
<1>0. AgentsTypeOK'
  BY ProposalStepAgents DEF TypeOK, AgentsTypeOK
<1> DEFINE PType == /\ pstatus \in [Proposals -> ProposalStatus \cup {"absent"}]
                    /\ ptype \in [Proposals -> ProposalType]
                    /\ reviews \in [Proposals -> SUBSET Rounds]
                    /\ votes \in [Proposals -> SUBSET Vote]
                    /\ veto \in [Proposals -> BOOLEAN]
                    /\ approvedAt \in [Proposals -> 0..MaxTime]
                    /\ now \in 0..MaxTime
<1>1. PType
  BY DEF TypeOK
<1> USE <1>1 DEF ProposalStatus, Review, Rounds
<1>2. ASSUME NEW p \in Proposals, NEW a \in Agents, NEW type \in ProposalType,
             Propose(a, p, type)
      PROVE  PType'
  BY <1>2 DEF Propose
<1>3. ASSUME NEW p \in Proposals, NEW a \in Agents, NEW choice \in VoteChoice,
             CastVote(p, a, choice)
      PROVE  PType'
  <2>1. [voter |-> a, choice |-> choice, weight |-> authority[a]] \in Vote
    BY DEF Vote, TypeOK, AgentsTypeOK
  <2> QED BY <1>3, <2>1 DEF CastVote
<1>4. ASSUME NEW p \in Proposals, Simulate(p) PROVE PType'
  <2>1. \E s \in Review : pstatus' = [pstatus EXCEPT ![p] = s]
    BY <1>4 DEF Simulate, NextRound
  <2>2. NextRound(pstatus[p]) \in Rounds
    BY <1>4 DEF Simulate, NextRound
  <2> QED BY <1>4, <2>1, <2>2 DEF Simulate
<1>5. ASSUME NEW p \in Proposals, OpenVoting(p) PROVE PType'
  BY <1>5 DEF OpenVoting
<1>6. ASSUME NEW p \in Proposals, Finalize(p) PROVE PType'
  BY <1>6 DEF Finalize
<1>7. ASSUME NEW p \in Proposals, CompleteCooldown(p) PROVE PType'
  BY <1>7 DEF CompleteCooldown
<1>8. ASSUME NEW p \in Proposals, Rollback(p) PROVE PType'
  BY <1>8 DEF Rollback
<1>9. ASSUME NEW p \in Proposals, Veto(p) PROVE PType'
  BY <1>9 DEF Veto
<1>10. ASSUME NEW p \in Proposals, NEW likely \in BOOLEAN, ResolveFutarchy(p, likely)
       PROVE  PType'
  BY <1>10 DEF ResolveFutarchy
<1>11. ASSUME NEW p \in Proposals, NEW s \in {"approved", "rejected"}, HumanForce(p, s)
       PROVE  PType'
  BY <1>11 DEF HumanForce
<1>12. Tick => PType'
  BY GovernanceAssumption DEF Tick
<1>13. PType'
  BY <1>2, <1>3, <1>4, <1>5, <1>6, <1>7, <1>8, <1>9, <1>10, <1>11, <1>12 DEF ProposalStep
<1> QED BY <1>0, <1>13 DEF TypeOK

LEMMA NextType == TypeOK /\ [Next]_vars => TypeOK'
<1>1. TypeOK /\ AgentStep /\ UNCHANGED proposalVars => TypeOK'
  BY AgentStepType DEF TypeOK, proposalVars
<1>2. TypeOK /\ UNCHANGED vars => TypeOK'
  BY DEF TypeOK, AgentsTypeOK, vars, agentVars, proposalVars
<1> QED BY <1>1, <1>2, ProposalStepType DEF Next

LEMMA InitType == Init => TypeOK
<1>1. AgentsInit => AgentsTypeOK
  BY AgentsInitType
<1>2. 0 \in 0..MaxTime
  BY GovernanceAssumption
<1> QED BY <1>1, <1>2 DEF Init, TypeOK, ProposalType

(* Every proposal, vote and clock value is well formed in every history of *)
(* governance among agents that keep acting.                               *)
THEOREM TypeCorrect == Spec => []TypeOK
  BY InitType, NextType, PTL DEF Spec

-----------------------------------------------------------------------------
(* The inductive invariant.                                                *)

LEMMA InitInv == Init => IInv
  BY InitType DEF Init, IInv, ReviewRecorded, RoundsDone, BallotIntegrity, CooldownEarned

(* The part of the invariant beyond types depends on the proposals alone.  *)
LEMMA UntouchedInv ==
  ASSUME IInv, UNCHANGED proposalVars
  PROVE  ReviewRecorded' /\ BallotIntegrity' /\ CooldownEarned'
  BY DEF IInv, proposalVars, ReviewRecorded, BallotIntegrity, CooldownEarned

LEMMA ProposalStepInv ==
  ASSUME IInv, ProposalStep
  PROVE  ReviewRecorded' /\ BallotIntegrity' /\ CooldownEarned'
<1> DEFINE Rest == ReviewRecorded /\ BallotIntegrity /\ CooldownEarned
<1>0. /\ TypeOK
      /\ \A p \in Proposals : approvedAt[p] \in Nat /\ now \in Nat
  BY DEF IInv, TypeOK
<1> USE <1>0 DEF IInv
<1>1. ASSUME NEW p \in Proposals, NEW a \in Agents, NEW type \in ProposalType,
             Propose(a, p, type)
      PROVE  Rest'
  <2>1. ReviewRecorded'
    BY <1>1 DEF Propose, ReviewRecorded, RoundsDone, TypeOK
  <2>2. BallotIntegrity'
    BY <1>1 DEF Propose, BallotIntegrity
  <2>3. CooldownEarned'
    BY <1>1 DEF Propose, CooldownEarned, TypeOK
  <2> QED BY <2>1, <2>2, <2>3
<1>2. ASSUME NEW p \in Proposals, NEW a \in Agents, NEW choice \in VoteChoice,
             CastVote(p, a, choice)
      PROVE  Rest'
  <2>1. ReviewRecorded'
    BY <1>2 DEF CastVote, ReviewRecorded, TypeOK
  <2>2. BallotIntegrity'
    <3> DEFINE v == [voter |-> a, choice |-> choice, weight |-> authority[a]]
    <3>1. votes' = [votes EXCEPT ![p] = votes[p] \cup {v}]
      BY <1>2 DEF CastVote
    <3>2. v.voter = a /\ v.weight >= VoteMin /\ \A w \in votes[p] : w.voter # a
      BY <1>2 DEF CastVote
    <3>3. reviews'[p] = Rounds
      BY <1>2 DEF CastVote, ReviewRecorded, RoundsDone
    <3>4. UNCHANGED reviews
      BY <1>2 DEF CastVote
    <3> HIDE DEF v
    <3> QED BY <3>1, <3>2, <3>3, <3>4 DEF BallotIntegrity, TypeOK
  <2>3. CooldownEarned'
    BY <1>2 DEF CastVote, CooldownEarned, TypeOK
  <2> QED BY <2>1, <2>2, <2>3
<1>3. ASSUME NEW p \in Proposals, Simulate(p) PROVE Rest'
  <2>1. /\ pstatus' = [pstatus EXCEPT ![p] = NextRound(pstatus[p])]
        /\ reviews' = [reviews EXCEPT ![p] = RoundsDone(NextRound(pstatus[p]))]
        /\ UNCHANGED <<ptype, votes, approvedAt, now>>
    BY <1>3 DEF Simulate, NextRound, Review, Rounds, ReviewRecorded, RoundsDone, TypeOK
  <2>2. NextRound(pstatus[p]) \in Rounds /\ reviews[p] # Rounds
    BY <1>3 DEF Simulate, NextRound, Review, Rounds, ReviewRecorded, RoundsDone
  <2>3. ReviewRecorded'
    BY <2>1 DEF ReviewRecorded, TypeOK
  <2>4. BallotIntegrity'
    BY <2>1, <2>2 DEF BallotIntegrity, TypeOK
  <2>5. CooldownEarned'
    BY <2>1, <2>2 DEF CooldownEarned, TypeOK, Rounds
  <2> QED BY <2>3, <2>4, <2>5
<1>4. ASSUME NEW p \in Proposals, OpenVoting(p) PROVE Rest'
  <2>1. ReviewRecorded'
    BY <1>4 DEF OpenVoting, ReviewRecorded, RoundsDone, Review, Rounds, TypeOK
  <2>2. BallotIntegrity' /\ CooldownEarned'
    BY <1>4 DEF OpenVoting, BallotIntegrity, CooldownEarned, TypeOK
  <2> QED BY <2>1, <2>2
<1>5. ASSUME NEW p \in Proposals, Finalize(p) PROVE Rest'
  <2>1. reviews[p] = Rounds
    BY <1>5 DEF Finalize, ReviewRecorded, RoundsDone
  <2>2. ReviewRecorded' /\ BallotIntegrity'
    BY <1>5 DEF Finalize, ReviewRecorded, BallotIntegrity, TypeOK, Review, Rounds
  <2>3. CooldownEarned'
    BY <1>5, <2>1 DEF Finalize, CooldownEarned, Carried, TypeOK
  <2> QED BY <2>2, <2>3
<1>6. ASSUME NEW p \in Proposals,
             CompleteCooldown(p) \/ Rollback(p) \/ Veto(p)
               \/ \E s \in {"approved", "rejected"} : HumanForce(p, s)
      PROVE  Rest'
  <2>1. /\ \/ UNCHANGED pstatus
           \/ \E s \in {"approved", "rolled_back", "rejected"} :
                pstatus' = [pstatus EXCEPT ![p] = s]
        /\ UNCHANGED <<ptype, reviews, votes, approvedAt, now>>
    BY <1>6 DEF CompleteCooldown, Rollback, Veto, HumanForce, TypeOK
  <2>2. ReviewRecorded'
    BY <2>1 DEF ReviewRecorded, TypeOK, Review, Rounds
  <2>3. BallotIntegrity' /\ CooldownEarned'
    BY <2>1 DEF BallotIntegrity, CooldownEarned, TypeOK
  <2> QED BY <2>2, <2>3
<1>7. ASSUME NEW p \in Proposals, NEW likely \in BOOLEAN, ResolveFutarchy(p, likely)
      PROVE  Rest'
  <2>1. ReviewRecorded' /\ BallotIntegrity'
    BY <1>7 DEF ResolveFutarchy, ReviewRecorded, BallotIntegrity, TypeOK, Review, Rounds
  <2>2. CooldownEarned'
    BY <1>7 DEF ResolveFutarchy, CooldownEarned, TypeOK
  <2> QED BY <2>1, <2>2
<1>8. Tick => Rest'
  BY DEF Tick, ReviewRecorded, BallotIntegrity, CooldownEarned
<1>9. Rest'
  BY <1>1, <1>2, <1>3, <1>4, <1>5, <1>6, <1>7, <1>8 DEF ProposalStep
<1> QED BY <1>9

LEMMA NextInv == IInv /\ [Next]_vars => IInv'
<1>1. IInv /\ UNCHANGED proposalVars =>
        ReviewRecorded' /\ BallotIntegrity' /\ CooldownEarned'
  BY UntouchedInv
<1>2. IInv /\ [Next]_vars => ReviewRecorded' /\ BallotIntegrity' /\ CooldownEarned'
  BY <1>1, ProposalStepInv DEF Next, vars
<1> QED BY <1>2, NextType DEF IInv

(* One vote per agent, cast with the authority it takes and after the full *)
(* review; and every cooldown was earned.                                  *)
THEOREM Inductive == Spec => []IInv
  BY InitInv, NextInv, PTL DEF Spec

(* For any agents and proposals, and however authority moves: one vote per *)
(* agent, each with the authority it takes, and none before the review.    *)
THEOREM BallotIntegrityHolds == Spec => []BallotIntegrity
<1>1. IInv => BallotIntegrity
  BY DEF IInv
<1> QED BY <1>1, Inductive, PTL

(* A proposal in its cooldown, unless it is a futarchy, was reviewed in    *)
(* full and is carried by the votes in its box.                            *)
THEOREM CooldownEarnedHolds == Spec => []CooldownEarned
<1>1. IInv => CooldownEarned
  BY DEF IInv
<1> QED BY <1>1, Inductive, PTL

(* No proposal is adopted unheard: the human aside, adoption takes a full  *)
(* cooldown after the ballot, or the market, carried the proposal.         *)
THEOREM AdoptionEarnedHolds == Spec => AdoptionEarned
<1>1. IInv /\ [Next]_vars =>
        [\A p \in Proposals :
           pstatus[p] # "approved" /\ pstatus'[p] = "approved" /\ ~ByHuman' =>
             /\ now >= approvedAt[p] + Cooldown
             /\ ptype[p] = "general" => reviews[p] = Rounds /\ MajorityApproves(votes[p])
        ]_vars
  <2> SUFFICES ASSUME IInv, Next, ~ByHuman', NEW p \in Proposals,
                      pstatus[p] # "approved", pstatus'[p] = "approved"
               PROVE  /\ now >= approvedAt[p] + Cooldown
                      /\ ptype[p] = "general" =>
                           reviews[p] = Rounds /\ MajorityApproves(votes[p])
    OBVIOUS
  <2>1. CompleteCooldown(p)
    <3> USE DEF IInv, TypeOK
    <3>1. ProposalStep
      BY DEF Next, proposalVars
    <3>2. ASSUME NEW q \in Proposals, NEW a \in Agents, NEW type \in ProposalType,
                 NEW choice \in VoteChoice, Propose(a, q, type) \/ CastVote(q, a, choice)
          PROVE  FALSE
      BY <3>2 DEF Propose, CastVote
    <3>3. ASSUME NEW q \in Proposals, Simulate(q)
          PROVE  FALSE
      BY <3>3 DEF Simulate, NextRound, Review, Rounds
    <3>4. ASSUME NEW q \in Proposals,
                 OpenVoting(q) \/ Finalize(q) \/ Rollback(q) \/ Veto(q)
                   \/ \E likely \in BOOLEAN : ResolveFutarchy(q, likely)
          PROVE  FALSE
      BY <3>4 DEF OpenVoting, Finalize, Rollback, Veto, ResolveFutarchy
    <3>5. ASSUME NEW q \in Proposals, NEW s, HumanForce(q, s) PROVE FALSE
      BY <3>5 DEF HumanForce, LoggedBy, Log, ByHuman
    <3>6. ~Tick
      BY DEF Tick
    <3>7. PICK q \in Proposals : CompleteCooldown(q)
      BY <3>1, <3>2, <3>3, <3>4, <3>5, <3>6 DEF ProposalStep, VoteChoice, ProposalType
    <3>8. q = p
      BY <3>7 DEF CompleteCooldown
    <3> QED BY <3>7, <3>8
  <2> QED BY <2>1 DEF CompleteCooldown, CooldownOver, IInv, CooldownEarned
<1> QED BY <1>1, Inductive, PTL DEF Spec, AdoptionEarned

-----------------------------------------------------------------------------
(* Refinement of module Decision.                                          *)

LEMMA ChoiceOfVote ==
  ASSUME NEW vs, NEW a, \A v, w \in vs : v.voter = w.voter => v = w
  PROVE  /\ \A v \in vs : v.voter = a => ChoiceOf(vs, a) = v.choice
         /\ (\A v \in vs : v.voter # a) => ChoiceOf(vs, a) = "none"
  BY DEF ChoiceOf

(* The abstract state: phases, kinds of proposal and ballots.              *)
APhase == [p \in Proposals |-> Phase(pstatus[p])]
AMarket == [p \in Proposals |-> ptype[p] = "futarchy"]
ABallot == [p \in Proposals |-> [a \in Agents |-> ChoiceOf(votes[p], a)]]

LEMMA PhaseMoves ==
  ASSUME TypeOK, NEW p \in Proposals, NEW s, pstatus' = [pstatus EXCEPT ![p] = s]
  PROVE  APhase' = [APhase EXCEPT ![p] = Phase(s)]
  BY DEF APhase, TypeOK

LEMMA PhaseStands ==
  ASSUME TypeOK, NEW p \in Proposals, NEW s, pstatus' = [pstatus EXCEPT ![p] = s],
         Phase(s) = Phase(pstatus[p])
  PROVE  APhase' = APhase
  BY DEF APhase, TypeOK

(* A cast vote gives its voter, and nobody else, a choice.                 *)
LEMMA BallotGrows ==
  ASSUME TypeOK, BallotIntegrity, NEW p \in Proposals, NEW a \in Agents, NEW choice,
         \A v \in votes[p] : v.voter # a,
         votes' = [votes EXCEPT ![p] =
           votes[p] \cup {[voter |-> a, choice |-> choice, weight |-> authority[a]]}]
  PROVE  /\ ABallot[p][a] = "none"
         /\ ABallot' = [ABallot EXCEPT ![p][a] = choice]
<1> DEFINE v0 == [voter |-> a, choice |-> choice, weight |-> authority[a]]
           new == votes[p] \cup {v0}
<1>1. v0.voter = a /\ v0.choice = choice
  OBVIOUS
<1>2. \A v, w \in votes[p] : v.voter = w.voter => v = w
  BY DEF BallotIntegrity
<1> HIDE DEF v0
<1>3. \A v, w \in new : v.voter = w.voter => v = w
  BY <1>1, <1>2
<1>4. ChoiceOf(new, a) = choice
  BY <1>1, <1>3, ChoiceOfVote
<1>5. ASSUME NEW b \in Agents, b # a PROVE ChoiceOf(new, b) = ChoiceOf(votes[p], b)
  <2>1. CASE \E v \in votes[p] : v.voter = b
    BY <1>2, <1>3, <2>1, ChoiceOfVote
  <2>2. CASE \A v \in votes[p] : v.voter # b
    BY <1>1, <1>2, <1>3, <1>5, <2>2, ChoiceOfVote
  <2> QED BY <2>1, <2>2
<1>6. ABallot[p][a] = "none"
  BY <1>2, ChoiceOfVote DEF ABallot
<1>7. votes' = [votes EXCEPT ![p] = new]
  BY DEF v0
<1> HIDE DEF new
<1>8. \A q \in Proposals : votes'[q] = IF q = p THEN new ELSE votes[q]
  BY <1>7 DEF TypeOK
<1>9. ABallot' = [q \in Proposals |-> [b \in Agents |-> ChoiceOf(votes'[q], b)]]
  BY DEF ABallot
<1>10. [ABallot EXCEPT ![p][a] = choice] =
         [q \in Proposals |-> [b \in Agents |->
            IF q = p /\ b = a THEN choice ELSE ChoiceOf(votes[q], b)]]
  BY DEF ABallot
<1>11. \A q \in Proposals, b \in Agents :
         ChoiceOf(votes'[q], b) =
           IF q = p /\ b = a THEN choice ELSE ChoiceOf(votes[q], b)
  BY <1>4, <1>5, <1>8
<1>12. ABallot' = [ABallot EXCEPT ![p][a] = choice]
  <2>1. ASSUME NEW q \in Proposals
        PROVE  [b \in Agents |-> ChoiceOf(votes'[q], b)] =
                 [b \in Agents |->
                    IF q = p /\ b = a THEN choice ELSE ChoiceOf(votes[q], b)]
    BY <1>11
  <2> QED BY <1>9, <1>10, <2>1
<1> QED BY <1>6, <1>12

LEMMA InitRefines == Init => D!Init
<1> SUFFICES ASSUME Init PROVE D!Init
  OBVIOUS
<1>1. \A p \in Proposals : Phase(pstatus[p]) = "none" /\ ptype[p] # "futarchy"
  BY DEF Init, Phase, Review, Rounds
<1>2. \A p \in Proposals, a \in Agents : ChoiceOf(votes[p], a) = "none"
  BY DEF Init, ChoiceOf
<1>3. [p \in Proposals |-> Phase(pstatus[p])] = [p \in Proposals |-> "none"]
  BY <1>1
<1>4. [p \in Proposals |-> ptype[p] = "futarchy"] = [p \in Proposals |-> FALSE]
  BY <1>1, Zenon
<1>5. [p \in Proposals |-> [a \in Agents |-> ChoiceOf(votes[p], a)]]
        = [p \in Proposals |-> [a \in Agents |-> "none"]]
  BY <1>2
<1> QED BY <1>3, <1>4, <1>5 DEF D!Init, Init

(* What leaves a part of the concrete state alone leaves its view alone.   *)
LEMMA ViewStands ==
  /\ UNCHANGED pstatus => UNCHANGED APhase
  /\ UNCHANGED ptype => UNCHANGED AMarket
  /\ UNCHANGED votes => UNCHANGED ABallot
  BY DEF APhase, AMarket, ABallot

(* A step that only moves a proposal from one status to another.           *)
LEMMA MoveRefines ==
  ASSUME TypeOK, NEW p \in Proposals, NEW s, pstatus' = [pstatus EXCEPT ![p] = s],
         UNCHANGED <<ptype, votes, approvedAt, now>>
  PROVE  D!Move(p, Phase(s))
<1>1. APhase' = [APhase EXCEPT ![p] = Phase(s)]
  BY PhaseMoves
<1>2. UNCHANGED <<AMarket, ABallot, approvedAt, now>>
  BY ViewStands
<1> QED BY <1>1, <1>2 DEF D!Move, APhase, AMarket, ABallot

LEMMA PendRefines ==
  ASSUME TypeOK, NEW p \in Proposals, pstatus' = [pstatus EXCEPT ![p] = "cooldown"],
         approvedAt' = [approvedAt EXCEPT ![p] = now],
         UNCHANGED <<ptype, votes, now>>
  PROVE  D!Pend(p)
<1>1. APhase' = [APhase EXCEPT ![p] = "pending"]
  BY PhaseMoves DEF Phase, Review, Rounds
<1>2. UNCHANGED <<AMarket, ABallot, now>>
  BY ViewStands
<1> QED BY <1>1, <1>2 DEF D!Pend, APhase, AMarket, ABallot

(* Every governance step is a step of Decision, or shows nothing of itself. *)
LEMMA ProposalStepRefines ==
  ASSUME IInv, ProposalStep
  PROVE  D!Next \/ UNCHANGED D!vars
<1> DEFINE phaseOf(p) == [q \in Proposals |-> Phase(pstatus[q])][p]
           isMarket(p) == [q \in Proposals |-> ptype[q] = "futarchy"][p]
<1>0. TypeOK /\ BallotIntegrity
  BY DEF IInv
<1> USE <1>0 DEF Review, Rounds
<1>a. ASSUME NEW p \in Proposals PROVE phaseOf(p) = Phase(pstatus[p])
  OBVIOUS
<1>b. ASSUME NEW p \in Proposals PROVE isMarket(p) <=> ptype[p] = "futarchy"
  BY Zenon
<1>1. ASSUME NEW p \in Proposals, NEW a \in Agents, NEW type \in ProposalType,
             Propose(a, p, type)
      PROVE  D!Next
  <2>1. APhase' = [APhase EXCEPT ![p] = "deliberation"]
    BY <1>1, PhaseMoves DEF Propose, Phase
  <2>2. phaseOf(p) = "none"
    BY <1>1 DEF Propose, Phase
  <2>3. AMarket' = [AMarket EXCEPT ![p] = (type = "futarchy")]
    <3>1. \A q \in Proposals : ptype'[q] = IF q = p THEN type ELSE ptype[q]
      BY <1>1 DEF Propose, TypeOK
    <3> QED BY <3>1, Zenon DEF AMarket
  <2>4. UNCHANGED <<ABallot, approvedAt, now>>
    BY <1>1, ViewStands DEF Propose
  <2>5. D!Submit(p, type = "futarchy")
    BY <2>1, <2>2, <2>3, <2>4 DEF D!Submit, APhase, AMarket, ABallot
  <2> QED BY <2>5, Zenon DEF D!Next
<1>2. ASSUME NEW p \in Proposals, NEW a \in Agents, NEW choice \in VoteChoice,
             CastVote(p, a, choice)
      PROVE  D!Next
  <2>1. ABallot[p][a] = "none" /\ ABallot' = [ABallot EXCEPT ![p][a] = choice]
    <3>1. /\ \A v \in votes[p] : v.voter # a
          /\ votes' = [votes EXCEPT ![p] =
               votes[p] \cup {[voter |-> a, choice |-> choice, weight |-> authority[a]]}]
      BY <1>2 DEF CastVote
    <3> QED BY <3>1, BallotGrows
  <2>2. UNCHANGED <<APhase, AMarket, approvedAt, now>>
    BY <1>2, ViewStands DEF CastVote
  <2>3. phaseOf(p) = "balloting"
    BY <1>2 DEF CastVote, Phase
  <2>4. D!Cast(p, a, choice)
    BY <2>1, <2>2, <2>3 DEF D!Cast, APhase, AMarket, ABallot
  <2> QED BY <2>4 DEF D!Next, D!Choice, VoteChoice
<1>3. ASSUME NEW p \in Proposals, Simulate(p) PROVE UNCHANGED D!vars
  <2>1. Phase(NextRound(pstatus[p])) = Phase(pstatus[p])
    BY <1>3 DEF Simulate, NextRound, Phase
  <2>2. UNCHANGED <<APhase, AMarket, ABallot, approvedAt, now>>
    BY <1>3, <2>1, PhaseStands, ViewStands DEF Simulate
  <2> QED BY <2>2 DEF D!vars, APhase, AMarket, ABallot
<1>4. ASSUME NEW p \in Proposals, OpenVoting(p) PROVE D!Next
  <2>1. D!Move(p, Phase("voting"))
    BY <1>4, MoveRefines DEF OpenVoting
  <2>2. phaseOf(p) = "deliberation"
    BY <1>4 DEF OpenVoting, Phase
  <2>3. D!OpenBallot(p)
    BY <2>1, <2>2 DEF D!OpenBallot, D!Move, Phase
  <2> QED BY <2>3 DEF D!Next
<1>5. ASSUME NEW p \in Proposals, Finalize(p) PROVE D!Next
  <2>1. phaseOf(p) = "balloting"
    BY <1>5 DEF Finalize, Phase
  <2>2. CASE ~veto[p] /\ Carried(votes[p])
    <3>1. D!Pend(p)
      BY <1>5, <2>2, PendRefines DEF Finalize
    <3>2. PICK v \in votes[p] : v.choice = "approve"
      BY <2>2, MajorityHasSupporter DEF Carried
    <3>3. v.voter \in Agents /\ ChoiceOf(votes[p], v.voter) = "approve"
      BY <3>2, ChoiceOfVote DEF BallotIntegrity, TypeOK, Vote
    <3>4. D!Carry(p)
      BY <2>1, <3>1, <3>3 DEF D!Carry
    <3> QED BY <3>4 DEF D!Next
  <2>3. CASE ~(~veto[p] /\ Carried(votes[p]))
    <3>1. D!Move(p, Phase("rejected"))
      BY <1>5, <2>3, MoveRefines DEF Finalize
    <3>2. D!Decline(p)
      BY <2>1, <3>1 DEF D!Decline, Phase
    <3> QED BY <3>2 DEF D!Next
  <2> QED BY <2>2, <2>3
<1>6. ASSUME NEW p \in Proposals, CompleteCooldown(p) PROVE D!Next
  <2>1. D!Move(p, Phase("approved"))
    BY <1>6, MoveRefines DEF CompleteCooldown
  <2>2. phaseOf(p) = "pending" /\ now >= approvedAt[p] + Cooldown
    BY <1>6 DEF CompleteCooldown, CooldownOver, Phase
  <2>3. D!Adopt(p)
    BY <2>1, <2>2 DEF D!Adopt, Phase
  <2> QED BY <2>3 DEF D!Next
<1>7. ASSUME NEW p \in Proposals, Rollback(p) PROVE D!Next
  <2>1. D!Move(p, Phase("rolled_back"))
    BY <1>7, MoveRefines DEF Rollback
  <2>2. phaseOf(p) \in {"pending", "adopted"}
    BY <1>7 DEF Rollback, Phase
  <2>3. D!Withdraw(p)
    BY <2>1, <2>2 DEF D!Withdraw, Phase
  <2> QED BY <2>3 DEF D!Next
<1>8. ASSUME NEW p \in Proposals, Veto(p) PROVE D!Next \/ UNCHANGED D!vars
  <2>1. CASE pstatus[p] = "voting"
    <3>1. D!Move(p, Phase("rejected"))
      BY <1>8, <2>1, MoveRefines DEF Veto
    <3>2. D!Decline(p)
      BY <2>1, <3>1 DEF D!Decline, Phase
    <3> QED BY <3>2 DEF D!Next
  <2>2. CASE pstatus[p] # "voting"
    <3>1. UNCHANGED <<APhase, AMarket, ABallot, approvedAt, now>>
      BY <1>8, <2>2, ViewStands DEF Veto, TypeOK
    <3> QED BY <3>1 DEF D!vars, APhase, AMarket, ABallot
  <2> QED BY <2>1, <2>2
<1>9. ASSUME NEW p \in Proposals, NEW likely \in BOOLEAN, ResolveFutarchy(p, likely)
      PROVE  D!Next
  <2>1. phaseOf(p) # "none"
    BY <1>9 DEF ResolveFutarchy, Existing, Phase, TypeOK, ProposalStatus
  <2>2. isMarket(p)
    BY <1>9, <1>b DEF ResolveFutarchy
  <2>3. D!Pend(p) \/ D!Move(p, Phase("rejected"))
    BY <1>9, PendRefines, MoveRefines DEF ResolveFutarchy
  <2>4. D!MarketVerdict(p)
    BY <2>1, <2>2, <2>3 DEF D!MarketVerdict, Phase
  <2> QED BY <2>4 DEF D!Next
<1>10. ASSUME NEW p \in Proposals, NEW s \in {"approved", "rejected"}, HumanForce(p, s)
       PROVE  D!Next
  <2>1. D!Move(p, Phase(s))
    BY <1>10, MoveRefines DEF HumanForce
  <2>2. phaseOf(p) # "none"
    BY <1>10 DEF HumanForce, Existing, Phase, TypeOK, ProposalStatus
  <2>3. Phase(s) \in {"adopted", "declined"}
    BY DEF Phase
  <2>4. D!Decree(p, Phase(s))
    BY <2>1, <2>2 DEF D!Decree
  <2> QED BY <2>3, <2>4 DEF D!Next
<1>11. Tick => D!Next
  <2> SUFFICES ASSUME Tick PROVE D!Next
    OBVIOUS
  <2>1. UNCHANGED <<APhase, AMarket, ABallot, approvedAt>>
    BY ViewStands DEF Tick
  <2>2. D!Tick
    BY <2>1 DEF Tick, D!Tick, APhase, AMarket, ABallot
  <2> QED BY <2>2 DEF D!Next
<1> QED BY <1>1, <1>2, <1>3, <1>4, <1>5, <1>6, <1>7, <1>8, <1>9, <1>10, <1>11
        DEF ProposalStep

(* Governance, with its reviews, weights, quorum, vetoes and restless      *)
(* agents, implements the decision process of module Decision.             *)
THEOREM Refinement == Spec => ImplementsDecision
<1>1. IInv /\ [Next]_vars => [D!Next]_(D!vars)
  <2>1. UNCHANGED proposalVars => UNCHANGED D!vars
    <3> SUFFICES ASSUME UNCHANGED proposalVars PROVE UNCHANGED D!vars
      OBVIOUS
    <3>1. UNCHANGED <<APhase, AMarket, ABallot, approvedAt, now>>
      BY ViewStands DEF proposalVars
    <3> QED BY <3>1 DEF D!vars, APhase, AMarket, ABallot
  <2> QED BY <2>1, ProposalStepRefines DEF Next, vars
<1> QED BY <1>1, InitRefines, Inductive, PTL DEF Spec, ImplementsDecision, D!Spec
=============================================================================
