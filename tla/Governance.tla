----------------------------- MODULE Governance -----------------------------
(***************************************************************************)
(* Governance proposals among the agents of a FIRM: the two-cycle review,  *)
(* the authority-weighted ballot, the cooldown, rollback, constitutional   *)
(* veto, futarchy and the human's force_approve / force_reject.            *)
(* Code: core/governance.py, core/human.py and Firm.propose,               *)
(* simulate_proposal, vote and finalize_proposal in runtime.py.            *)
(*                                                                         *)
(* The agents keep acting, falling into probation, being suspended and     *)
(* joining while a ballot is open: their steps are those of Agents.        *)
(* A proposal whose text violates an invariant is refused before it        *)
(* exists, so the proposals here are those that passed that check.  The    *)
(* outcome of a simulation is stored and read by no guard: only that it    *)
(* took place is kept.  A vote is a set element because the tally does not *)
(* depend on the order of the list.                                        *)
(***************************************************************************)
EXTENDS Agents, FiniteSetsExt

CONSTANTS
  Proposals,     \* identifiers a proposal can get
  Cooldown,      \* GovernanceEngine.cooldown_seconds, in clock ticks
  MaxTime        \* bound: the clock stops here

ASSUME GovernanceAssumption ==
  /\ Cooldown \in Nat
  /\ MaxTime \in Nat

VARIABLES
  pstatus,      \* Proposal.status; "absent" before create_proposal
  ptype,        \* Proposal.proposal_type: "futarchy" or not
  reviews,      \* which of simulation_1, stress_test, simulation_2 are set
  votes,        \* Proposal.votes
  veto,         \* Proposal.constitutional_veto
  approvedAt,   \* Proposal.approved_at; cooldown_until is Cooldown later
  now           \* time.time()

proposalVars == <<pstatus, ptype, reviews, votes, veto, approvedAt, now>>
vars == <<agentVars, proposalVars>>

Rounds == {"simulation_1", "stress_test", "simulation_2"}
Review == {"draft"} \cup Rounds
ProposalStatus ==
  Review \cup {"voting", "cooldown", "approved", "rejected", "rolled_back"}

ProposalType == {"general", "futarchy"}
VoteChoice == {"approve", "reject", "abstain"}
Vote == [voter : Agents, choice : VoteChoice, weight : 0..MaxAuthority]

Existing == {p \in Proposals : pstatus[p] # "absent"}

TypeOK ==
  /\ AgentsTypeOK
  /\ pstatus \in [Proposals -> ProposalStatus \cup {"absent"}]
  /\ ptype \in [Proposals -> ProposalType]
  /\ reviews \in [Proposals -> SUBSET Rounds]
  /\ votes \in [Proposals -> SUBSET Vote]
  /\ veto \in [Proposals -> BOOLEAN]
  /\ approvedAt \in [Proposals -> 0..MaxTime]
  /\ now \in 0..MaxTime

Init ==
  /\ AgentsInit
  /\ pstatus = [p \in Proposals |-> "absent"]
  /\ ptype = [p \in Proposals |-> "general"]
  /\ reviews = [p \in Proposals |-> {}]
  /\ votes = [p \in Proposals |-> {}]
  /\ veto = [p \in Proposals |-> FALSE]
  /\ approvedAt = [p \in Proposals |-> 0]
  /\ now = 0

-----------------------------------------------------------------------------
(* Proposal.tally_votes                                                    *)

Weight(vs, choice) ==
  LET chosen == {v \in vs : v.choice = choice}
  IN MapThenSumSet(LAMBDA v : v.weight, chosen)

(* Firm.finalize_proposal counts the eligible voters when it is called.    *)
Eligible == {a \in Agents : CanVote(a)}

(* At least 60% participation, over at least one voter.                    *)
QuorumMet(vs, eligible) ==
  5 * Cardinality(vs) >= 3 * (IF eligible = 0 THEN 1 ELSE eligible)

MajorityApproves_AllAbstain(vs) ==
  Weight(vs, "approve") >= Weight(vs, "reject")

(* At least half of the weight that took a side; nothing when no vote did. *)
MajorityApproves(vs) ==
  /\ Weight(vs, "approve") > 0
  /\ Weight(vs, "approve") >= Weight(vs, "reject")

Carried(vs) ==
  /\ vs # {}
  /\ QuorumMet(vs, Cardinality(Eligible))
  /\ MajorityApproves(vs)

-----------------------------------------------------------------------------
(* The proposal's own life.  No step of it changes an agent; proposing,    *)
(* voting and forcing are entered in the ledger.                           *)

Unlogged == logged' = << >> /\ UNCHANGED <<authority, status, killSwitch>>

LoggedBy(a) ==
  /\ logged' = Log(a, "governance_vote")
  /\ UNCHANGED <<authority, status, killSwitch>>

(* Firm.propose and GovernanceEngine.create_proposal: authority counts,    *)
(* status does not.                                                        *)
Propose(a, p, type) ==
  /\ pstatus[p] = "absent"
  /\ a \in Registered
  /\ authority[a] >= ProposeMin
  /\ pstatus' = [pstatus EXCEPT ![p] = "draft"]
  /\ ptype' = [ptype EXCEPT ![p] = type]
  /\ LoggedBy(a)
  /\ UNCHANGED <<reviews, votes, veto, approvedAt, now>>

NextRound(s) ==
  CASE s = "draft"        -> "simulation_1"
    [] s = "simulation_1" -> "stress_test"
    [] s = "stress_test"  -> "simulation_2"

(* GovernanceEngine.simulate advances whether or not the result is good.   *)
Simulate(p) ==
  /\ pstatus[p] \in Review \ {"simulation_2"}
  /\ pstatus' = [pstatus EXCEPT ![p] = NextRound(@)]
  /\ reviews' = [reviews EXCEPT ![p] = @ \cup {NextRound(pstatus[p])}]
  /\ Unlogged
  /\ UNCHANGED <<ptype, votes, veto, approvedAt, now>>

OpenVoting_Early(p) ==
  /\ pstatus[p] \in Review \ {"draft"}
  /\ pstatus' = [pstatus EXCEPT ![p] = "voting"]
  /\ Unlogged
  /\ UNCHANGED <<ptype, reviews, votes, veto, approvedAt, now>>

OpenVoting(p) ==
  /\ pstatus[p] = "simulation_2"
  /\ pstatus' = [pstatus EXCEPT ![p] = "voting"]
  /\ Unlogged
  /\ UNCHANGED <<ptype, reviews, votes, veto, approvedAt, now>>

CastVote_Recast(p, a, choice) ==
  /\ pstatus[p] = "voting"
  /\ a \in Registered
  /\ authority[a] >= VoteMin
  /\ votes' = [votes EXCEPT ![p] =
                 @ \cup {[voter |-> a, choice |-> choice, weight |-> authority[a]]}]
  /\ LoggedBy(a)
  /\ UNCHANGED <<pstatus, ptype, reviews, veto, approvedAt, now>>

(* Firm.vote, GovernanceEngine.vote and Proposal.cast_vote: the weight is  *)
(* the voter's authority now.                                              *)
CastVote(p, a, choice) ==
  /\ pstatus[p] = "voting"
  /\ a \in Registered
  /\ authority[a] >= VoteMin
  /\ \A v \in votes[p] : v.voter # a
  /\ votes' = [votes EXCEPT ![p] =
                 @ \cup {[voter |-> a, choice |-> choice, weight |-> authority[a]]}]
  /\ LoggedBy(a)
  /\ UNCHANGED <<pstatus, ptype, reviews, veto, approvedAt, now>>

(* Proposal.finalize                                                       *)
Finalize(p) ==
  /\ pstatus[p] = "voting"
  /\ IF ~veto[p] /\ Carried(votes[p])
     THEN /\ pstatus' = [pstatus EXCEPT ![p] = "cooldown"]
          /\ approvedAt' = [approvedAt EXCEPT ![p] = now]
     ELSE /\ pstatus' = [pstatus EXCEPT ![p] = "rejected"]
          /\ UNCHANGED approvedAt
  /\ Unlogged
  /\ UNCHANGED <<ptype, reviews, votes, veto, now>>

CooldownOver_Started(p) == now >= approvedAt[p]

CooldownOver(p) == now >= approvedAt[p] + Cooldown

(* Proposal.complete_cooldown does not look at the veto.                   *)
CompleteCooldown(p) ==
  /\ pstatus[p] = "cooldown"
  /\ CooldownOver(p)
  /\ pstatus' = [pstatus EXCEPT ![p] = "approved"]
  /\ Unlogged
  /\ UNCHANGED <<ptype, reviews, votes, veto, approvedAt, now>>

Rollback(p) ==
  /\ pstatus[p] \in {"approved", "cooldown"}
  /\ pstatus' = [pstatus EXCEPT ![p] = "rolled_back"]
  /\ Unlogged
  /\ UNCHANGED <<ptype, reviews, votes, veto, approvedAt, now>>

(* Proposal.veto raises the flag in any status and rejects an open ballot. *)
Veto(p) ==
  /\ p \in Existing
  /\ veto' = [veto EXCEPT ![p] = TRUE]
  /\ pstatus' = [pstatus EXCEPT ![p] = IF @ = "voting" THEN "rejected" ELSE @]
  /\ Unlogged
  /\ UNCHANGED <<ptype, reviews, votes, approvedAt, now>>

(* GovernanceEngine.resolve_futarchy: `likely' says whether the best of    *)
(* the market probabilities is above one half.  Neither the status nor the *)
(* veto of the proposal is looked at.                                      *)
ResolveFutarchy(p, likely) ==
  /\ p \in Existing
  /\ ptype[p] = "futarchy"
  /\ IF likely
     THEN /\ pstatus' = [pstatus EXCEPT ![p] = "cooldown"]
          /\ approvedAt' = [approvedAt EXCEPT ![p] = now]
     ELSE /\ pstatus' = [pstatus EXCEPT ![p] = "rejected"]
          /\ UNCHANGED approvedAt
  /\ Unlogged
  /\ UNCHANGED <<ptype, reviews, votes, veto, now>>

(* HumanOverride.force_approve_proposal and force_reject_proposal          *)
HumanForce(p, s) ==
  /\ p \in Existing
  /\ pstatus' = [pstatus EXCEPT ![p] = s]
  /\ LoggedBy(Human)
  /\ UNCHANGED <<ptype, reviews, votes, veto, approvedAt, now>>

Tick ==
  /\ now < MaxTime
  /\ now' = now + 1
  /\ Unlogged
  /\ UNCHANGED <<pstatus, ptype, reviews, votes, veto, approvedAt>>

-----------------------------------------------------------------------------
ProposalStep ==
  \/ \E p \in Proposals, a \in Agents :
       \/ \E type \in ProposalType : Propose(a, p, type)
       \/ \E choice \in VoteChoice : CastVote(p, a, choice)
  \/ \E p \in Proposals :
       \/ Simulate(p)
       \/ OpenVoting(p)
       \/ Finalize(p)
       \/ CompleteCooldown(p)
       \/ Rollback(p)
       \/ Veto(p)
       \/ \E likely \in BOOLEAN : ResolveFutarchy(p, likely)
       \/ \E s \in {"approved", "rejected"} : HumanForce(p, s)
  \/ Tick

Next ==
  \/ AgentStep /\ UNCHANGED proposalVars
  \/ ProposalStep

Spec == Init /\ [][Next]_vars

-----------------------------------------------------------------------------
(* Properties.                                                             *)

(* "One vote per agent" (Proposal.cast_vote), each with at least the       *)
(* authority a vote takes, and no ballot box filled before the proposal    *)
(* went through both simulations and the stress test, however agents rise, *)
(* fall and are suspended meanwhile.                                       *)
BallotIntegrity ==
  \A p \in Proposals :
    /\ \A v, w \in votes[p] : v.voter = w.voter => v = w
    /\ \A v \in votes[p] : v.weight >= VoteMin
    /\ votes[p] # {} => reviews[p] = Rounds

(* Which rounds of the review a status stands for.                         *)
RoundsDone(s) ==
  CASE s \in {"absent", "draft"}       -> {}
    [] s = "simulation_1"             -> {"simulation_1"}
    [] s = "stress_test"              -> {"simulation_1", "stress_test"}
    [] s \in {"simulation_2", "voting"} -> Rounds

(* Strengthens BallotIntegrity: a proposal under review or on the ballot   *)
(* has exactly the results of the rounds its status says it went through.  *)
ReviewRecorded ==
  \A p \in Proposals :
    pstatus[p] \in {"absent", "voting"} \cup Review =>
      reviews[p] = RoundsDone(pstatus[p])

(* A proposal that waits out its cooldown got there by its ballot, or by a *)
(* market if it is a futarchy: it was reviewed in full, the votes in its   *)
(* box carry it, and its cooldown counts from a moment that has been.      *)
CooldownEarned ==
  \A p \in Proposals : pstatus[p] = "cooldown" =>
    /\ approvedAt[p] <= now
    /\ ptype[p] = "general" => reviews[p] = Rounds /\ MajorityApproves(votes[p])

(* The inductive invariant.                                                *)
IInv == TypeOK /\ ReviewRecorded /\ BallotIntegrity /\ CooldownEarned

(* "Change requires proof" (README.md): unless the human forces it, a      *)
(* proposal is adopted only a full cooldown after it was carried, and if   *)
(* it is no futarchy then with the whole review and a majority of the      *)
(* weight behind it.                                                       *)
AdoptionEarned ==
  [][\A p \in Proposals :
       pstatus[p] # "approved" /\ pstatus'[p] = "approved" /\ ~ByHuman' =>
         /\ now >= approvedAt[p] + Cooldown
         /\ ptype[p] = "general" => reviews[p] = Rounds /\ MajorityApproves(votes[p])
    ]_vars

(* The abstract view of a proposal.                                        *)
Phase(s) ==
  CASE s = "absent"      -> "none"
    [] s \in Review      -> "deliberation"
    [] s = "voting"      -> "balloting"
    [] s = "cooldown"    -> "pending"
    [] s = "approved"    -> "adopted"
    [] s = "rejected"    -> "declined"
    [] s = "rolled_back" -> "withdrawn"

ChoiceOf(vs, a) ==
  IF \E v \in vs : v.voter = a
  THEN (CHOOSE v \in vs : v.voter = a).choice ELSE "none"

D == INSTANCE Decision WITH
       Voters  <- Agents,
       Delay   <- Cooldown,
       Horizon <- MaxTime,
       phase   <- [p \in Proposals |-> Phase(pstatus[p])],
       market  <- [p \in Proposals |-> ptype[p] = "futarchy"],
       ballot  <- [p \in Proposals |-> [a \in Agents |-> ChoiceOf(votes[p], a)]],
       since   <- approvedAt,
       clock   <- now

(* Governance implements the decision process of module Decision: in       *)
(* particular a cast choice is never changed or withdrawn, a decided       *)
(* proposal is reopened by the human or a market only, and a carried one   *)
(* had a supporter.                                                        *)
ImplementsDecision == D!Spec

(* Proposal.veto: "Constitutional veto - blocks the proposal permanently". *)
(* Stated of proposals that a ballot decides, not a market: finalize reads *)
(* the veto, so one of them is adopted in spite of it only when the veto   *)
(* came while it waited out its cooldown.                                  *)
VetoStands ==
  [][\A p \in Proposals :
       /\ ptype[p] = "general" /\ veto[p]
       /\ pstatus[p] # "approved" /\ pstatus'[p] = "approved"
       => ByHuman']_vars

(* DEFAULT_QUORUM_RATIO: "60% of eligible voters must participate".        *)
QuorumOfEligible ==
  [][\A p \in Proposals :
       pstatus[p] = "voting" /\ pstatus'[p] = "cooldown" /\ ptype[p] = "general" =>
         5 * Cardinality({a \in Eligible : ChoiceOf(votes[p], a) # "none"})
           >= 3 * Cardinality(Eligible)]_vars
=============================================================================
