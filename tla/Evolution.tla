------------------------------ MODULE Evolution ------------------------------
(***************************************************************************)
(* How a FIRM changes its own operating parameters: proposals within hard  *)
(* bounds, a supermajority of the votes cast, a cooldown per category, and *)
(* rollback.  Code: core/evolution.py and Firm.propose_evolution,          *)
(* vote_evolution, apply_evolution and rollback_evolution in runtime.py.   *)
(*                                                                         *)
(* Votes are counted in units of 1/MaxAuthority.  The changes of a         *)
(* proposal are a function on the parameters it changes: a list that names *)
(* one twice has the effect of its last entry.                             *)
(***************************************************************************)
EXTENDS Integers, FiniteSetsExt

CONSTANTS
  Agents,         \* members of the organisation
  Proposals,      \* identifiers a proposal can get
  Parameters,     \* names of operating parameters
  Category,       \* the category of each parameter
  Values,         \* values a proposal may ask for
  Bounds,         \* PARAMETER_BOUNDS: the values each parameter may take
  Default,        \* the parameters of a new engine
  MaxAuthority,   \* authority 1.0
  EvolveMin,      \* MIN_AUTHORITY_TO_EVOLVE, 0.85
  EligibleMin,    \* authority that counts towards the quorum, 0.6
  Standings,      \* pairs of an authority and whether the agent is active
  Cooldown,       \* PARAMETER_CHANGE_COOLDOWN, in clock ticks
  MaxTime         \* bound: the clock stops here

ASSUME EvolutionAssumption ==
  /\ Values \subseteq Int
  /\ Bounds \in [Parameters -> SUBSET Values]
  /\ Default \in [Parameters -> Values]
  /\ \A x \in Parameters : Default[x] \in Bounds[x]
  /\ MaxAuthority \in Nat
  /\ EvolveMin \in 0..MaxAuthority
  /\ EligibleMin \in 0..MaxAuthority
  /\ Standings \subseteq (0..MaxAuthority) \X BOOLEAN
  /\ Standings # {}
  /\ Cooldown \in Nat \ {0}
  /\ MaxTime \in Nat

VARIABLES
  standing,     \* authority of each agent and whether it is active
  parameters,   \* EvolutionEngine._parameters
  estatus,      \* EvolutionProposal.status, "absent" before propose
  new,          \* the new_value of each change of a proposal
  old,          \* and its old_value, read when it was proposed
  votesFor,     \* EvolutionProposal.votes_for
  votesAgainst, \* EvolutionProposal.votes_against
  voterIds,     \* EvolutionProposal.voter_ids
  lastChange,   \* EvolutionEngine._last_change_time
  appliedAt,    \* EvolutionProposal.applied_at
  now,          \* time.time()
  before,       \* auxiliary: the parameters just before each application
  stale         \* auxiliary: which of a proposal's parameters another
                \* evolution or rollback wrote since it was proposed

voteVars == <<votesFor, votesAgainst, voterIds>>
vars == <<standing, parameters, estatus, new, old, voteVars, lastChange,
          appliedAt, now, before, stale>>

EvolutionStatus == {"proposed", "approved", "applied", "rejected", "rolled_back"}
Categories == {Category[x] : x \in Parameters}
Changes == UNION {[X -> Values] : X \in SUBSET Parameters}

EvolutionTypeOK ==
  /\ standing \in [Agents -> (0..MaxAuthority) \X BOOLEAN]
  /\ parameters \in [Parameters -> Values]
  /\ estatus \in [Proposals -> EvolutionStatus \cup {"absent"}]
  /\ new \in [Proposals -> Changes]
  /\ old \in [Proposals -> Changes]
  /\ \A p \in Proposals : DOMAIN old[p] = DOMAIN new[p]
  /\ votesFor \in [Proposals -> Nat]
  /\ votesAgainst \in [Proposals -> Nat]
  /\ voterIds \in [Proposals -> SUBSET Agents]
  /\ lastChange \in [Categories -> Int]
  /\ appliedAt \in [Proposals -> 0..MaxTime]
  /\ now \in 0..MaxTime
  /\ before \in [Proposals -> [Parameters -> Values]]
  /\ stale \in [Proposals -> SUBSET Parameters]

(* No category has changed within a cooldown of the start.                 *)
Init ==
  /\ standing \in [Agents -> Standings]
  /\ parameters = Default
  /\ estatus = [p \in Proposals |-> "absent"]
  /\ new = [p \in Proposals |-> [x \in {} |-> 0]]
  /\ old = [p \in Proposals |-> [x \in {} |-> 0]]
  /\ votesFor = [p \in Proposals |-> 0]
  /\ votesAgainst = [p \in Proposals |-> 0]
  /\ voterIds = [p \in Proposals |-> {}]
  /\ lastChange = [k \in Categories |-> -Cooldown]
  /\ appliedAt = [p \in Proposals |-> 0]
  /\ now = 0
  /\ before = [p \in Proposals |-> Default]
  /\ stale = [p \in Proposals |-> {}]

Authority(a) == standing[a][1]
Active(a) == standing[a][2]

Changed(p) == DOMAIN new[p]

-----------------------------------------------------------------------------
(* Proposing and voting.                                                   *)

WithinBounds_Upper(change) ==
  \A x \in DOMAIN change : \E v \in Bounds[x] : v >= change[x]

(* The hard bounds of a proposal's values.                                 *)
WithinBounds(change) == \A x \in DOMAIN change : change[x] \in Bounds[x]

(* Firm.propose_evolution and EvolutionEngine.propose                      *)
Propose(a, p, change) ==
  /\ estatus[p] = "absent"
  /\ Authority(a) >= EvolveMin
  /\ DOMAIN change # {}
  /\ WithinBounds(change)
  /\ estatus' = [estatus EXCEPT ![p] = "proposed"]
  /\ new' = [new EXCEPT ![p] = change]
  /\ old' = [old EXCEPT ![p] = [x \in DOMAIN change |-> parameters[x]]]
  /\ UNCHANGED <<standing, parameters, voteVars, lastChange, appliedAt, now,
                 before, stale>>

(* Firm.vote_evolution and EvolutionEngine.vote: any member, whatever its  *)
(* status and authority.                                                   *)
Vote(a, p, approve) ==
  /\ estatus[p] = "proposed"
  /\ a \notin voterIds[p]
  /\ voterIds' = [voterIds EXCEPT ![p] = @ \cup {a}]
  /\ IF approve
     THEN /\ votesFor' = [votesFor EXCEPT ![p] = @ + Authority(a)]
          /\ UNCHANGED votesAgainst
     ELSE /\ votesAgainst' = [votesAgainst EXCEPT ![p] = @ + Authority(a)]
          /\ UNCHANGED votesFor
  /\ UNCHANGED <<standing, parameters, estatus, new, old, lastChange, appliedAt,
                 now, before, stale>>

-----------------------------------------------------------------------------
(* Deciding.                                                               *)

(* What Firm.apply_evolution passes as total_eligible_weight.              *)
EligibleWeight ==
  MapThenSumSet(Authority, {a \in Agents : Active(a) /\ Authority(a) >= EligibleMin})

TotalVotes(p) == votesFor[p] + votesAgainst[p]

QuorumMet(p) == 5 * TotalVotes(p) >= 3 * EligibleWeight

Supported_Simple(p) == TotalVotes(p) > 0 /\ 2 * votesFor[p] >= TotalVotes(p)

(* At least 75% of the weight cast, and something was cast.                *)
Supported(p) == TotalVotes(p) > 0 /\ 4 * votesFor[p] >= 3 * TotalVotes(p)

(* The status EvolutionEngine.finalize gives.                              *)
Verdict(p) == IF QuorumMet(p) /\ Supported(p) THEN "approved" ELSE "rejected"

Touched(p) == {Category[x] : x \in Changed(p)}

CooledDown_Any(p) == \E k \in Touched(p) : now - lastChange[k] >= Cooldown

(* The rate limit of EvolutionEngine.apply, over every category touched.   *)
CooledDown(p) == \A k \in Touched(p) : now - lastChange[k] >= Cooldown

Write_Replace(values) == values

(* The parameter store with some of its values overwritten.                *)
Write(values) == [x \in Parameters |-> IF x \in DOMAIN values THEN values[x]
                                       ELSE parameters[x]]

Stain(p) == [q \in Proposals |->
               IF q = p \/ estatus[q] = "absent" THEN stale[q]
               ELSE stale[q] \cup (Changed(p) \cap Changed(q))]

(* EvolutionEngine.apply past its checks.                                  *)
DoApply(p) ==
  /\ parameters' = Write(new[p])
  /\ lastChange' = [k \in Categories |-> IF k \in Touched(p) THEN now ELSE lastChange[k]]
  /\ estatus' = [estatus EXCEPT ![p] = "applied"]
  /\ appliedAt' = [appliedAt EXCEPT ![p] = now]
  /\ before' = [before EXCEPT ![p] = parameters]
  /\ stale' = Stain(p)
  /\ UNCHANGED <<standing, new, old, voteVars, now>>

Decide(p, verdict) ==
  /\ estatus' = [estatus EXCEPT ![p] = verdict]
  /\ UNCHANGED <<standing, parameters, new, old, voteVars, lastChange, appliedAt,
                 now, before, stale>>

(* EvolutionEngine.finalize                                                *)
Finalize(p) == estatus[p] = "proposed" /\ Decide(p, Verdict(p))

(* EvolutionEngine.apply                                                   *)
Apply(p) == estatus[p] = "approved" /\ CooledDown(p) /\ DoApply(p)

(* Firm.apply_evolution finalizes, then applies what was approved; when    *)
(* the rate limit raises, the proposal stays approved.                     *)
ApplyEvolution(p) ==
  /\ estatus[p] = "proposed"
  /\ IF Verdict(p) = "approved" /\ CooledDown(p)
     THEN DoApply(p)
     ELSE Decide(p, Verdict(p))

Restored_Newest(p) == Write(new[p])

(* The parameters once the old values of a proposal are written back.      *)
Restored(p) == Write(old[p])

(* Firm.rollback_evolution and EvolutionEngine.rollback: at once, whatever *)
(* the cooldown, and without looking at what the parameters are now.       *)
Rollback(p) ==
  /\ estatus[p] = "applied"
  /\ parameters' = Restored(p)
  /\ estatus' = [estatus EXCEPT ![p] = "rolled_back"]
  /\ stale' = Stain(p)
  /\ UNCHANGED <<standing, new, old, voteVars, lastChange, appliedAt, now, before>>

-----------------------------------------------------------------------------
(* Between the calls agents gain and lose authority and status.            *)
AgentChanges(a, s) ==
  /\ standing' = [standing EXCEPT ![a] = s]
  /\ UNCHANGED <<parameters, estatus, new, old, voteVars, lastChange, appliedAt,
                 now, before, stale>>

Tick ==
  /\ now < MaxTime
  /\ now' = now + 1
  /\ UNCHANGED <<standing, parameters, estatus, new, old, voteVars, lastChange,
                 appliedAt, before, stale>>

Next ==
  \/ \E a \in Agents, p \in Proposals :
       \/ \E change \in Changes : Propose(a, p, change)
       \/ \E approve \in BOOLEAN : Vote(a, p, approve)
  \/ \E p \in Proposals :
       \/ Finalize(p)
       \/ Apply(p)
       \/ ApplyEvolution(p)
       \/ Rollback(p)
  \/ \E a \in Agents, s \in Standings : AgentChanges(a, s)
  \/ Tick

Spec == Init /\ [][Next]_vars

-----------------------------------------------------------------------------
(* Properties.                                                             *)

Effective == {p \in Proposals : estatus[p] \in {"applied", "rolled_back"}}

(* "Parameters have hard bounds (safety rails) that cannot be bypassed":   *)
(* whatever is applied and rolled back in whichever order.                 *)
SafetyRails ==
  /\ \A x \in Parameters : parameters[x] \in Bounds[x]
  /\ \A p \in Proposals : WithinBounds(new[p]) /\ WithinBounds(old[p])

(* "Changes require supermajority": what took effect, or waits for it, has *)
(* three quarters of the weight cast behind it, and that weight comes from *)
(* as many different voters as it takes.                                   *)
Supermajority ==
  \A p \in Proposals : estatus[p] \in {"approved", "applied", "rolled_back"} =>
    /\ votesFor[p] > 0
    /\ votesFor[p] >= 3 * votesAgainst[p]
    /\ TotalVotes(p) <= MaxAuthority * Cardinality(voterIds[p])

(* "Max 1 parameter change per category per cycle": two evolutions that    *)
(* touch a category took effect at least a cooldown apart.                 *)
RateLimited ==
  \A p, q \in Effective : p # q /\ Touched(p) \cap Touched(q) # {} =>
    \/ appliedAt[p] + Cooldown <= appliedAt[q]
    \/ appliedAt[q] + Cooldown <= appliedAt[p]

RolledBack(p) == estatus[p] = "applied" /\ estatus'[p] = "rolled_back"

(* Rolling an evolution back restores what its parameters were just before *)
(* it was applied, as far as nothing else wrote them since it was proposed. *)
FreshRollback ==
  [][\A p \in Proposals : RolledBack(p) =>
       \A x \in Parameters :
         parameters'[x] = IF x \in Changed(p) \ stale[p]
                          THEN before[p][x]
                          ELSE IF x \in Changed(p) THEN old[p][x] ELSE parameters[x]
    ]_vars

(* EvolutionEngine.rollback: "Restores parameters to their pre-evolution   *)
(* values".                                                                *)
RollbackRestores ==
  [][\A p \in Proposals : RolledBack(p) =>
       \A x \in Changed(p) : parameters'[x] = before[p][x]]_vars
=============================================================================
