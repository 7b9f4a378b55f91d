-------------------------- MODULE EvolutionProofs --------------------------
(* Theorems of module Evolution, for any agents, proposals and parameters. *)
EXTENDS Evolution, FiniteSetTheorems, TLAPS

LEMMA ChangesMember ==
  ASSUME NEW X \in SUBSET Parameters, NEW f \in [X -> Values]
  PROVE  f \in Changes
  BY DEF Changes

LEMMA MemberChanges ==
  ASSUME NEW c \in Changes
  PROVE  /\ DOMAIN c \subseteq Parameters
         /\ c \in [DOMAIN c -> Values]
<1>1. PICK X \in SUBSET Parameters : c \in [X -> Values]
  BY DEF Changes
<1>2. DOMAIN c = X
  BY <1>1
<1> QED BY <1>1, <1>2

(* Overwriting some of the parameters.                                     *)
LEMMA WriteType ==
  ASSUME parameters \in [Parameters -> Values], NEW c \in Changes
  PROVE  Write(c) \in [Parameters -> Values]
  BY MemberChanges DEF Write

LEMMA VerdictValues ==
  ASSUME NEW p \in Proposals
  PROVE  Verdict(p) \in {"approved", "rejected"}
  BY DEF Verdict

(* Every way apply changes the state: directly or from apply_evolution.    *)
Applying(p) ==
  /\ estatus[p] = "approved" \/ (estatus[p] = "proposed" /\ Verdict(p) = "approved")
  /\ CooledDown(p)
  /\ DoApply(p)

Deciding(p) == estatus[p] = "proposed" /\ Decide(p, Verdict(p))

(* The steps that matter, whichever method makes them.                     *)
LEMMA Steps ==
  ASSUME [Next]_vars
  PROVE  \/ \E a \in Agents, p \in Proposals, change \in Changes : Propose(a, p, change)
         \/ \E a \in Agents, p \in Proposals, approve \in BOOLEAN : Vote(a, p, approve)
         \/ \E p \in Proposals : Applying(p)
         \/ \E p \in Proposals : Deciding(p)
         \/ \E p \in Proposals : Rollback(p)
         \/ \E a \in Agents, s \in Standings : AgentChanges(a, s)
         \/ Tick
         \/ UNCHANGED vars
<1>1. ASSUME NEW p \in Proposals, ApplyEvolution(p)
      PROVE  Applying(p) \/ Deciding(p)
  BY <1>1 DEF ApplyEvolution, Applying, Deciding
<1>2. ASSUME NEW p \in Proposals, Finalize(p)
      PROVE  Deciding(p)
  BY <1>2 DEF Finalize, Deciding
<1>3. ASSUME NEW p \in Proposals, Apply(p)
      PROVE  Applying(p)
  BY <1>3 DEF Apply, Applying
<1> QED BY <1>1, <1>2, <1>3 DEF Next

-----------------------------------------------------------------------------
(* Type correctness.                                                       *)

LEMMA InitType == Init => EvolutionTypeOK
<1> SUFFICES ASSUME Init PROVE EvolutionTypeOK
  OBVIOUS
<1>1. [x \in {} |-> 0] \in Changes
  <2>1. [x \in {} |-> 0] \in [{} -> Values]
    OBVIOUS
  <2> QED BY <2>1, ChangesMember
<1>2. standing \in [Agents -> (0..MaxAuthority) \X BOOLEAN]
  BY EvolutionAssumption DEF Init
<1>3. lastChange \in [Categories -> Int] /\ now \in 0..MaxTime
      /\ appliedAt \in [Proposals -> 0..MaxTime]
  BY EvolutionAssumption DEF Init
<1> QED BY <1>1, <1>2, <1>3, EvolutionAssumption DEF Init, EvolutionTypeOK, EvolutionStatus

LEMMA NextType == EvolutionTypeOK /\ [Next]_vars => EvolutionTypeOK'
<1> SUFFICES ASSUME EvolutionTypeOK, [Next]_vars PROVE EvolutionTypeOK'
  OBVIOUS
<1> USE DEF EvolutionTypeOK, EvolutionStatus, voteVars
<1>1. ASSUME NEW a \in Agents, NEW p \in Proposals, NEW change \in Changes,
             Propose(a, p, change)
      PROVE  EvolutionTypeOK'
  <2> DEFINE o == [x \in DOMAIN change |-> parameters[x]]
  <2>1. o \in Changes /\ DOMAIN o = DOMAIN change
    <3>1. o \in [DOMAIN change -> Values]
      BY MemberChanges
    <3> QED BY <3>1, MemberChanges, ChangesMember
  <2>2. new' = [new EXCEPT ![p] = change] /\ old' = [old EXCEPT ![p] = o]
    BY <1>1 DEF Propose
  <2> HIDE DEF o
  <2>3. new' \in [Proposals -> Changes] /\ old' \in [Proposals -> Changes]
    BY <2>1, <2>2
  <2>4. \A q \in Proposals : DOMAIN old'[q] = DOMAIN new'[q]
    BY <2>1, <2>2
  <2>5. /\ estatus' = [estatus EXCEPT ![p] = "proposed"]
        /\ UNCHANGED <<standing, parameters, votesFor, votesAgainst, voterIds,
                       lastChange, appliedAt, now, before, stale>>
    BY <1>1 DEF Propose
  <2> QED BY <2>3, <2>4, <2>5
<1>2. ASSUME NEW a \in Agents, NEW p \in Proposals, NEW approve \in BOOLEAN,
             Vote(a, p, approve)
      PROVE  EvolutionTypeOK'
  <2>1. votesFor[p] + Authority(a) \in Nat /\ votesAgainst[p] + Authority(a) \in Nat
    <3>1. Authority(a) \in Nat
      BY EvolutionAssumption DEF Authority
    <3> QED BY <3>1
  <2>2. votesFor' \in [Proposals -> Nat] /\ votesAgainst' \in [Proposals -> Nat]
    <3>1. CASE approve
      BY <1>2, <2>1, <3>1 DEF Vote
    <3>2. CASE ~approve
      BY <1>2, <2>1, <3>2 DEF Vote
    <3> QED BY <3>1, <3>2
  <2> QED BY <1>2, <2>2 DEF Vote
<1>3. ASSUME NEW p \in Proposals, Applying(p) PROVE EvolutionTypeOK'
  <2>1. parameters' \in [Parameters -> Values]
    BY <1>3, WriteType DEF Applying, DoApply
  <2>2. lastChange' \in [Categories -> Int]
    BY <1>3 DEF Applying, DoApply
  <2>3. stale' \in [Proposals -> SUBSET Parameters]
    BY <1>3, MemberChanges DEF Applying, DoApply, Stain, Changed
  <2> QED BY <1>3, <2>1, <2>2, <2>3 DEF Applying, DoApply
<1>4. ASSUME NEW p \in Proposals, Deciding(p) PROVE EvolutionTypeOK'
  BY <1>4, VerdictValues DEF Deciding, Decide
<1>5. ASSUME NEW p \in Proposals, Rollback(p) PROVE EvolutionTypeOK'
  <2>1. parameters' \in [Parameters -> Values]
    BY <1>5, WriteType DEF Rollback, Restored
  <2>2. stale' \in [Proposals -> SUBSET Parameters]
    BY <1>5, MemberChanges DEF Rollback, Stain, Changed
  <2> QED BY <1>5, <2>1, <2>2 DEF Rollback
<1>6. ASSUME NEW a \in Agents, NEW s \in Standings, AgentChanges(a, s)
      PROVE  EvolutionTypeOK'
  BY <1>6, EvolutionAssumption DEF AgentChanges
<1>7. Tick => EvolutionTypeOK'
  BY EvolutionAssumption DEF Tick
<1>8. UNCHANGED vars => EvolutionTypeOK'
  BY DEF vars
<1> QED BY Steps, <1>1, <1>2, <1>3, <1>4, <1>5, <1>6, <1>7, <1>8

(* Parameters, proposals, votes and clocks are well formed in every state. *)
THEOREM TypeCorrect == Spec => []EvolutionTypeOK
  BY InitType, NextType, PTL DEF Spec

-----------------------------------------------------------------------------
(* The safety rails: inductive as they stand.                              *)

LEMMA ChangedType ==
  ASSUME EvolutionTypeOK, NEW p \in Proposals
  PROVE  /\ Changed(p) \subseteq Parameters
         /\ DOMAIN old[p] = Changed(p)
  BY MemberChanges DEF EvolutionTypeOK, Changed

LEMMA WriteRails ==
  ASSUME NEW c, WithinBounds(c), \A x \in Parameters : parameters[x] \in Bounds[x]
  PROVE  \A x \in Parameters : Write(c)[x] \in Bounds[x]
  BY DEF WithinBounds, Write

LEMMA RailsNext == EvolutionTypeOK /\ SafetyRails /\ [Next]_vars => SafetyRails'
<1> SUFFICES ASSUME EvolutionTypeOK, SafetyRails, [Next]_vars PROVE SafetyRails'
  OBVIOUS
<1>1. ASSUME NEW a \in Agents, NEW p \in Proposals, NEW change \in Changes,
             Propose(a, p, change)
      PROVE  SafetyRails'
  <2> DEFINE o == [x \in DOMAIN change |-> parameters[x]]
  <2>1. /\ UNCHANGED parameters
        /\ \A q \in Proposals : new'[q] = IF q = p THEN change ELSE new[q]
        /\ \A q \in Proposals : old'[q] = IF q = p THEN o ELSE old[q]
    BY <1>1 DEF Propose, EvolutionTypeOK
  <2>2. WithinBounds(change) /\ WithinBounds(o)
    BY <1>1, MemberChanges DEF Propose, SafetyRails, WithinBounds
  <2> HIDE DEF o
  <2>3. \A q \in Proposals : WithinBounds(new'[q]) /\ WithinBounds(old'[q])
    BY <2>1, <2>2 DEF SafetyRails
  <2> QED BY <2>1, <2>3 DEF SafetyRails, WithinBounds
<1>2. ASSUME NEW p \in Proposals, Applying(p) PROVE SafetyRails'
  <2>1. parameters' = Write(new[p]) /\ UNCHANGED <<new, old>>
    BY <1>2 DEF Applying, DoApply
  <2>2. \A x \in Parameters : parameters'[x] \in Bounds[x]
    BY <2>1, WriteRails DEF SafetyRails
  <2> QED BY <2>1, <2>2 DEF SafetyRails, WithinBounds
<1>3. ASSUME NEW p \in Proposals, Rollback(p) PROVE SafetyRails'
  <2>1. parameters' = Write(old[p]) /\ UNCHANGED <<new, old>>
    BY <1>3 DEF Rollback, Restored
  <2>2. \A x \in Parameters : parameters'[x] \in Bounds[x]
    BY <2>1, WriteRails DEF SafetyRails
  <2> QED BY <2>1, <2>2 DEF SafetyRails, WithinBounds
<1>4. UNCHANGED <<parameters, new, old>> => SafetyRails'
  BY DEF SafetyRails, WithinBounds
<1>5. ASSUME NEW a \in Agents, NEW p \in Proposals, NEW approve \in BOOLEAN,
             Vote(a, p, approve)
      PROVE  SafetyRails'
  BY <1>4, <1>5 DEF Vote
<1>6. ASSUME NEW p \in Proposals, Deciding(p) PROVE SafetyRails'
  BY <1>4, <1>6 DEF Deciding, Decide
<1>7. ASSUME NEW a \in Agents, NEW s \in Standings, AgentChanges(a, s)
      PROVE  SafetyRails'
  BY <1>4, <1>7 DEF AgentChanges
<1>8. Tick => SafetyRails'
  BY <1>4 DEF Tick
<1>9. UNCHANGED vars => SafetyRails'
  BY <1>4 DEF vars
<1> QED BY Steps, <1>1, <1>2, <1>3, <1>5, <1>6, <1>7, <1>8, <1>9

(* No order of proposals, applications and rollbacks takes a parameter out *)
(* of its hard bounds.                                                     *)
THEOREM SafetyRailsHold == Spec => []SafetyRails
<1>1. Init => SafetyRails
  BY EvolutionAssumption DEF Init, SafetyRails, WithinBounds
<1> QED BY <1>1, RailsNext, TypeCorrect, PTL DEF Spec

-----------------------------------------------------------------------------
(* The rate limit.                                                         *)

(* A category remembers a change at least as late as every evolution that  *)
(* touched it: what apply compares the clock with.                         *)
Remembered ==
  \A p \in Effective : \A k \in Touched(p) : appliedAt[p] <= lastChange[k]

LEMMA TouchedType ==
  ASSUME EvolutionTypeOK, NEW p \in Proposals
  PROVE  Touched(p) \subseteq Categories
  BY ChangedType DEF Touched, Categories

LEMMA RateNext ==
  EvolutionTypeOK /\ Remembered /\ RateLimited /\ [Next]_vars
    => (Remembered /\ RateLimited)'
<1> SUFFICES ASSUME EvolutionTypeOK, Remembered, RateLimited, [Next]_vars
             PROVE  (Remembered /\ RateLimited)'
  OBVIOUS
<1>1. ASSUME NEW p \in Proposals, Applying(p) PROVE (Remembered /\ RateLimited)'
  <2>1. /\ now \in Int /\ Cooldown \in Nat
        /\ \A q \in Proposals : appliedAt[q] \in Int
        /\ \A k \in Categories : lastChange[k] \in Int
    BY EvolutionAssumption DEF EvolutionTypeOK
  <2>2. /\ \A k \in Categories :
             lastChange'[k] = IF k \in Touched(p) THEN now ELSE lastChange[k]
        /\ \A q \in Proposals : appliedAt'[q] = IF q = p THEN now ELSE appliedAt[q]
        /\ \A q \in Proposals : estatus'[q] = IF q = p THEN "applied" ELSE estatus[q]
        /\ UNCHANGED new
    BY <1>1 DEF Applying, DoApply, EvolutionTypeOK
  <2>3. \A q \in Proposals : Touched(q)' = Touched(q)
    BY <2>2 DEF Touched, Changed
  <2>4. p \notin Effective /\ Effective' = Effective \cup {p}
    BY <1>1, <2>2 DEF Applying, Effective
  <2>5. \A k \in Touched(p) : lastChange[k] + Cooldown <= now
    <3> TAKE k \in Touched(p)
    <3>1. now - lastChange[k] >= Cooldown
      BY <1>1 DEF Applying, CooledDown
    <3>2. lastChange[k] \in Int
      BY <2>1, TouchedType
    <3> QED BY <2>1, <3>1, <3>2
  <2>6. ASSUME NEW q \in Effective, Touched(q) \cap Touched(p) # {}
        PROVE  appliedAt[q] + Cooldown <= now
    <3>1. PICK k \in Touched(p) : k \in Touched(q)
      BY <2>6
    <3>2. appliedAt[q] <= lastChange[k] /\ lastChange[k] + Cooldown <= now
      BY <2>5, <2>6, <3>1 DEF Remembered
    <3>3. appliedAt[q] \in Int /\ lastChange[k] \in Int
      BY <2>1, <3>1, TouchedType DEF Effective
    <3> QED BY <2>1, <3>2, <3>3
  <2>7. Remembered'
    <3> SUFFICES ASSUME NEW q \in Effective', NEW k \in Touched(q)
                 PROVE  appliedAt'[q] <= lastChange'[k]
      BY <2>3 DEF Remembered, Effective
    <3>1. q \in Proposals /\ k \in Categories
      BY TouchedType DEF Effective
    <3>2. CASE q = p
      BY <2>1, <2>2, <3>1, <3>2
    <3>3. CASE q # p /\ k \in Touched(p)
      <4>1. appliedAt[q] + Cooldown <= now
        BY <2>4, <2>6, <3>3
      <4> QED BY <2>1, <2>2, <3>1, <3>3, <4>1
    <3>4. CASE q # p /\ k \notin Touched(p)
      BY <2>2, <2>4, <3>1, <3>4 DEF Remembered
    <3> QED BY <3>2, <3>3, <3>4
  <2>8. RateLimited'
    <3> SUFFICES ASSUME NEW q \in Effective', NEW r \in Effective', q # r,
                        Touched(q) \cap Touched(r) # {}
                 PROVE  \/ appliedAt'[q] + Cooldown <= appliedAt'[r]
                        \/ appliedAt'[r] + Cooldown <= appliedAt'[q]
      BY <2>3 DEF RateLimited, Effective
    <3>1. q \in Proposals /\ r \in Proposals
      BY DEF Effective
    <3>2. CASE q = p
      BY <2>2, <2>4, <2>6, <3>1, <3>2
    <3>3. CASE r = p
      BY <2>2, <2>4, <2>6, <3>1, <3>3
    <3>4. CASE q # p /\ r # p
      BY <2>2, <2>4, <3>1, <3>4 DEF RateLimited
    <3> QED BY <3>2, <3>3, <3>4
  <2> QED BY <2>7, <2>8
<1>2. ASSUME UNCHANGED <<appliedAt, lastChange>>, Effective' = Effective,
             \A q \in Effective : Touched(q)' = Touched(q)
      PROVE  (Remembered /\ RateLimited)'
  BY <1>2 DEF Remembered, RateLimited
<1>3. UNCHANGED <<appliedAt, lastChange, new, estatus>> => (Remembered /\ RateLimited)'
  BY <1>2 DEF Effective, Touched, Changed
<1>4. ASSUME NEW a \in Agents, NEW p \in Proposals, NEW change \in Changes,
             Propose(a, p, change)
      PROVE  (Remembered /\ RateLimited)'
  <2>1. /\ p \notin Effective /\ Effective' = Effective
        /\ \A q \in Effective : new'[q] = new[q]
    BY <1>4 DEF Propose, Effective, EvolutionTypeOK
  <2>2. \A q \in Effective : Touched(q)' = Touched(q)
    BY <2>1 DEF Touched, Changed
  <2> QED BY <1>2, <1>4, <2>1, <2>2 DEF Propose
<1>5. ASSUME NEW p \in Proposals, Deciding(p) PROVE (Remembered /\ RateLimited)'
  <2>1. Effective' = Effective
    BY <1>5, VerdictValues DEF Deciding, Decide, Effective, EvolutionTypeOK
  <2>2. UNCHANGED <<appliedAt, lastChange, new>>
    BY <1>5 DEF Deciding, Decide
  <2> QED BY <1>2, <2>1, <2>2 DEF Touched, Changed
<1>6. ASSUME NEW p \in Proposals, Rollback(p) PROVE (Remembered /\ RateLimited)'
  <2>1. Effective' = Effective
    BY <1>6 DEF Rollback, Effective, EvolutionTypeOK
  <2>2. UNCHANGED <<appliedAt, lastChange, new>>
    BY <1>6 DEF Rollback
  <2> QED BY <1>2, <2>1, <2>2 DEF Touched, Changed
<1>7. ASSUME NEW a \in Agents, NEW p \in Proposals, NEW approve \in BOOLEAN,
             Vote(a, p, approve)
      PROVE  (Remembered /\ RateLimited)'
  BY <1>3, <1>7 DEF Vote
<1>8. ASSUME NEW a \in Agents, NEW s \in Standings, AgentChanges(a, s)
      PROVE  (Remembered /\ RateLimited)'
  BY <1>3, <1>8 DEF AgentChanges
<1>9. Tick => (Remembered /\ RateLimited)'
  BY <1>3 DEF Tick
<1>10. UNCHANGED vars => (Remembered /\ RateLimited)'
  BY <1>3 DEF vars
<1> QED BY Steps, <1>1, <1>4, <1>5, <1>6, <1>7, <1>8, <1>9, <1>10

(* Two evolutions that touch a category take effect a cooldown apart, even *)
(* when one changes several categories and others are rolled back.         *)
THEOREM RateLimitedHolds == Spec => []RateLimited
<1>1. Init => Remembered /\ RateLimited
  BY DEF Init, Remembered, RateLimited, Effective
<1> QED BY <1>1, RateNext, TypeCorrect, PTL DEF Spec

-----------------------------------------------------------------------------
(* Rolling back.                                                           *)

(* The old values of a proposal nobody interfered with are the parameters  *)
(* until it is applied, and what they were before it from then on.         *)
Fresh ==
  \A p \in Proposals : \A x \in Changed(p) \ stale[p] :
    /\ estatus[p] \in {"proposed", "approved"} => old[p][x] = parameters[x]
    /\ estatus[p] = "applied" => old[p][x] = before[p][x]

LEMMA FreshApplying ==
  ASSUME EvolutionTypeOK, Fresh, NEW p \in Proposals, Applying(p)
  PROVE  Fresh'
<1>1. /\ \A x \in Parameters :
           x \notin Changed(p) => parameters'[x] = parameters[x]
      /\ \A q \in Proposals : estatus'[q] = IF q = p THEN "applied" ELSE estatus[q]
      /\ \A q \in Proposals : before'[q] = IF q = p THEN parameters ELSE before[q]
      /\ \A q \in Proposals : stale'[q] = IF q = p \/ estatus[q] = "absent" THEN stale[q]
                                ELSE stale[q] \cup (Changed(p) \cap Changed(q))
      /\ UNCHANGED <<new, old>>
  BY DEF Applying, DoApply, Stain, Write, Changed, EvolutionTypeOK
<1>2. estatus[p] \in {"proposed", "approved"}
  BY DEF Applying
<1> SUFFICES ASSUME NEW q \in Proposals, NEW x \in Changed(q) \ stale'[q]
             PROVE  /\ estatus'[q] \in {"proposed", "approved"} => old[q][x] = parameters'[x]
                    /\ estatus'[q] = "applied" => old[q][x] = before'[q][x]
  BY <1>1 DEF Fresh, Changed
<1>3. x \in Parameters /\ x \in Changed(q) \ stale[q]
  BY <1>1, ChangedType
<1>4. CASE q = p
  BY <1>1, <1>2, <1>3, <1>4 DEF Fresh
<1>5. CASE q # p /\ estatus[q] = "absent"
  BY <1>1, <1>5
<1>6. CASE q # p /\ estatus[q] # "absent"
  <2>1. x \notin Changed(p)
    BY <1>1, <1>6
  <2> QED BY <1>1, <1>3, <1>6, <2>1 DEF Fresh
<1> QED BY <1>4, <1>5, <1>6

LEMMA FreshRollingBack ==
  ASSUME EvolutionTypeOK, Fresh, NEW p \in Proposals, Rollback(p)
  PROVE  Fresh'
<1>0. DOMAIN old[p] = Changed(p)
  BY ChangedType
<1>1. /\ \A x \in Parameters :
           x \notin Changed(p) => parameters'[x] = parameters[x]
      /\ \A q \in Proposals : estatus'[q] = IF q = p THEN "rolled_back" ELSE estatus[q]
      /\ \A q \in Proposals : stale'[q] = IF q = p \/ estatus[q] = "absent" THEN stale[q]
                                ELSE stale[q] \cup (Changed(p) \cap Changed(q))
      /\ UNCHANGED <<new, old, before>>
  BY <1>0 DEF Rollback, Restored, Stain, Write, EvolutionTypeOK
<1> SUFFICES ASSUME NEW q \in Proposals, NEW x \in Changed(q) \ stale'[q]
             PROVE  /\ estatus'[q] \in {"proposed", "approved"} => old[q][x] = parameters'[x]
                    /\ estatus'[q] = "applied" => old[q][x] = before[q][x]
  BY <1>1 DEF Fresh, Changed
<1>3. x \in Parameters /\ x \in Changed(q) \ stale[q]
  BY <1>1, ChangedType
<1>4. CASE q = p
  BY <1>1, <1>4
<1>5. CASE q # p /\ estatus[q] = "absent"
  BY <1>1, <1>5
<1>6. CASE q # p /\ estatus[q] # "absent"
  <2>1. x \notin Changed(p)
    BY <1>1, <1>6
  <2> QED BY <1>1, <1>3, <1>6, <2>1 DEF Fresh
<1> QED BY <1>4, <1>5, <1>6

LEMMA FreshNext == EvolutionTypeOK /\ Fresh /\ [Next]_vars => Fresh'
<1> SUFFICES ASSUME EvolutionTypeOK, Fresh, [Next]_vars PROVE Fresh'
  OBVIOUS
<1>1. ASSUME NEW a \in Agents, NEW p \in Proposals, NEW change \in Changes,
             Propose(a, p, change)
      PROVE  Fresh'
  <2> DEFINE o == [x \in DOMAIN change |-> parameters[x]]
  <2>1. /\ UNCHANGED <<parameters, before, stale>>
        /\ \A q \in Proposals : new'[q] = IF q = p THEN change ELSE new[q]
        /\ \A q \in Proposals : old'[q] = IF q = p THEN o ELSE old[q]
        /\ \A q \in Proposals : estatus'[q] = IF q = p THEN "proposed" ELSE estatus[q]
    BY <1>1 DEF Propose, EvolutionTypeOK
  <2>2. \A x \in DOMAIN change : o[x] = parameters[x]
    OBVIOUS
  <2> HIDE DEF o
  <2> QED BY <2>1, <2>2 DEF Fresh, Changed
<1>2. ASSUME NEW p \in Proposals, Deciding(p) PROVE Fresh'
  <2>1. /\ UNCHANGED <<parameters, new, old, before, stale>>
        /\ \A q \in Proposals : estatus'[q] # estatus[q] =>
             estatus[q] = "proposed" /\ estatus'[q] \in {"approved", "rejected"}
    BY <1>2, VerdictValues DEF Deciding, Decide, EvolutionTypeOK
  <2> QED BY <2>1 DEF Fresh, Changed
<1>3. UNCHANGED <<parameters, new, old, before, stale, estatus>> => Fresh'
  BY DEF Fresh, Changed
<1>4. ASSUME NEW a \in Agents, NEW p \in Proposals, NEW approve \in BOOLEAN,
             Vote(a, p, approve)
      PROVE  Fresh'
  BY <1>3, <1>4 DEF Vote
<1>5. ASSUME NEW a \in Agents, NEW s \in Standings, AgentChanges(a, s) PROVE Fresh'
  BY <1>3, <1>5 DEF AgentChanges
<1>6. Tick => Fresh'
  BY <1>3 DEF Tick
<1>7. UNCHANGED vars => Fresh'
  BY <1>3 DEF vars
<1> QED BY Steps, FreshApplying, FreshRollingBack, <1>1, <1>2, <1>4, <1>5, <1>6, <1>7

(* A rollback writes the old values of one proposal and nothing else.      *)
LEMMA RollbackWrites ==
  ASSUME EvolutionTypeOK, Fresh, NEW p \in Proposals, RolledBack(p), [Next]_vars
  PROVE  \A x \in Parameters :
           parameters'[x] = IF x \in Changed(p) \ stale[p] THEN before[p][x]
                            ELSE IF x \in Changed(p) THEN old[p][x] ELSE parameters[x]
<1>1. ASSUME NEW q \in Proposals, Rollback(q) PROVE q = p
  BY <1>1 DEF Rollback, RolledBack, EvolutionTypeOK
<1>2. Rollback(p)
  <2>1. ASSUME NEW q \in Proposals, Applying(q) PROVE FALSE
    BY <2>1 DEF Applying, DoApply, RolledBack, EvolutionTypeOK
  <2>2. ASSUME NEW q \in Proposals, Deciding(q) PROVE FALSE
    BY <2>2, VerdictValues DEF Deciding, Decide, RolledBack, EvolutionTypeOK
  <2>3. ASSUME NEW a \in Agents, NEW q \in Proposals, NEW change \in Changes,
               Propose(a, q, change)
        PROVE  FALSE
    BY <2>3 DEF Propose, RolledBack, EvolutionTypeOK
  <2>4. UNCHANGED estatus => FALSE
    BY DEF RolledBack
  <2>5. ASSUME NEW a \in Agents, NEW q \in Proposals, NEW approve \in BOOLEAN,
               Vote(a, q, approve)
        PROVE  FALSE
    BY <2>4, <2>5 DEF Vote
  <2>6. ASSUME NEW a \in Agents, NEW s \in Standings, AgentChanges(a, s) PROVE FALSE
    BY <2>4, <2>6 DEF AgentChanges
  <2>7. Tick \/ UNCHANGED vars => FALSE
    BY <2>4 DEF Tick, vars
  <2> QED BY Steps, <1>1, <2>1, <2>2, <2>3, <2>5, <2>6, <2>7
<1>3. DOMAIN old[p] = Changed(p)
  BY ChangedType
<1>4. \A x \in Parameters :
        parameters'[x] = IF x \in Changed(p) THEN old[p][x] ELSE parameters[x]
  BY <1>2, <1>3 DEF Rollback, Restored, Write
<1>5. \A x \in Changed(p) \ stale[p] : old[p][x] = before[p][x]
  BY <1>2 DEF Fresh, Rollback
<1> QED BY <1>4, <1>5

(* A rollback gives back what its evolution replaced, wherever no other    *)
(* evolution or rollback wrote since the proposal, and leaves the other    *)
(* parameters alone.                                                       *)
THEOREM FreshRollbackHolds == Spec => FreshRollback
<1>1. Init => Fresh
  BY DEF Init, Fresh
<1>2. EvolutionTypeOK /\ Fresh /\ [Next]_vars =>
        [\A p \in Proposals : RolledBack(p) =>
           \A x \in Parameters :
             parameters'[x] = IF x \in Changed(p) \ stale[p] THEN before[p][x]
                              ELSE IF x \in Changed(p) THEN old[p][x]
                                   ELSE parameters[x]]_vars
  BY RollbackWrites
<1> QED BY <1>1, <1>2, FreshNext, TypeCorrect, PTL DEF Spec, FreshRollback

-----------------------------------------------------------------------------
(* The supermajority.                                                      *)

(* The weight cast on a proposal is that of its voters.                    *)
Weighed ==
  \A p \in Proposals :
    /\ IsFiniteSet(voterIds[p])
    /\ TotalVotes(p) <= MaxAuthority * Cardinality(voterIds[p])

Won(p) == votesFor[p] > 0 /\ votesFor[p] >= 3 * votesAgainst[p]

Carried ==
  \A p \in Proposals :
    estatus[p] \in {"approved", "applied", "rolled_back"} => Won(p)

LEMMA VerdictWon ==
  ASSUME EvolutionTypeOK, NEW p \in Proposals, Verdict(p) = "approved"
  PROVE  Won(p)
<1>1. votesFor[p] \in Nat /\ votesAgainst[p] \in Nat
  BY DEF EvolutionTypeOK
<1>2. Supported(p)
  BY DEF Verdict
<1> QED BY <1>1, <1>2 DEF Supported, TotalVotes, Won

LEMMA VoteWeighed ==
  ASSUME EvolutionTypeOK, Weighed, NEW a \in Agents, NEW p \in Proposals,
         NEW approve \in BOOLEAN, Vote(a, p, approve)
  PROVE  Weighed'
<1>1. /\ votesFor[p] \in Nat /\ votesAgainst[p] \in Nat
      /\ MaxAuthority \in Nat /\ Authority(a) \in 0..MaxAuthority
  BY EvolutionAssumption DEF EvolutionTypeOK, Authority
<1>2. /\ a \notin voterIds[p]
      /\ \A q \in Proposals :
           voterIds'[q] = IF q = p THEN voterIds[p] \cup {a} ELSE voterIds[q]
  BY DEF Vote, EvolutionTypeOK
<1>3. \A q \in Proposals : q # p => TotalVotes(q)' = TotalVotes(q)
  BY DEF Vote, EvolutionTypeOK, TotalVotes
<1>4. TotalVotes(p)' = TotalVotes(p) + Authority(a)
  <2>1. CASE approve
    BY <1>1, <2>1 DEF Vote, EvolutionTypeOK, TotalVotes
  <2>2. CASE ~approve
    BY <1>1, <2>2 DEF Vote, EvolutionTypeOK, TotalVotes
  <2> QED BY <2>1, <2>2
<1> DEFINE n == Cardinality(voterIds[p])
<1>5. /\ IsFiniteSet(voterIds[p] \cup {a})
      /\ n \in Nat
      /\ Cardinality(voterIds[p] \cup {a}) = n + 1
  BY <1>2, FS_AddElement, FS_CardinalityType DEF Weighed
<1>6. TotalVotes(p) \in Nat /\ TotalVotes(p) <= MaxAuthority * n
  BY <1>1 DEF Weighed, TotalVotes
<1> HIDE DEF n
<1>7. TotalVotes(p) + Authority(a) <= MaxAuthority * (n + 1)
  <2>1. MaxAuthority * (n + 1) = MaxAuthority * n + MaxAuthority
    BY <1>1, <1>5
  <2>2. MaxAuthority * n \in Nat
    BY <1>1, <1>5
  <2> QED BY <1>1, <1>6, <2>1, <2>2
<1>8. TotalVotes(p)' <= MaxAuthority * Cardinality(voterIds[p])'
  BY <1>2, <1>4, <1>5, <1>7
<1> SUFFICES ASSUME NEW q \in Proposals
             PROVE  /\ IsFiniteSet(voterIds'[q])
                    /\ TotalVotes(q)' <= MaxAuthority * Cardinality(voterIds'[q])
  BY DEF Weighed
<1>9. CASE q = p
  BY <1>2, <1>5, <1>8, <1>9
<1>10. CASE q # p
  BY <1>2, <1>3, <1>10 DEF Weighed
<1> QED BY <1>9, <1>10

LEMMA VoteCarried ==
  ASSUME EvolutionTypeOK, Carried, NEW a \in Agents, NEW p \in Proposals,
         NEW approve \in BOOLEAN, Vote(a, p, approve)
  PROVE  Carried'
<1>1. /\ estatus[p] = "proposed" /\ UNCHANGED estatus
      /\ \A q \in Proposals : q # p => votesFor'[q] = votesFor[q]
      /\ \A q \in Proposals : q # p => votesAgainst'[q] = votesAgainst[q]
  BY DEF Vote, EvolutionTypeOK
<1> QED BY <1>1 DEF Carried, Won

LEMMA MajorityNext ==
  EvolutionTypeOK /\ Weighed /\ Carried /\ [Next]_vars => (Weighed /\ Carried)'
<1> SUFFICES ASSUME EvolutionTypeOK, Weighed, Carried, [Next]_vars
             PROVE  (Weighed /\ Carried)'
  OBVIOUS
<1>1. UNCHANGED voteVars => Weighed'
  BY DEF voteVars, Weighed, TotalVotes
<1>2. UNCHANGED voteVars => \A p \in Proposals : Won(p)' = Won(p)
  BY DEF voteVars, Won
<1>3. ASSUME NEW p \in Proposals, Applying(p) PROVE (Weighed /\ Carried)'
  <2>1. UNCHANGED voteVars
    BY <1>3 DEF Applying, DoApply
  <2>2. Won(p)
    BY <1>3, VerdictWon DEF Applying, Carried
  <2>3. \A q \in Proposals : q # p => estatus'[q] = estatus[q]
    BY <1>3 DEF Applying, DoApply, EvolutionTypeOK
  <2> QED BY <1>1, <1>2, <2>1, <2>2, <2>3 DEF Carried
<1>4. ASSUME NEW p \in Proposals, Deciding(p) PROVE (Weighed /\ Carried)'
  <2>1. UNCHANGED voteVars
    BY <1>4 DEF Deciding, Decide
  <2>2. /\ estatus'[p] = Verdict(p)
        /\ \A q \in Proposals : q # p => estatus'[q] = estatus[q]
    BY <1>4 DEF Deciding, Decide, EvolutionTypeOK
  <2>3. estatus'[p] = "rejected" \/ Won(p)
    BY <2>2, VerdictWon, VerdictValues
  <2> QED BY <1>1, <1>2, <2>1, <2>2, <2>3 DEF Carried
<1>5. ASSUME NEW p \in Proposals, Rollback(p) PROVE (Weighed /\ Carried)'
  <2>1. /\ UNCHANGED voteVars
        /\ estatus[p] = "applied"
        /\ \A q \in Proposals : q # p => estatus'[q] = estatus[q]
    BY <1>5 DEF Rollback, EvolutionTypeOK
  <2> QED BY <1>1, <1>2, <2>1 DEF Carried
<1>6. ASSUME NEW a \in Agents, NEW p \in Proposals, NEW change \in Changes,
             Propose(a, p, change)
      PROVE  (Weighed /\ Carried)'
  <2>1. /\ UNCHANGED voteVars
        /\ \A q \in Proposals : estatus'[q] = IF q = p THEN "proposed" ELSE estatus[q]
    BY <1>6 DEF Propose, EvolutionTypeOK
  <2> QED BY <1>1, <1>2, <2>1 DEF Carried
<1>7. UNCHANGED <<voteVars, estatus>> => (Weighed /\ Carried)'
  BY <1>1, <1>2 DEF Carried
<1>8. ASSUME NEW a \in Agents, NEW s \in Standings, AgentChanges(a, s)
      PROVE  (Weighed /\ Carried)'
  BY <1>7, <1>8 DEF AgentChanges
<1>9. Tick => (Weighed /\ Carried)'
  BY <1>7 DEF Tick
<1>10. UNCHANGED vars => (Weighed /\ Carried)'
  BY <1>7 DEF vars
<1> QED BY Steps, VoteWeighed, VoteCarried, <1>3, <1>4, <1>5, <1>6, <1>8, <1>9, <1>10

(* What is applied was carried by three quarters of the weight cast, each  *)
(* voter counted once and for no more than full authority.                 *)
THEOREM SupermajorityHolds == Spec => []Supermajority
<1>1. Init => Weighed /\ Carried
  BY EvolutionAssumption, FS_EmptySet DEF Init, Weighed, Carried, TotalVotes
<1>2. Weighed /\ Carried => Supermajority
  BY DEF Weighed, Carried, Won, Supermajority
<1> QED BY <1>1, <1>2, MajorityNext, TypeCorrect, PTL DEF Spec

=============================================================================
