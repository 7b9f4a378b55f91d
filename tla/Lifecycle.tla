----------------------------- MODULE Lifecycle ------------------------------
(***************************************************************************)
(* How agents come from agents: one spawns a child out of its authority    *)
(* and credits, two merge into one, one splits into two.                   *)
(* Code: SpawnEngine in core/spawn.py and Firm.spawn_agent, merge_agents   *)
(* and split_agent in runtime.py.                                          *)
(*                                                                         *)
(* Fractions and ratios are percentages; authority and counts of actions   *)
(* are rounded down, the counts as int() does in the code.  The failure    *)
(* count, which nothing reads, is left out.                                *)
(***************************************************************************)
EXTENDS Members, Functions

CONSTANTS
  SpawnMin,     \* MIN_AUTHORITY_TO_SPAWN, 60
  MergeMin,     \* MIN_AUTHORITY_TO_MERGE, 50
  SpawnShare,   \* SPAWN_AUTHORITY_FRACTION, 30
  CreditShare,  \* SPAWN_CREDIT_FRACTION, 20
  Ratios,       \* the ratios split is called with, of 10..90
  Histories     \* what founders have done: pairs of actions and successes

ASSUME LifecycleAssumption ==
  /\ SpawnMin \in 0..100
  /\ MergeMin \in 0..100
  /\ SpawnShare \in 0..100
  /\ CreditShare \in 0..100
  /\ Ratios \subseteq 10..90
  /\ Histories \subseteq {h \in Nat \X Nat : h[2] <= h[1]}

VARIABLES
  actions,    \* Agent._action_count
  successes   \* Agent._success_count

ownLifecycle == <<actions, successes>>

lifecycleVars == <<memberVars, ownLifecycle>>

LifecycleTypeOK ==
  /\ actions \in [Agents -> Nat]
  /\ successes \in [Agents -> Nat]

LifecycleInit ==
  \E h \in [Founders -> Histories] :
    /\ actions = [a \in Agents |-> IF a \in Founders THEN h[a][1] ELSE 0]
    /\ successes = [a \in Agents |-> IF a \in Founders THEN h[a][2] ELSE 0]

-----------------------------------------------------------------------------

Part(percent, x) == (percent * x) \div 100

(* The agents of `children' join, those of `gone' are terminated, and each *)
(* agent loses what it has `spent'.  Termination takes neither authority   *)
(* nor credits away.                                                       *)
Restructure(children, gone, spent) ==
  LET new == DOMAIN children
  IN /\ \A c \in new : ~Registered(c)
     /\ authority' = [a \in Agents |->
          IF a \in new THEN children[a].authority ELSE authority[a]]
     /\ status' = [a \in Agents |->
          IF a \in new THEN "active" ELSE IF a \in gone THEN "inactive" ELSE status[a]]
     /\ credits' = [a \in Agents |->
          IF a \in new THEN children[a].credits ELSE credits[a] - spent[a]]
     /\ roles' = [a \in Agents |-> IF a \in new THEN children[a].roles ELSE roles[a]]
     /\ actions' = [a \in Agents |->
          IF a \in new THEN children[a].actions ELSE actions[a]]
     /\ successes' = [a \in Agents |->
          IF a \in new THEN children[a].successes ELSE successes[a]]

Nothing == [a \in Agents |-> 0]

Spent_Not(parent, amount) == Nothing

(* The parent pays for its child.                                          *)
Spent(parent, amount) == [Nothing EXCEPT ![parent] = amount]

(* Firm.spawn_agent, with roles given outside the role engine.             *)
Spawn(parent, child, names) ==
  LET gift == Part(CreditShare, credits[parent])
  IN /\ Active(parent)
     /\ authority[parent] >= SpawnMin
     /\ Restructure(
          [c \in {child} |-> [authority |-> Part(SpawnShare, authority[parent]),
                              credits |-> gift, roles |-> names,
                              actions |-> 0, successes |-> 0]],
          {}, Spent(parent, gift))

(* The success rate of a, on a scale that b's shares.                      *)
Rate(a, b) == IF actions[b] = 0 THEN successes[a] ELSE successes[a] * actions[b]

MergedAuthority_Sum(a, b) ==
  LET total == Rate(a, b) + Rate(b, a)
  IN IF total > 0
     THEN (Rate(a, b) * authority[a] + Rate(b, a) * authority[b]) \div total
     ELSE authority[a] + authority[b]

(* The mean of the authorities of two agents, weighted by success rates.   *)
MergedAuthority(a, b) ==
  LET total == Rate(a, b) + Rate(b, a)
  IN IF total > 0
     THEN (Rate(a, b) * authority[a] + Rate(b, a) * authority[b]) \div total
     ELSE (authority[a] + authority[b]) \div 2

(* Firm.merge_agents: of any two agents, active or not.                    *)
Merge(a, b, merged) ==
  /\ a # b
  /\ Registered(a) /\ Registered(b)
  /\ authority[a] >= MergeMin
  /\ authority[b] >= MergeMin
  /\ Restructure(
       [c \in {merged} |-> [authority |-> MergedAuthority(a, b),
                            credits |-> credits[a] + credits[b],
                            roles |-> roles[a] \cup roles[b],
                            actions |-> actions[a] + actions[b],
                            successes |-> successes[a] + successes[b]]],
       {a, b}, Nothing)

(* What the first half of a split gets, and the second.                    *)
FirstHalf(a, ratio) ==
  [authority |-> Part(ratio, authority[a]), credits |-> Part(ratio, credits[a]),
   roles |-> {},
   actions |-> Part(ratio, actions[a]), successes |-> Part(ratio, successes[a])]

SecondHalf(a, ratio) ==
  LET first == FirstHalf(a, ratio)
  IN [authority |-> authority[a] - first.authority,
      credits |-> credits[a] - first.credits,
      roles |-> {},
      actions |-> actions[a] - first.actions,
      successes |-> successes[a] - first.successes]

(* Firm.split_agent                                                        *)
Split(a, left, right, ratio) ==
  /\ left # right
  /\ Active(a)
  /\ authority[a] >= SpawnMin
  /\ Restructure(
       [c \in {left, right} |-> IF c = left THEN FirstHalf(a, ratio)
                                            ELSE SecondHalf(a, ratio)],
       {a}, Nothing)

-----------------------------------------------------------------------------
LifecycleNext ==
  \/ \E a, c \in Agents :
       \/ \E names \in SUBSET RoleNames : Spawn(a, c, names)
       \/ \E b \in Agents : Merge(a, b, c)
       \/ \E d \in Agents, ratio \in Ratios : Split(a, c, d, ratio)
  \/ \E a \in Agents :
       /\ AuthorityMoves(a) \/ StatusMoves(a, "active")
       /\ UNCHANGED ownLifecycle

LifecycleSpec == MembersInit /\ LifecycleInit /\ [][LifecycleNext]_lifecycleVars

-----------------------------------------------------------------------------
(* Properties.                                                             *)

(* What the active agents own.                                             *)
Wealth == SumFunctionOnSet(credits, {a \in Agents : Active(a)})

(* Spawning, merging and splitting active agents only moves credits among  *)
(* the active: none are made and none vanish, and no newcomer has more     *)
(* authority than the best agent before it.  The exception is a merge that *)
(* takes an agent terminated before, whose credits are counted again.      *)
BirthsCreateNothing ==
  [][\A c \in Agents : ~Registered(c) /\ Registered(c)' =>
       /\ \E p \in Agents : Registered(p) /\ authority'[c] <= authority[p]
       /\ \/ Wealth' = Wealth
          \/ \E a, b \in Agents : Merge(a, b, c) /\ ~(Active(a) /\ Active(b))
    ]_lifecycleVars

=============================================================================
