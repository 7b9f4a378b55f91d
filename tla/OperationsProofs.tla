-------------------------- MODULE OperationsProofs --------------------------
(* Theorems of module Operations and the modules it is made of, for any    *)
(* threads, budgets, processes, files, facts and findings.                 *)
EXTENDS Operations, FiniteSetTheorems, TLAPS

LEMMA Steps ==
  ASSUME [Next]_vars
  PROVE  /\ [ExecutionNext]_executionVars
         /\ [PersistenceNext]_persistenceVars
         /\ [BountyNext]_bountyVars
  BY DEF Next, Still, vars

-----------------------------------------------------------------------------
(* Execution: a call asks the model only within its budgets.               *)

WithinBudget(c) ==
  /\ call[c].spent <= TokenBudget(call[c].given)
  /\ 100 * Rate * call[c].spent <= Cost * Scale(call[c].given)

ExecutionInv ==
  /\ ExecutionTypeOK
  /\ BudgetKept
  /\ \A c \in Calls : call[c].at = "asking" => WithinBudget(c)

LEMMA ProductNat ==
  ASSUME NEW m \in Nat, NEW n \in Nat
  PROVE  m * n \in Nat
  OBVIOUS

LEMMA Budgets ==
  ASSUME NEW x \in 0..100
  PROVE  /\ Scale(x) \in 20..100
         /\ TokenBudget(x) \in Nat
         /\ Cost * Scale(x) \in Nat
<1>1. Scale(x) \in 20..100
  BY DEF Scale
<1>2. Tokens * Scale(x) \in Nat /\ Cost * Scale(x) \in Nat
  BY <1>1, ProductNat, ExecutionAssumption
<1>3. TokenBudget(x) \in Nat
  <2>1. \A n \in Nat : n \div 100 \in Nat
    OBVIOUS
  <2> QED BY <1>2, <2>1 DEF TokenBudget
<1> QED BY <1>1, <1>2, <1>3

LEMMA CallIsBusy ==
  ASSUME ExecutionTypeOK, NEW c \in Calls, call[c].at \in Place
  PROVE  call[c] \in Call
  BY DEF ExecutionTypeOK, Idle, Place

(* One answer more than what was within the budgets.                       *)
LEMMA Bounded ==
  ASSUME NEW c \in Calls, call[c] \in Call, WithinBudget(c),
         NEW tokens \in Responses \cup {0},
         NEW s, s = call[c].spent + tokens
  PROVE  \E last \in Responses \cup {0} :
           /\ s - last <= TokenBudget(call[c].given)
           /\ 100 * Rate * (s - last) <= Cost * Scale(call[c].given)
<1>1. s - tokens = call[c].spent
  BY ExecutionAssumption DEF Call
<1>2. /\ s - tokens <= TokenBudget(call[c].given)
      /\ 100 * Rate * (s - tokens) <= Cost * Scale(call[c].given)
  BY <1>1, Zenon DEF WithinBudget
<1> QED BY <1>2

LEMMA ExecutionInvInit == ExecutionInit => ExecutionInv
<1> SUFFICES ASSUME ExecutionInit
             PROVE  ExecutionInv
  OBVIOUS
<1>1. ExecutionTypeOK
  <2>1. 50 \in 0..100
    OBVIOUS
  <2>2. authority \in [Workers -> 0..100]
    BY <2>1 DEF ExecutionInit
  <2>3. active \in [Workers -> BOOLEAN] /\ killed \in BOOLEAN
    BY DEF ExecutionInit
  <2>4. call \in [Calls -> Call \cup {Idle}]
    BY DEF ExecutionInit
  <2> QED BY <2>2, <2>3, <2>4 DEF ExecutionTypeOK
<1>2. BudgetKept /\ \A c \in Calls : call[c].at = "asking" => WithinBudget(c)
  BY DEF ExecutionInit, BudgetKept, Idle
<1> QED BY <1>1, <1>2 DEF ExecutionInv

LEMMA LoopInv ==
  ASSUME ExecutionInv, NEW c \in Calls, Loop(c)
  PROVE  ExecutionInv'
<1>1. call[c] \in Call
  BY CallIsBusy DEF Loop, Place, ExecutionInv
<1>2. \A d \in Calls \ {c} : call'[d] = call[d]
  BY DEF Loop, Ended, ExecutionInv, ExecutionTypeOK
<1>3. /\ call'[c] \in Call
      /\ call'[c].spent = call[c].spent
      /\ call'[c].given = call[c].given
      /\ call'[c].at = "asking" => ~Exceeded(c)
  BY <1>1 DEF Loop, Ended, Advanced, Place, Call, ExecutionInv, ExecutionTypeOK
<1>4. ExecutionTypeOK'
  BY <1>1, <1>2, <1>3 DEF Loop, Ended, ExecutionInv, ExecutionTypeOK
<1>5. call'[c].at = "asking" => WithinBudget(c)'
  <2>1. /\ TokenBudget(call[c].given) \in Nat
        /\ Cost * Scale(call[c].given) \in Nat
        /\ call[c].spent \in Nat
    BY <1>1, Budgets DEF Call
  <2>2. 100 * Rate * call[c].spent \in Nat
    BY <2>1, ProductNat, ExecutionAssumption
  <2> QED BY <1>3, <2>1, <2>2 DEF Exceeded, WithinBudget
<1>6. \A d \in Calls : call'[d].at = "asking" => WithinBudget(d)'
  BY <1>2, <1>5 DEF ExecutionInv, WithinBudget
<1>7. BudgetKept'
  BY <1>1, <1>2, <1>3 DEF ExecutionInv, BudgetKept, Idle, Call
<1> QED BY <1>4, <1>6, <1>7 DEF ExecutionInv

LEMMA AnswerInv ==
  ASSUME ExecutionInv, NEW c \in Calls, Answer(c)
  PROVE  ExecutionInv'
<1>1. call[c] \in Call /\ WithinBudget(c)
  BY CallIsBusy DEF Answer, Place, ExecutionInv
<1>2. \A d \in Calls \ {c} : call'[d] = call[d]
  BY DEF Answer, Ended, ExecutionInv, ExecutionTypeOK
<1>3. PICK tokens \in Responses \cup {0} :
        /\ call'[c] \in Call
        /\ call'[c].spent = call[c].spent + tokens
        /\ call'[c].given = call[c].given
        /\ call'[c].at \in {"using", "reporting"}
  <2>1. CASE Ended(c, FALSE)
    <3>1. /\ call'[c] \in Call
          /\ call'[c].spent = call[c].spent
          /\ call'[c].given = call[c].given
          /\ call'[c].at \in {"using", "reporting"}
      BY <1>1, <2>1 DEF Ended, Call, Place, ExecutionInv, ExecutionTypeOK
    <3>2. call[c].spent = call[c].spent + 0
      BY <1>1 DEF Call
    <3> QED BY <3>1, <3>2
  <2>2. ASSUME NEW tokens \in Responses, NEW final \in BOOLEAN,
               call' = [call EXCEPT ![c].spent = @ + tokens,
                          ![c].at = IF final THEN "reporting" ELSE "using",
                          ![c].success = final]
        PROVE  /\ call'[c] \in Call
               /\ call'[c].spent = call[c].spent + tokens
               /\ call'[c].given = call[c].given
               /\ call'[c].at \in {"using", "reporting"}
    <3>1. tokens \in Nat
      BY ExecutionAssumption
    <3>2. call'[c] = [call[c] EXCEPT !.spent = call[c].spent + tokens,
                                     !.at = IF final THEN "reporting" ELSE "using",
                                     !.success = final]
      BY <1>1, <2>2 DEF ExecutionInv, ExecutionTypeOK
    <3>3. /\ call'[c].spent = call[c].spent + tokens
          /\ call'[c].given = call[c].given
      BY <1>1, <3>2 DEF Call
    <3>4. call[c].spent + tokens \in Nat
      BY <1>1, <3>1 DEF Call
    <3>5. (IF final THEN "reporting" ELSE "using") \in {"using", "reporting"}
      OBVIOUS
    <3>6. call'[c] \in Call /\ call'[c].at \in {"using", "reporting"}
      BY <1>1, <3>2, <3>4, <3>5 DEF Call, Place
    <3> QED BY <3>3, <3>6
  <2> QED BY <2>1, <2>2 DEF Answer
<1>4. ExecutionTypeOK'
  BY <1>1, <1>2, <1>3 DEF Answer, Ended, ExecutionInv, ExecutionTypeOK
<1>5. \A d \in Calls : call'[d].at = "asking" => WithinBudget(d)'
  BY <1>2, <1>3 DEF ExecutionInv, WithinBudget
<1>6. BudgetKept'
  <2>1. \E last \in Responses \cup {0} :
          /\ call'[c].spent - last <= TokenBudget(call'[c].given)
          /\ 100 * Rate * (call'[c].spent - last) <= Cost * Scale(call'[c].given)
    BY <1>1, <1>3, Bounded, Zenon
  <2> QED BY <1>2, <2>1 DEF ExecutionInv, BudgetKept
<1> QED BY <1>4, <1>5, <1>6 DEF ExecutionInv

(* What neither spends nor gets a call to the point of asking.             *)
LEMMA OtherInv ==
  ASSUME ExecutionInv, ExecutionTypeOK',
         \A c \in Calls : call'[c] # Idle => call[c] # Idle /\ /\ call'[c].spent = call[c].spent
                                                               /\ call'[c].given = call[c].given,
         \A c \in Calls : call'[c].at = "asking" => call[c].at = "asking"
  PROVE  ExecutionInv'
<1>1. BudgetKept'
  BY DEF ExecutionInv, BudgetKept
<1>2. \A c \in Calls : call'[c].at = "asking" => WithinBudget(c)'
  BY DEF ExecutionInv, WithinBudget, Idle
<1> QED BY <1>1, <1>2 DEF ExecutionInv

LEMMA ExecutionInvStep ==
  ASSUME ExecutionInv, [ExecutionNext]_executionVars
  PROVE  ExecutionInv'
<1>1. ASSUME NEW c \in Calls, NEW a \in Workers, ExecuteTask(c, a)
      PROVE  ExecutionInv'
  <2>1. /\ call'[c] \in Call
        /\ call'[c].spent = 0
        /\ call'[c].given \in 0..100
        /\ call'[c].at = "looping"
        /\ \A d \in Calls \ {c} : call'[d] = call[d]
    BY <1>1 DEF ExecuteTask, Call, Place, ExecutionInv, ExecutionTypeOK
  <2>2. ExecutionTypeOK'
    BY <1>1, <2>1 DEF ExecuteTask, ExecutionInv, ExecutionTypeOK
  <2>3. /\ 0 - 0 <= TokenBudget(call'[c].given)
        /\ 100 * Rate * (0 - 0) <= Cost * Scale(call'[c].given)
    <3>1. 100 * Rate * (0 - 0) = 0
      BY ExecutionAssumption
    <3> QED BY <2>1, <3>1, Budgets
  <2>4. BudgetKept'
    BY <2>1, <2>3 DEF ExecutionInv, BudgetKept
  <2>5. \A d \in Calls : call'[d].at = "asking" => WithinBudget(d)'
    BY <2>1 DEF ExecutionInv, WithinBudget
  <2> QED BY <2>2, <2>4, <2>5 DEF ExecutionInv
<1>2. ASSUME NEW c \in Calls, UseTools(c)
      PROVE  ExecutionInv'
  <2>1. call[c] \in Call
    BY <1>2, CallIsBusy DEF UseTools, Place, ExecutionInv
  <2>2. ExecutionTypeOK'
    BY <1>2, <2>1 DEF UseTools, Place, Call, ExecutionInv, ExecutionTypeOK
  <2> QED BY <1>2, <2>1, <2>2, OtherInv
          DEF UseTools, Call, Idle, Place, ExecutionInv, ExecutionTypeOK
<1>3. ASSUME NEW c \in Calls, Report(c)
      PROVE  ExecutionInv'
  <2>1. ExecutionTypeOK'
    <3>1. authority' \in [Workers -> 0..100]
      BY <1>3, ExecutionAssumption DEF Report, ExecutionInv, ExecutionTypeOK
    <3> QED BY <1>3, <3>1 DEF Report, ExecutionInv, ExecutionTypeOK
  <2> QED BY <1>3, <2>1, OtherInv DEF Report, Idle, ExecutionInv, ExecutionTypeOK
<1>4. ASSUME NEW c \in Calls, Cancel(c)
      PROVE  ExecutionInv'
  <2>1. call[c] \in Call
    BY <1>4 DEF Cancel, ExecutionInv, ExecutionTypeOK
  <2>2. ExecutionTypeOK'
    BY <1>4, <2>1 DEF Cancel, Call, ExecutionInv, ExecutionTypeOK
  <2> QED BY <1>4, <2>1, <2>2, OtherInv DEF Cancel, Call, Idle, ExecutionInv, ExecutionTypeOK
<1>5. ASSUME SwitchKill \/ \E a \in Workers : Override(a)
      PROVE  ExecutionInv'
  <2>1. ExecutionTypeOK'
    BY <1>5, ExecutionAssumption DEF SwitchKill, Override, ExecutionInv, ExecutionTypeOK
  <2>2. call' = call
    BY <1>5 DEF SwitchKill, Override
  <2> QED BY <2>1, <2>2, OtherInv
<1>6. CASE UNCHANGED executionVars
  <2>1. ExecutionTypeOK' /\ call' = call
    BY <1>6 DEF executionVars, ExecutionInv, ExecutionTypeOK
  <2> QED BY <2>1, OtherInv
<1> QED BY <1>1, <1>2, <1>3, <1>4, <1>5, <1>6, LoopInv, AnswerInv DEF ExecutionNext, Proceed

(* For any budgets, numbers of iterations and answers, and whatever the    *)
(* human operator and other threads do meanwhile, no call spends more than *)
(* its budgets and one answer.                                             *)
THEOREM BudgetsAreKept == Spec => []BudgetKept
<1>1. Init => ExecutionInv
  BY ExecutionInvInit DEF Init
<1>2. ExecutionInv /\ [Next]_vars => ExecutionInv'
  BY ExecutionInvStep, Steps
<1>3. ExecutionInv => BudgetKept
  BY DEF ExecutionInv
<1> QED BY <1>1, <1>2, <1>3, PTL DEF Spec

-----------------------------------------------------------------------------
(* Bounty: the rows only become more, and a finding that is taken in was   *)
(* compared with all that match unless those were too many.                *)

BountyInv ==
  /\ BountyTypeOK
  /\ IsFiniteSet(Stored)
  /\ kept \subseteq Stored
  /\ FoundOnce

LEMMA MatchingFinite ==
  ASSUME IsFiniteSet(Stored), NEW f \in Findings
  PROVE  IsFiniteSet(Matching(f)) /\ Cardinality(Matching(f)) \in Nat
<1>1. Matching(f) \subseteq Stored
  BY DEF Matching
<1>2. IsFiniteSet(Matching(f))
  BY <1>1, FS_Subset
<1> QED BY <1>2, FS_CardinalityType

(* A twin of a finding that is no duplicate was not among the rows found.  *)
LEMMA NotFound ==
  ASSUME NEW f \in Findings, NEW found \in Answers(f), ~Duplicate(f, found),
         NEW g \in Stored, Twins(f, g)
  PROVE  ~(Cardinality(Matching(f)) <= SearchLimit)
<1>1. g \in Findings /\ g # f
  BY DEF Stored, Twins
<1>2. g \in Matching(f)
  <2>1. <<Described[f].asset, Described[g].asset>> \in Inside
    BY <1>1, BountyAssumption DEF Twins
  <2> QED BY <2>1 DEF Matching
<1>3. g \notin found
  BY <1>1 DEF Duplicate, Twins
<1> QED BY <1>2, <1>3 DEF Answers

(* Rows that are added make the rows that match no fewer.                  *)
LEMMA MatchingGrows ==
  ASSUME IsFiniteSet(Stored)', Stored \subseteq Stored', NEW f \in Findings
  PROVE  Cardinality(Matching(f)) <= Cardinality(Matching(f))'
<1>1. Matching(f) \subseteq Matching(f)'
  BY DEF Matching
<1>2. Matching(f)' \subseteq Stored'
  BY DEF Matching
<1>3. IsFiniteSet(Matching(f)')
  BY <1>2, FS_Subset
<1> QED BY <1>1, <1>3, FS_Subset

LEMMA TakenInType ==
  ASSUME BountyTypeOK, kept \subseteq Stored
  PROVE  TakenIn \subseteq Stored /\ Stored \subseteq Findings
  BY DEF TakenIn, Stored

(* A step by which rows only become more and no finding is taken in.       *)
LEMMA NothingTakenIn ==
  ASSUME BountyInv, BountyTypeOK', IsFiniteSet(Stored'), Stored \subseteq Stored',
         TakenIn' \subseteq TakenIn, kept' \subseteq kept
  PROVE  BountyInv'
<1>1. \A f \in TakenIn : f \in Findings
  BY TakenInType DEF BountyInv
<1>2. ASSUME NEW f \in TakenIn', NEW g \in TakenIn', Twins(f, g)
      PROVE  Cardinality(Matching(f))' > SearchLimit + 1
  <2>1. f \in Findings /\ Cardinality(Matching(f)) > SearchLimit + 1
    BY <1>1, <1>2 DEF BountyInv, FoundOnce
  <2>2. Cardinality(Matching(f)) <= Cardinality(Matching(f))'
    BY <2>1, MatchingGrows
  <2>3. Cardinality(Matching(f)) \in Nat
    BY <2>1, MatchingFinite DEF BountyInv
  <2>4. IsFiniteSet(Matching(f)')
    <3>1. Matching(f)' \subseteq Stored'
      BY DEF Matching
    <3> QED BY <3>1, FS_Subset
  <2>5. Cardinality(Matching(f))' \in Nat
    BY <2>4, FS_CardinalityType
  <2> QED BY <2>1, <2>2, <2>3, <2>5, BountyAssumption
<1>3. FoundOnce'
  BY <1>2 DEF FoundOnce, Twins
<1> QED BY <1>3 DEF BountyInv

LEMMA BountyInvInit == BountyInit => BountyInv
<1> SUFFICES ASSUME BountyInit
             PROVE  BountyInv
  OBVIOUS
<1>1. Stored = {} /\ TakenIn = {}
  BY DEF BountyInit, Stored, TakenIn
<1>2. IsFiniteSet({})
  BY FS_EmptySet
<1>3. BountyTypeOK
  BY DEF BountyInit, BountyTypeOK, Status
<1> QED BY <1>1, <1>2, <1>3 DEF BountyInit, BountyInv, FoundOnce

LEMMA UpdateInv ==
  ASSUME BountyInv, NEW f \in Findings, NEW s \in Status \ {"discovered"}, Update(f, s)
  PROVE  BountyInv'
<1>1. "absent" \notin Status
  BY DEF Status
<1>2. BountyTypeOK'
  BY DEF BountyInv, BountyTypeOK, Update
<1>3. Stored' = Stored \/ Stored' = Stored \cup {f}
  BY <1>1 DEF BountyInv, BountyTypeOK, Update, Stored
<1>4. IsFiniteSet(Stored')
  BY <1>3, FS_AddElement DEF BountyInv
<1>5. TakenIn' \subseteq TakenIn
  BY DEF BountyInv, BountyTypeOK, Update, TakenIn
<1> QED BY <1>2, <1>3, <1>4, <1>5, NothingTakenIn DEF Update

(* A finding that is no duplicate is taken in.                             *)
LEMMA TakenInInv ==
  ASSUME BountyInv, BountyTypeOK', NEW f \in Findings, NEW found \in Answers(f),
         ~Duplicate(f, found),
         row' = [row EXCEPT ![f] = state[f]], kept' = kept \cup {f}
  PROVE  BountyInv'
<1>1. /\ f \notin Stored
      /\ Stored' = Stored \cup {f}
  BY DEF BountyInv, BountyTypeOK, Duplicate, Stored, Status
<1>2. IsFiniteSet(Stored')
  BY <1>1, FS_AddElement DEF BountyInv
<1>3. TakenIn' \subseteq TakenIn \cup {f}
  BY DEF BountyInv, BountyTypeOK, TakenIn
<1>4. TakenIn \subseteq Stored /\ Stored \subseteq Findings
  BY TakenInType DEF BountyInv
<1>5. \A h \in Findings : /\ Cardinality(Matching(h)) \in Nat
                          /\ Cardinality(Matching(h))' \in Nat
                          /\ Cardinality(Matching(h)) <= Cardinality(Matching(h))'
  <2> TAKE h \in Findings
  <2>1. Cardinality(Matching(h)) \in Nat
    BY MatchingFinite DEF BountyInv
  <2>2. Matching(h)' \subseteq Stored'
    BY DEF Matching
  <2>3. Cardinality(Matching(h))' \in Nat
    BY <1>2, <2>2, FS_Subset, FS_CardinalityType
  <2>4. Cardinality(Matching(h)) <= Cardinality(Matching(h))'
    BY <1>1, <1>2, MatchingGrows
  <2> QED BY <2>1, <2>3, <2>4
<1>6. Cardinality(Matching(f))' = Cardinality(Matching(f)) + 1
  <2>1. f \notin Matching(f) /\ Matching(f)' = Matching(f) \cup {f}
    BY <1>1, BountyAssumption DEF Matching
  <2> QED BY <2>1, MatchingFinite, FS_AddElement DEF BountyInv
<1>7. ASSUME NEW g \in TakenIn, Twins(f, g)
      PROVE  /\ Cardinality(Matching(f))' > SearchLimit + 1
             /\ Cardinality(Matching(g))' > SearchLimit + 1
  <2>1. ~(Cardinality(Matching(f)) <= SearchLimit)
    BY <1>4, <1>7, NotFound
  <2>2. Cardinality(Matching(f))' > SearchLimit + 1
    BY <1>5, <1>6, <2>1, BountyAssumption
  <2>3. Matching(g)' = Matching(f)'
    BY <1>7 DEF Matching, Twins
  <2> QED BY <2>2, <2>3
<1>8. ASSUME NEW g \in TakenIn, NEW h \in TakenIn, Twins(g, h)
      PROVE  Cardinality(Matching(g))' > SearchLimit + 1
  <2>1. g \in Findings /\ Cardinality(Matching(g)) > SearchLimit + 1
    BY <1>4, <1>8 DEF BountyInv, FoundOnce
  <2> QED BY <1>5, <2>1, BountyAssumption
<1>9. FoundOnce'
  <2> SUFFICES ASSUME NEW g \in TakenIn', NEW h \in TakenIn', Twins(g, h)
               PROVE  Cardinality(Matching(g))' > SearchLimit + 1
    BY DEF FoundOnce, Twins
  <2>1. Twins(h, g) /\ g # h
    BY DEF Twins
  <2> QED BY <1>3, <1>7, <1>8, <2>1
<1>10. kept' \subseteq Stored'
  BY <1>1 DEF BountyInv
<1> QED BY <1>2, <1>9, <1>10 DEF BountyInv

LEMMA BountyInvStep ==
  ASSUME BountyInv, [BountyNext]_bountyVars
  PROVE  BountyInv'
<1>1. ASSUME NEW f \in Findings, NEW found \in Answers(f), AddFinding(f, found)
      PROVE  BountyInv'
  <2>1. BountyTypeOK'
    <3>1. Fingerprint(f) \in Weaknesses \X Assets \X Points
      BY BountyAssumption DEF Fingerprint
    <3>2. Evaluated(f) \in Status \/ Evaluated(f) = "discovered"
      BY DEF Evaluated, Status
    <3>3. state' \in [Findings -> Status]
      BY <1>1, <3>2 DEF AddFinding, BountyInv, BountyTypeOK, Status
    <3>4. row' \in [Findings -> Status \cup {"absent"}]
      BY <1>1 DEF AddFinding, BountyInv, BountyTypeOK
    <3> QED BY <1>1, <3>1, <3>3, <3>4 DEF AddFinding, BountyInv, BountyTypeOK
  <2>2. CASE UNCHANGED <<row, kept>>
    <3>1. Stored' = Stored /\ TakenIn' = TakenIn
      BY <2>2 DEF Stored, TakenIn
    <3> QED BY <2>1, <2>2, <3>1, NothingTakenIn DEF BountyInv
  <2>3. CASE ~Duplicate(f, found) /\ row' = [row EXCEPT ![f] = state[f]] /\ kept' = kept \cup {f}
    BY <2>1, <2>3, TakenInInv
  <2> QED BY <1>1, <2>2, <2>3 DEF AddFinding
<1>2. ASSUME NEW f \in Findings, SubmitFinding(f)
      PROVE  BountyInv'
  BY <1>2, UpdateInv DEF SubmitFinding, Status
<1>3. ASSUME NEW f \in Findings, NEW s \in Reactions, ProcessFeedback(f, s)
      PROVE  BountyInv'
  <2>1. s \in Status \ {"discovered"}
    BY BountyAssumption DEF Status
  <2> QED BY <1>3, <2>1, UpdateInv DEF ProcessFeedback
<1>4. ASSUME Restart
      PROVE  BountyInv'
  <2>1. BountyTypeOK'
    BY <1>4 DEF Restart, BountyInv, BountyTypeOK, Stored, Status
  <2>2. Stored' = Stored /\ TakenIn' \subseteq TakenIn
    BY <1>4 DEF Restart, Stored, TakenIn
  <2> QED BY <1>4, <2>1, <2>2, NothingTakenIn DEF Restart, BountyInv
<1>5. CASE UNCHANGED bountyVars
  <2>1. BountyTypeOK' /\ Stored' = Stored /\ TakenIn' = TakenIn
    BY <1>5 DEF bountyVars, BountyInv, BountyTypeOK, Stored, TakenIn
  <2> QED BY <1>5, <2>1, NothingTakenIn DEF bountyVars, BountyInv
<1> QED BY <1>1, <1>2, <1>3, <1>4, <1>5 DEF BountyNext

(* For any findings, any limit of the comparison and any database file,    *)
(* over any sessions, whatever is submitted and fed back meanwhile:        *)
(* campaigns take in no two findings of one weakness in one asset, unless  *)
(* more rows match than the comparison asks for.                           *)
THEOREM FindingsAreSingle == Spec => []FoundOnce
<1>1. Init => BountyInv
  BY BountyInvInit DEF Init
<1>2. BountyInv /\ [Next]_vars => BountyInv'
  BY BountyInvStep, Steps
<1>3. BountyInv => FoundOnce
  BY DEF BountyInv
<1> QED BY <1>1, <1>2, <1>3, PTL DEF Spec

-----------------------------------------------------------------------------
(* Persistence: a process that a file belongs to alone knows all that was  *)
(* reported of it, so that what it saves there is no less.                 *)

Lasting == {x \in Facts : Sort[x] \in {"agent", "suspended agent", "role", "memory"}}

(* Who uses a file that was never shared uses it alone.                    *)
Alone ==
  \A p, q \in Processes, f \in Files : Uses(p, f) /\ Uses(q, f) /\ p # q => f \in shared

Knows(p) ==
  process[p] # Gone =>
    /\ process[p].added \subseteq process[p].firm
    /\ \A f \in Files \ shared :
         process[p].home = f => reported[f] \cap Lasting \subseteq process[p].firm

PersistenceInv ==
  /\ PersistenceTypeOK
  /\ Alone
  /\ \A p \in Processes : Knows(p)
  /\ ReportedStays

LEMMA Survives ==
  ASSUME NEW firm \in SUBSET Facts
  PROVE  /\ Extracted(firm) = firm \cap Lasting
         /\ Restored(firm) = firm \cap Lasting
  BY DEF Extracted, Restored, Lasting

LEMMA LastingSorts ==
  ASSUME NEW x \in Facts, Sort[x] \notin {"proposal", "assignment"}
  PROVE  x \in Lasting
  BY PersistenceAssumption DEF Lasting, Sorts

LEMMA PersistenceInvInit == PersistenceInit => PersistenceInv
<1> SUFFICES ASSUME PersistenceInit
             PROVE  PersistenceInv
  OBVIOUS
<1>1. PersistenceTypeOK
  BY DEF PersistenceInit, PersistenceTypeOK
<1>2. Alone /\ \A p \in Processes : Knows(p)
  BY DEF PersistenceInit, Alone, Knows, Uses
<1>3. ReportedStays
  BY DEF PersistenceInit, ReportedStays
<1> QED BY <1>1, <1>2, <1>3 DEF PersistenceInv

(* A process p that comes to use f, and gives no other file a new user.    *)
LEMMA AloneStep ==
  ASSUME PersistenceInv, NEW p \in Processes, NEW f \in Files,
         shared' \in {shared, Sharing(p, f)},
         \A q \in Processes \ {p} : process'[q] = process[q],
         \A g \in Files : Uses(p, g)' => Uses(p, g) \/ (g = f /\ shared' = Sharing(p, f))
  PROVE  Alone'
<1> SUFFICES ASSUME NEW q \in Processes, NEW r \in Processes, NEW g \in Files,
                    Uses(q, g)', Uses(r, g)', q # r
             PROVE  g \in shared'
  BY DEF Alone
<1>1. shared \subseteq shared'
  BY DEF Sharing
<1>2. ASSUME NEW o \in Processes \ {p}, Uses(p, g)', Uses(o, g)'
      PROVE  g \in shared'
  <2>1. Uses(o, g)
    BY <1>2 DEF Uses
  <2>2. CASE Uses(p, g)
    BY <1>1, <2>1, <2>2 DEF PersistenceInv, Alone
  <2>3. CASE g = f /\ shared' = Sharing(p, f)
    BY <1>2, <2>1, <2>3 DEF Sharing
  <2> QED BY <1>2, <2>2, <2>3
<1>3. CASE q = p \/ r = p
  BY <1>2, <1>3
<1>4. CASE q # p /\ r # p
  <2>1. Uses(q, g) /\ Uses(r, g)
    BY <1>4 DEF Uses
  <2> QED BY <1>1, <2>1 DEF PersistenceInv, Alone
<1> QED BY <1>3, <1>4

(* Steps that leave the files and what was reported alone.                 *)
LEMMA QuietStep ==
  ASSUME PersistenceInv, PersistenceTypeOK', NEW p \in Processes, NEW f \in Files,
         UNCHANGED reported, shared' \in {shared, Sharing(p, f)},
         UNCHANGED file \/ (\E g \in Files : file' = [file EXCEPT ![g] = Torn]),
         \A q \in Processes \ {p} : process'[q] = process[q],
         \A g \in Files : Uses(p, g)' => Uses(p, g) \/ (g = f /\ shared' = Sharing(p, f)),
         Knows(p)'
  PROVE  PersistenceInv'
<1>1. shared \subseteq shared'
  BY DEF Sharing
<1>2. Alone'
  BY AloneStep
<1>3. ASSUME NEW q \in Processes
      PROVE  Knows(q)'
  BY <1>1 DEF PersistenceInv, Knows
<1>4. ReportedStays'
  BY <1>1 DEF PersistenceInv, PersistenceTypeOK, ReportedStays, Loadable
<1> QED BY <1>2, <1>3, <1>4 DEF PersistenceInv

LEMMA BusyProcess ==
  ASSUME PersistenceTypeOK, NEW p \in Processes, process[p] # Gone
  PROVE  process[p] \in Process
  BY DEF PersistenceTypeOK

(* A process that begins with f and what is there, or with nothing.        *)
LEMMA BeginInv ==
  ASSUME PersistenceInv, NEW p \in Processes, NEW f \in Files,
         UNCHANGED <<file, reported>>, shared' = Sharing(p, f),
         NEW new \in Process, process' = [process EXCEPT ![p] = new],
         new.path = f, new.target = f, new.added = {},
         \/ new.home = Nowhere
         \/ new.home = f /\ Loadable(f) /\ new.firm = Restored(file[f].facts)
  PROVE  PersistenceInv'
<1>1. process'[p] = new /\ \A q \in Processes \ {p} : process'[q] = process[q]
  BY DEF PersistenceInv, PersistenceTypeOK
<1>2. PersistenceTypeOK'
  BY DEF PersistenceInv, PersistenceTypeOK, Sharing
<1>3. \A g \in Files : Uses(p, g)' => g = f
  BY <1>1, PersistenceAssumption DEF Uses
<1>4. Knows(p)'
  <2>1. SUFFICES ASSUME NEW g \in Files \ shared', new.home = g
                 PROVE  reported[g] \cap Lasting \subseteq new.firm
    BY <1>1 DEF Knows
  <2>2. g = f /\ Loadable(f) /\ new.firm = Restored(file[f].facts) /\ f \notin shared
    BY <2>1, PersistenceAssumption DEF Sharing
  <2>3. file[f].facts \in SUBSET Facts
    BY <2>2 DEF PersistenceInv, PersistenceTypeOK, Loadable
  <2>4. reported[f] \cap Lasting \subseteq file[f].facts
    BY <2>2 DEF PersistenceInv, PersistenceTypeOK, ReportedStays, Lasting
  <2> QED BY <2>2, <2>3, <2>4, Survives
<1> QED BY <1>1, <1>2, <1>3, <1>4, QuietStep

(* A process that goes on with the same organisation, or with more, and    *)
(* uses no file that it did not use.                                       *)
LEMMA GoOnInv ==
  ASSUME PersistenceInv, NEW p \in Processes, NEW f \in Files,
         process[p] # Gone, UNCHANGED reported,
         UNCHANGED file \/ (\E g \in Files : file' = [file EXCEPT ![g] = Torn]),
         NEW new \in Process, process' = [process EXCEPT ![p] = new],
         new.home = process[p].home,
         process[p].firm \subseteq new.firm, new.added \subseteq new.firm,
         \/ shared' = shared /\ {new.path, new.target} \subseteq {process[p].path, process[p].target}
         \/ shared' = Sharing(p, f)
            /\ {new.path, new.target} \subseteq {process[p].path, process[p].target, f}
  PROVE  PersistenceInv'
<1>1. process'[p] = new /\ \A q \in Processes \ {p} : process'[q] = process[q]
  BY DEF PersistenceInv, PersistenceTypeOK
<1>2. PersistenceTypeOK'
  BY DEF PersistenceInv, PersistenceTypeOK, Sharing
<1>3. \A g \in Files : Uses(p, g)' => Uses(p, g) \/ (g = f /\ shared' = Sharing(p, f))
  BY <1>1 DEF Uses
<1>4. Knows(p)'
  BY <1>1 DEF PersistenceInv, Knows, Sharing
<1> QED BY <1>1, <1>2, <1>3, <1>4, QuietStep

LEMMA GoneInv ==
  ASSUME PersistenceInv, NEW p \in Processes,
         process' = [process EXCEPT ![p] = Gone], UNCHANGED <<file, reported, shared>>
  PROVE  PersistenceInv'
<1>1. process'[p] = Gone /\ \A q \in Processes \ {p} : process'[q] = process[q]
  BY DEF PersistenceInv, PersistenceTypeOK
<1>2. PersistenceTypeOK'
  BY DEF PersistenceInv, PersistenceTypeOK
<1>3. Alone'
  <2>1. \A q \in Processes, g \in Files : Uses(q, g)' => Uses(q, g)
    BY <1>1 DEF Uses
  <2> QED BY <2>1 DEF PersistenceInv, Alone
<1>4. \A q \in Processes : Knows(q)'
  BY <1>1 DEF PersistenceInv, Knows
<1>5. ReportedStays'
  BY DEF PersistenceInv, ReportedStays, Loadable
<1> QED BY <1>2, <1>3, <1>4, <1>5 DEF PersistenceInv

LEMMA AfterSaving ==
  ASSUME PersistenceTypeOK, NEW p \in Processes, process[p] # Gone
  PROVE  \/ After(p) = Gone
         \/ /\ After(p) \in Process
            /\ After(p).firm = process[p].firm
            /\ After(p).added = {}
            /\ {After(p).path, After(p).target} = {process[p].path}
            /\ \/ After(p).home = process[p].home
               \/ After(p).home = process[p].path /\ process[p].target = process[p].path
<1>1. process[p] \in Process
  BY BusyProcess
<1>2. CASE process[p].repl
  <2> DEFINE new == [process[p] EXCEPT !.at = "ready", !.target = process[p].path, !.added = {},
          !.home = IF process[p].target = process[p].path THEN process[p].path ELSE @]
  <2>1. /\ new \in Process
        /\ new.firm = process[p].firm /\ new.added = {}
        /\ new.path = process[p].path /\ new.target = process[p].path
        /\ new.home = IF process[p].target = process[p].path THEN process[p].path
                                                            ELSE process[p].home
    BY <1>1 DEF Process
  <2>2. After(p) = new
    BY <1>2 DEF After
  <2> HIDE DEF new
  <2> QED BY <2>1, <2>2
<1>3. CASE ~process[p].repl
  BY <1>3 DEF After
<1> QED BY <1>2, <1>3

(* The heart of it: a process that saves into a file that is its own saves *)
(* all that was reported of it, and what it saves elsewhere is reported    *)
(* anew.                                                                   *)
LEMMA WriteFileInv ==
  ASSUME PersistenceInv, NEW p \in Processes, WriteFile(p)
  PROVE  PersistenceInv'
<1> DEFINE f == process[p].target
           firm == process[p].firm
<1>1. process[p] \in Process /\ process[p] # Gone
  BY BusyProcess DEF WriteFile, Gone, PersistenceInv
<1>2. /\ f \in Files
      /\ firm \in SUBSET Facts
      /\ process[p].added \subseteq firm
  BY <1>1 DEF Process, PersistenceInv, Knows
<1>3. /\ process'[p] = After(p)
      /\ \A q \in Processes \ {p} : process'[q] = process[q]
      /\ \A g \in Files \ {f} : file'[g] = file[g] /\ reported'[g] = reported[g]
      /\ \/ file'[f] = [facts |-> Extracted(firm)]
         \/ f \in shared /\ file'[f] = Torn
      /\ reported'[f] = IF process[p].home = f THEN reported[f] \cup process[p].added ELSE firm
      /\ UNCHANGED shared
  <2>1. /\ process' = [process EXCEPT ![p] = After(p)]
        /\ \/ file' = [file EXCEPT ![f] = [facts |-> Extracted(firm)]]
           \/ f \in shared /\ file' = [file EXCEPT ![f] = Torn]
        /\ reported' = [reported EXCEPT ![f] =
             IF process[p].home = f THEN reported[f] \cup process[p].added ELSE firm]
        /\ UNCHANGED shared
    BY <1>2 DEF WriteFile, PersistenceInv, PersistenceTypeOK
  <2> HIDE DEF f, firm
  <2> QED BY <1>2, <2>1 DEF PersistenceInv, PersistenceTypeOK
<1>4. PersistenceTypeOK'
  <2>1. After(p) \in Process \cup {Gone}
    BY <1>1, AfterSaving DEF PersistenceInv
  <2>2. Extracted(firm) \in SUBSET Facts
    BY <1>2, Survives
  <2> QED BY <1>1, <1>2, <2>1, <2>2 DEF WriteFile, PersistenceInv, PersistenceTypeOK
<1>5. Alone'
  <2>1. \A g \in Files : Uses(p, g)' => Uses(p, g)
    BY <1>1, <1>3, AfterSaving DEF Uses, PersistenceInv
  <2> QED BY <1>2, <1>3, <2>1, AloneStep
<1>6. f \notin shared => reported'[f] \cap Lasting \subseteq firm
  BY <1>1, <1>2, <1>3 DEF PersistenceInv, Knows
<1>7. ReportedStays'
  <2>1. SUFFICES ASSUME NEW g \in Files, NEW x \in Facts, Loadable(g)', g \notin shared,
                        x \in reported'[g], Sort[x] \notin {"proposal", "assignment"}
                 PROVE  x \in file'[g].facts
    BY <1>3 DEF ReportedStays
  <2>2. x \in Lasting
    BY <2>1, LastingSorts
  <2>3. CASE g = f
    BY <1>2, <1>3, <1>6, <2>1, <2>2, <2>3, Survives
  <2>4. CASE g # f
    BY <1>3, <2>1, <2>4 DEF PersistenceInv, ReportedStays, Loadable
  <2> QED BY <2>3, <2>4
<1>8. Knows(p)'
  <2>1. SUFFICES ASSUME After(p) # Gone
                 PROVE  /\ After(p).added \subseteq After(p).firm
                        /\ \A g \in Files \ shared :
                             After(p).home = g => reported'[g] \cap Lasting \subseteq After(p).firm
    BY <1>3 DEF Knows
  <2>2. After(p).firm = firm /\ After(p).added = {}
    BY <1>1, <2>1, AfterSaving DEF PersistenceInv
  <2>3. ASSUME NEW g \in Files \ shared, After(p).home = g
        PROVE  reported'[g] \cap Lasting \subseteq firm
    <3>1. CASE g = f
      BY <1>6, <2>3, <3>1
    <3>2. CASE g # f
      <4>1. process[p].home = g
        BY <1>1, <2>1, <2>3, <3>2, AfterSaving DEF PersistenceInv
      <4> QED BY <1>1, <1>3, <2>3, <3>2, <4>1 DEF PersistenceInv, Knows
    <3> QED BY <3>1, <3>2
  <2> QED BY <2>2, <2>3
<1>9. ASSUME NEW q \in Processes \ {p}
      PROVE  Knows(q)'
  <2>1. SUFFICES ASSUME process[q] # Gone, NEW g \in Files \ shared, process[q].home = g
                 PROVE  reported'[g] \cap Lasting \subseteq process[q].firm
    BY <1>3 DEF Knows, PersistenceInv
  <2>2. g # f
    BY <1>1, <1>2, <2>1 DEF PersistenceInv, Alone, Uses
  <2> QED BY <1>3, <2>1, <2>2 DEF PersistenceInv, Knows
<1> QED BY <1>4, <1>5, <1>7, <1>8, <1>9 DEF PersistenceInv

LEMMA PersistenceInvStep ==
  ASSUME PersistenceInv, [PersistenceNext]_persistenceVars
  PROVE  PersistenceInv'
<1>1. ASSUME NEW p \in Processes, NEW f \in Files, Initialise(p, f) \/ BeginNew(p, f)
      PROVE  PersistenceInv'
  <2>1. PICK repl \in BOOLEAN :
          process' = [process EXCEPT ![p] =
            [at |-> "worked", repl |-> repl, firm |-> {}, home |-> Nowhere,
             path |-> f, target |-> f, added |-> {}]]
    BY <1>1 DEF Initialise, BeginNew
  <2>2. [at |-> "worked", repl |-> repl, firm |-> {}, home |-> Nowhere,
         path |-> f, target |-> f, added |-> {}] \in Process
    BY DEF Process
  <2> QED BY <1>1, <2>1, <2>2, BeginInv DEF Initialise, BeginNew
<1>2. ASSUME NEW p \in Processes, NEW f \in Files, NEW repl \in BOOLEAN, Begin(p, f, repl)
      PROVE  PersistenceInv'
  <2>1. Restored(file[f].facts) \in SUBSET Facts
    BY <1>2, Survives DEF Begin, Loadable, PersistenceInv, PersistenceTypeOK
  <2>2. [at |-> "ready", repl |-> repl, firm |-> Restored(file[f].facts), home |-> f,
         path |-> f, target |-> f, added |-> {}] \in Process
    BY <2>1 DEF Process
  <2> QED BY <1>2, <2>2, BeginInv DEF Begin
<1>3. ASSUME NEW p \in Processes, NEW f \in Files, Load(p, f)
      PROVE  PersistenceInv'
  <2>1. process[p] \in Process /\ process[p] # Gone
    BY <1>3, BusyProcess DEF Load, Gone, PersistenceInv
  <2>2. CASE Loadable(f)
    <3> DEFINE new == [process[p] EXCEPT !.firm = Restored(file[f].facts), !.home = f,
                                         !.path = f, !.target = f, !.added = {}]
    <3>1. Restored(file[f].facts) \in SUBSET Facts
      BY <2>2, Survives DEF Loadable, PersistenceInv, PersistenceTypeOK
    <3>2. /\ new \in Process
          /\ new.path = f /\ new.target = f /\ new.added = {} /\ new.home = f
          /\ new.firm = Restored(file[f].facts)
      BY <2>1, <3>1 DEF Process
    <3>3. process' = [process EXCEPT ![p] = new]
      BY <1>3, <2>2 DEF Load
    <3>4. UNCHANGED <<file, reported>> /\ shared' = Sharing(p, f)
      BY <1>3 DEF Load
    <3> HIDE DEF new
    <3> QED BY <2>2, <3>2, <3>3, <3>4, BeginInv
  <2>3. CASE ~Loadable(f)
    <3> DEFINE new == [process[p] EXCEPT !.path = f, !.target = f]
    <3>1. /\ new \in Process
          /\ new.path = f /\ new.target = f /\ new.added = process[p].added
          /\ new.firm = process[p].firm /\ new.home = process[p].home
      BY <2>1 DEF Process
    <3>2. process' = [process EXCEPT ![p] = new]
      BY <1>3, <2>3 DEF Load
    <3>3. new.added \subseteq new.firm
      BY <2>1, <3>1 DEF PersistenceInv, Knows
    <3>4. UNCHANGED <<file, reported>> /\ shared' = Sharing(p, f)
      BY <1>3 DEF Load
    <3>5. {new.path, new.target} \subseteq {process[p].path, process[p].target, f}
      BY <3>1
    <3>6. process[p].firm \subseteq new.firm
      BY <3>1
    <3> HIDE DEF new
    <3> QED BY <2>1, <3>1, <3>2, <3>3, <3>4, <3>5, <3>6, GoOnInv
  <2> QED BY <2>2, <2>3
<1>4. ASSUME NEW p \in Processes, NEW f \in Files, SaveAs(p, f)
      PROVE  PersistenceInv'
  <2>1. process[p] \in Process /\ process[p] # Gone
    BY <1>4, BusyProcess DEF SaveAs, Gone, PersistenceInv
  <2> DEFINE new == [process[p] EXCEPT !.at = "worked", !.target = f]
  <2>2. /\ new \in Process
        /\ new.path = process[p].path /\ new.target = f /\ new.added = process[p].added
        /\ new.firm = process[p].firm /\ new.home = process[p].home
    BY <2>1 DEF Process
  <2>3. process' = [process EXCEPT ![p] = new]
    BY <1>4 DEF SaveAs, PersistenceInv, PersistenceTypeOK
  <2>4. new.added \subseteq new.firm
    BY <2>1, <2>2 DEF PersistenceInv, Knows
  <2>5. UNCHANGED <<file, reported>> /\ shared' = Sharing(p, f)
    BY <1>4 DEF SaveAs
  <2>6. /\ {new.path, new.target} \subseteq {process[p].path, process[p].target, f}
        /\ process[p].firm \subseteq new.firm
    BY <2>2
  <2> HIDE DEF new
  <2> QED BY <2>1, <2>2, <2>3, <2>4, <2>5, <2>6, GoOnInv
<1>5. ASSUME NEW p \in Processes, NEW more \in SUBSET Facts, Work(p, more)
      PROVE  PersistenceInv'
  <2>1. process[p] \in Process /\ process[p] # Gone
    BY <1>5, BusyProcess DEF Work, Gone, PersistenceInv
  <2> DEFINE new == [process[p] EXCEPT !.at = "worked", !.firm = process[p].firm \cup more,
                                       !.added = process[p].added \cup more]
  <2>2. /\ new \in Process
        /\ new.path = process[p].path /\ new.target = process[p].target
        /\ new.added = process[p].added \cup more
        /\ new.firm = process[p].firm \cup more /\ new.home = process[p].home
    BY <2>1 DEF Process
  <2>3. process' = [process EXCEPT ![p] = new]
    BY <1>5 DEF Work, PersistenceInv, PersistenceTypeOK
  <2>4. new.added \subseteq new.firm
    BY <2>1, <2>2 DEF PersistenceInv, Knows
  <2>5. process[p].path \in Files
    BY <2>1 DEF Process
  <2>6. UNCHANGED <<file, reported, shared>>
    BY <1>5 DEF Work
  <2>7. /\ {new.path, new.target} \subseteq {process[p].path, process[p].target}
        /\ process[p].firm \subseteq new.firm
    BY <2>2
  <2> HIDE DEF new
  <2> QED BY <2>1, <2>2, <2>3, <2>4, <2>5, <2>6, <2>7, GoOnInv
<1>6. ASSUME NEW p \in Processes, OpenFile(p)
      PROVE  PersistenceInv'
  <2>1. process[p] \in Process /\ process[p] # Gone
    BY <1>6, BusyProcess DEF OpenFile, Gone, PersistenceInv
  <2> DEFINE new == [process[p] EXCEPT !.at = "writing"]
  <2>2. /\ new \in Process
        /\ new.path = process[p].path /\ new.target = process[p].target
        /\ new.added = process[p].added
        /\ new.firm = process[p].firm /\ new.home = process[p].home
    BY <2>1 DEF Process
  <2>3. process' = [process EXCEPT ![p] = new]
    BY <1>6 DEF OpenFile, PersistenceInv, PersistenceTypeOK
  <2>4. new.added \subseteq new.firm
    BY <2>1, <2>2 DEF PersistenceInv, Knows
  <2>5. process[p].target \in Files
    BY <2>1 DEF Process
  <2>6. /\ UNCHANGED <<reported, shared>>
        /\ file' = [file EXCEPT ![process[p].target] = Torn]
    BY <1>6 DEF OpenFile
  <2>7. /\ {new.path, new.target} \subseteq {process[p].path, process[p].target}
        /\ process[p].firm \subseteq new.firm
    BY <2>2
  <2> HIDE DEF new
  <2> QED BY <2>1, <2>2, <2>3, <2>4, <2>5, <2>6, <2>7, GoOnInv
<1>7. ASSUME NEW p \in Processes, Fail(p)
      PROVE  PersistenceInv'
  <2>1. process[p] \in Process /\ process[p] # Gone
    BY <1>7, BusyProcess DEF Fail, Gone, PersistenceInv
  <2> DEFINE new == [process[p] EXCEPT !.at = "ready", !.target = process[p].path]
  <2>2. CASE process' = [process EXCEPT ![p] = Gone]
    BY <1>7, <2>2, GoneInv DEF Fail
  <2>3. CASE process' = [process EXCEPT ![p] = new]
    <3>1. /\ new \in Process
          /\ new.path = process[p].path /\ new.target = process[p].path
          /\ new.added = process[p].added
          /\ new.firm = process[p].firm /\ new.home = process[p].home
      BY <2>1 DEF Process
    <3>2. new.added \subseteq new.firm
      BY <2>1, <3>1 DEF PersistenceInv, Knows
    <3>3. process[p].path \in Files
      BY <2>1 DEF Process
    <3>4. process' = [process EXCEPT ![p] = new]
      BY <2>3
    <3>5. UNCHANGED <<file, reported, shared>>
      BY <1>7 DEF Fail
    <3>6. /\ {new.path, new.target} \subseteq {process[p].path, process[p].target}
          /\ process[p].firm \subseteq new.firm
      BY <3>1
    <3> HIDE DEF new
    <3> QED BY <2>1, <3>1, <3>2, <3>3, <3>4, <3>5, <3>6, GoOnInv
  <2> QED BY <1>7, <2>2, <2>3 DEF Fail, PersistenceInv, PersistenceTypeOK
<1>8. ASSUME NEW p \in Processes, Exit(p)
      PROVE  PersistenceInv'
  BY <1>8, GoneInv DEF Exit
<1>9. CASE UNCHANGED persistenceVars
  BY <1>9 DEF persistenceVars, PersistenceInv, PersistenceTypeOK, Alone, Uses, Knows,
              ReportedStays, Loadable
<1> QED BY <1>1, <1>2, <1>3, <1>4, <1>5, <1>6, <1>7, <1>8, <1>9, WriteFileInv
        DEF PersistenceNext

(* For any files and processes, crashes and failed saves among them, a     *)
(* file that was never shared and can be loaded holds every lasting fact   *)
(* that was reported of it.                                                *)
THEOREM ReportedFactsStay == Spec => []ReportedStays
<1>1. Init => PersistenceInv
  BY PersistenceInvInit DEF Init
<1>2. PersistenceInv /\ [Next]_vars => PersistenceInv'
  BY PersistenceInvStep, Steps
<1>3. PersistenceInv => ReportedStays
  BY DEF PersistenceInv
<1> QED BY <1>1, <1>2, <1>3, PTL DEF Spec

(* The states of threads, processes, files and findings are well formed.   *)
THEOREM OperationsTypeCorrect == Spec => []OperationsTypeOK
<1>1. Init => ExecutionInv /\ PersistenceInv /\ BountyInv
  BY ExecutionInvInit, PersistenceInvInit, BountyInvInit DEF Init
<1>2. ExecutionInv /\ PersistenceInv /\ BountyInv /\ [Next]_vars
        => ExecutionInv' /\ PersistenceInv' /\ BountyInv'
  BY ExecutionInvStep, PersistenceInvStep, BountyInvStep, Steps
<1>3. ExecutionInv /\ PersistenceInv /\ BountyInv => OperationsTypeOK
  BY DEF ExecutionInv, PersistenceInv, BountyInv, OperationsTypeOK
<1> QED BY <1>1, <1>2, <1>3, PTL DEF Spec

=============================================================================
