--------------------------- MODULE AccountsProofs ---------------------------
(* Theorems about what the institutions count: the accounts of prediction  *)
(* markets, what imported reputations come to, and what the agents own     *)
(* through births and mergers.  They are for any agents, markets and       *)
(* attestations; what is added up is finite because it is taken step by    *)
(* step, from finitely many founders.                                      *)
EXTENDS Institutions, SumTheorems

LEMMA Steps ==
  ASSUME [Next]_vars
  PROVE  /\ PredictionNext \/ UNCHANGED ownPrediction
         /\ LifecycleNext \/ UNCHANGED ownLifecycle
         /\ RolesNext \/ UNCHANGED ownRoles
         /\ AmendmentsNext \/ UNCHANGED ownAmendments
         /\ FederationNext \/ UNCHANGED ownFederation
         /\ ReputationNext \/ UNCHANGED ownReputation
         /\ MemoryNext \/ UNCHANGED ownMemory
         /\ focus' = focus
         /\ focus = "prediction" => [PredictionNext]_predictionVars
         /\ focus = "roles" => [RolesNext]_rolesVars
<1>1. CASE Next
  BY <1>1 DEF Next, Still
<1>2. CASE UNCHANGED vars
  BY <1>2 DEF vars, predictionVars, rolesVars
<1> QED BY <1>1, <1>2

-----------------------------------------------------------------------------
(* The agents.                                                             *)

LEMMA MembersTypeInit == MembersInit => MembersTypeOK
  BY MembersAssumption DEF MembersInit, MembersTypeOK, AgentStatus

(* What happens to agents between two calls.                               *)
LEMMA MovesType ==
  ASSUME MembersTypeOK, NEW a \in Agents,
         AuthorityMoves(a) \/ \E s \in AgentStatus : StatusMoves(a, s)
  PROVE  MembersTypeOK'
<1>1. CASE AuthorityMoves(a)
  BY <1>1, MembersAssumption DEF AuthorityMoves, MembersTypeOK
<1>2. CASE \E s \in AgentStatus : StatusMoves(a, s)
  BY <1>2 DEF StatusMoves, MembersTypeOK
<1> QED BY <1>1, <1>2

LEMMA MovesRegister ==
  ASSUME MembersTypeOK, NEW a \in Agents,
         AuthorityMoves(a) \/ \E s \in AgentStatus : StatusMoves(a, s)
  PROVE  \A b \in Agents : Registered(b)' <=> Registered(b)
  BY DEF AuthorityMoves, StatusMoves, MembersTypeOK, Registered, AgentStatus

-----------------------------------------------------------------------------
(* Prediction: positions, prices and payouts.                              *)

(* The markets an agent holds a position in; and nobody takes infinitely   *)
(* many of them.                                                           *)
HeldBy(a) == {m \in Markets : a \in Holders(m)}

FinitelyHeld ==
  /\ \A m \in Markets : IsFiniteSet(Holders(m))
  /\ \A a \in Agents : IsFiniteSet(HeldBy(a))

LEMMA PriceBounds ==
  ASSUME PredictionTypeOK, NEW m \in Markets, IsFiniteSet(Holders(m))
  PROVE  MarketProbability(m) \in 1..99
<1> DEFINE w == [a \in Holders(m) |-> position[m][a].weight]
           v == [a \in Holders(m) |-> position[m][a].weight * position[m][a].belief]
           weights == SumFunctionOnSet(w, Holders(m))
           beliefs == SumFunctionOnSet(v, Holders(m))
<1>1. CASE Holders(m) = {}
  BY <1>1 DEF MarketProbability
<1>2. CASE Holders(m) # {}
  <2>1. PICK a \in Holders(m) : TRUE
    BY <1>2
  <2>2. \A b \in Holders(m) : position[m][b] \in Position
    BY DEF PredictionTypeOK, Holders
  <2>3. \A b \in Holders(m) :
          position[m][b].weight \in 1..10 /\ position[m][b].belief \in 1..99
    BY <2>2, PredictionAssumption DEF Position
  <2>4. \A b \in Holders(m) : w[b] \in Nat /\ w[b] >= 1 /\ v[b] \in Int
    <3>1. \A x \in 1..10, y \in 1..99 : x \in Nat /\ x >= 1 /\ x * y \in Int
      OBVIOUS
    <3> QED BY <2>3, <3>1
  <2> HIDE DEF w, v
  <2>5. beliefs \in Int
    BY <2>4, SumInt
  <2>6. weights = w[a] + SumFunctionOnSet(w, Holders(m) \ {a})
    BY <2>4, SumRemoveElement
  <2>7. SumFunctionOnSet(w, Holders(m) \ {a}) \in Nat
    <3>1. IsFiniteSet(Holders(m) \ {a})
      BY FS_RemoveElement
    <3> QED BY <2>4, <3>1, SumNat
  <2>8. weights \in Nat /\ weights > 0
    BY <2>4, <2>6, <2>7
  <2>9. MarketProbability(m) = Within(1, 99, beliefs \div weights)
    BY <1>2 DEF MarketProbability, w, v
  <2> HIDE DEF weights, beliefs
  <2> DEFINE q == beliefs \div weights
  <2>10. q \in Int
    BY <2>5, <2>8
  <2> HIDE DEF q
  <2>11. Within(1, 99, q) \in 1..99
    BY <2>10 DEF Within
  <2> QED BY <2>9, <2>11 DEF q
<1> QED BY <1>1, <1>2

LEMMA PayoutType ==
  ASSUME NEW p \in Position, NEW outcome \in BOOLEAN, NEW price \in 1..99
  PROVE  Payout(p, outcome, price) \in Nat
<1>1. p.stake \in Nat
  BY PredictionAssumption DEF Position
<1> DEFINE d == Within(5, 95, IF outcome THEN price ELSE 100 - price)
<1>2. d \in 5..95
  BY DEF Within
<1>3. Payout(p, outcome, price) = IF Correct(p, outcome) THEN (100 * p.stake) \div d ELSE 0
  BY DEF Payout
<1> HIDE DEF d
<1>4. \A x \in Nat : x \div d \in Nat
  BY <1>2
<1>5. 100 * p.stake \in Nat
  BY <1>1
<1> QED BY <1>3, <1>4, <1>5

(* Paying a position, or refunding it, changes none of its terms.          *)
LEMMA PaidPosition ==
  ASSUME NEW p \in Position, NEW v \in Nat
  PROVE  LET q == [p EXCEPT !.payout = v]
         IN  /\ q \in Position /\ q # None
             /\ q.side = p.side /\ q.stake = p.stake
             /\ q.belief = p.belief /\ q.weight = p.weight
  BY DEF Position, None

(* A step that takes no position: the holders and what they hold stay.     *)
SameTerms ==
  \A m \in Markets :
    /\ Holders(m)' = Holders(m)
    /\ \A a \in Holders(m) :
         /\ position'[m][a].side = position[m][a].side
         /\ position'[m][a].stake = position[m][a].stake
         /\ position'[m][a].belief = position[m][a].belief
         /\ position'[m][a].weight = position[m][a].weight

LEMMA SamePrice ==
  ASSUME SameTerms, NEW m \in Markets
  PROVE  MarketProbability(m)' = MarketProbability(m)
<1> DEFINE w == [a \in Holders(m) |-> position[m][a].weight]
           v == [a \in Holders(m) |-> position[m][a].weight * position[m][a].belief]
<1>1. Holders(m)' = Holders(m) /\ w' = w /\ v' = v
  BY DEF SameTerms
<1> QED BY <1>1 DEF MarketProbability

LEMMA UnpaidTerms ==
  ASSUME PredictionTypeOK, UNCHANGED position
  PROVE  position' \in [Markets -> [Agents -> Position \cup {None}]] /\ SameTerms
  BY DEF PredictionTypeOK, SameTerms, Holders

LEMMA PaidTerms ==
  ASSUME PredictionTypeOK, NEW m \in Markets, NEW v, \A a \in Holders(m) : v[a] \in Nat,
         position' = [position EXCEPT ![m] = [a \in Agents |->
           IF a \in Holders(m) THEN [position[m][a] EXCEPT !.payout = v[a]] ELSE None]]
  PROVE  position' \in [Markets -> [Agents -> Position \cup {None}]] /\ SameTerms
<1>1. ASSUME NEW a \in Holders(m)
      PROVE  /\ a \in Agents /\ position'[m][a] \in Position /\ position'[m][a] # None
             /\ position'[m][a].side = position[m][a].side
             /\ position'[m][a].stake = position[m][a].stake
             /\ position'[m][a].belief = position[m][a].belief
             /\ position'[m][a].weight = position[m][a].weight
  <2>1. a \in Agents /\ position[m][a] \in Position
    BY DEF Holders, PredictionTypeOK
  <2>2. position'[m][a] = [position[m][a] EXCEPT !.payout = v[a]]
    BY <2>1 DEF PredictionTypeOK
  <2> QED BY <2>1, <2>2, PaidPosition
<1>2. \A a \in Agents \ Holders(m) : position'[m][a] = None
  BY DEF PredictionTypeOK
<1>3. /\ DOMAIN position' = Markets
      /\ \A n \in Markets \ {m} : position'[n] = position[n]
      /\ position'[m] = [a \in Agents |-> position'[m][a]]
  BY DEF PredictionTypeOK
<1>4. position'[m] \in [Agents -> Position \cup {None}]
  BY <1>1, <1>2, <1>3
<1>5. position' \in [Markets -> [Agents -> Position \cup {None}]]
  BY <1>4 DEF PredictionTypeOK
<1>6. Holders(m)' = Holders(m)
  BY <1>1, <1>2 DEF Holders
<1>7. \A n \in Markets \ {m} : Holders(n)' = Holders(n)
  BY <1>3 DEF Holders
<1>8. ASSUME NEW n \in Markets, NEW a \in Holders(n)
      PROVE  /\ position'[n][a].side = position[n][a].side
             /\ position'[n][a].stake = position[n][a].stake
             /\ position'[n][a].belief = position[n][a].belief
             /\ position'[n][a].weight = position[n][a].weight
  <2>1. CASE n = m
    BY <1>1, <2>1
  <2>2. CASE n # m
    BY <1>3, <2>2
  <2> QED BY <2>1, <2>2
<1>9. SameTerms
  BY <1>6, <1>7, <1>8 DEF SameTerms
<1> QED BY <1>5, <1>9

LEMMA PredictTerms ==
  ASSUME PredictionTypeOK, NEW a \in Agents, NEW m \in Markets, NEW p \in Forecasts,
         Predict(a, m, p)
  PROVE  /\ p \in Position /\ p.stake \in Nat
         /\ position' \in [Markets -> [Agents -> Position \cup {None}]]
         /\ a \notin Holders(m) /\ market[m] = "open"
         /\ Holders(m)' = Holders(m) \cup {a}
         /\ \A n \in Markets \ {m} : Holders(n)' = Holders(n)
         /\ position'[m][a] = p
         /\ \A n \in Markets : \A b \in Holders(n) : position'[n][b] = position[n][b]
<1>1. p \in Position /\ p # None /\ p.stake \in Nat
  <2>1. /\ p.side \in {"yes", "no"} /\ p.stake \in Stakes
        /\ p \in Position
    BY DEF Forecasts, Position
  <2>2. p # None
    BY <2>1 DEF None
  <2> QED BY <2>1, <2>2, PredictionAssumption
<1>2. /\ position' = [position EXCEPT ![m][a] = p]
      /\ a \notin Holders(m) /\ market[m] = "open"
  BY DEF Predict, TakePosition
<1>3. position' \in [Markets -> [Agents -> Position \cup {None}]]
  BY <1>1, <1>2 DEF PredictionTypeOK
<1>4. /\ \A n \in Markets \ {m} : position'[n] = position[n]
      /\ \A b \in Agents : position'[m][b] = IF b = a THEN p ELSE position[m][b]
  BY <1>2 DEF PredictionTypeOK
<1>5. \A n \in Markets \ {m} : Holders(n)' = Holders(n)
  BY <1>4 DEF Holders
<1>6. Holders(m)' = Holders(m) \cup {a}
  BY <1>1, <1>4 DEF Holders
<1>7. \A n \in Markets : \A b \in Holders(n) : position'[n][b] = position[n][b]
  BY <1>2, <1>4 DEF Holders
<1> QED BY <1>1, <1>2, <1>3, <1>4, <1>5, <1>6, <1>7

(* What a settlement pays.                                                 *)
LEMMA ResolveTerms ==
  ASSUME PredictionTypeOK, FinitelyHeld, NEW m \in Markets, NEW outcome \in BOOLEAN,
         Resolve(m, outcome)
  PROVE  /\ MarketProbability(m) \in 1..99
         /\ \A a \in Holders(m) :
              Payout(position[m][a], outcome, MarketProbability(m)) \in Nat
         /\ position' \in [Markets -> [Agents -> Position \cup {None}]]
         /\ SameTerms
<1> DEFINE price == MarketProbability(m)
           v == [a \in Agents |-> Payout(position[m][a], outcome, price)]
<1>1. price \in 1..99
  BY PriceBounds DEF FinitelyHeld
<1> HIDE DEF price
<1>2. \A a \in Holders(m) : v[a] \in Nat /\ v[a] = Payout(position[m][a], outcome, price)
  <2>1. \A a \in Holders(m) : a \in Agents /\ position[m][a] \in Position
    BY DEF Holders, PredictionTypeOK
  <2> QED BY <1>1, <2>1, PayoutType
<1>3. position' = [position EXCEPT ![m] = [a \in Agents |->
        IF a \in Holders(m) THEN [position[m][a] EXCEPT !.payout = v[a]] ELSE None]]
  BY DEF Resolve, Settle, price
<1> HIDE DEF v
<1>4. position' \in [Markets -> [Agents -> Position \cup {None}]] /\ SameTerms
  BY <1>2, <1>3, PaidTerms
<1> QED BY <1>1, <1>2, <1>4 DEF price

LEMMA CancelTerms ==
  ASSUME PredictionTypeOK, NEW m \in Markets, CancelMarket(m)
  PROVE  position' \in [Markets -> [Agents -> Position \cup {None}]] /\ SameTerms
<1> DEFINE v == [a \in Agents |-> position[m][a].stake]
<1>1. \A a \in Holders(m) : v[a] \in Nat
  <2>1. \A a \in Holders(m) : a \in Agents /\ position[m][a] \in Position
    BY DEF Holders, PredictionTypeOK
  <2> QED BY <2>1, PredictionAssumption DEF Position
<1>2. position' = [position EXCEPT ![m] = [a \in Agents |->
        IF a \in Holders(m) THEN [position[m][a] EXCEPT !.payout = v[a]] ELSE None]]
  BY DEF CancelMarket
<1> HIDE DEF v
<1> QED BY <1>1, <1>2, PaidTerms

LEMMA SameHeld ==
  ASSUME FinitelyHeld, SameTerms
  PROVE  FinitelyHeld' /\ \A a \in Agents : HeldBy(a)' = HeldBy(a)
  BY DEF FinitelyHeld, SameTerms, HeldBy

LEMMA PredictHeld ==
  ASSUME PredictionTypeOK, FinitelyHeld,
         NEW a \in Agents, NEW m \in Markets, NEW p \in Forecasts, Predict(a, m, p)
  PROVE  /\ FinitelyHeld'
         /\ m \notin HeldBy(a)
         /\ HeldBy(a)' = HeldBy(a) \cup {m}
         /\ \A b \in Agents \ {a} : HeldBy(b)' = HeldBy(b)
<1>1. /\ a \notin Holders(m)
      /\ Holders(m)' = Holders(m) \cup {a}
      /\ \A n \in Markets \ {m} : Holders(n)' = Holders(n)
  BY PredictTerms
<1>2. /\ m \notin HeldBy(a)
      /\ HeldBy(a)' = HeldBy(a) \cup {m}
      /\ \A b \in Agents \ {a} : HeldBy(b)' = HeldBy(b)
  BY <1>1 DEF HeldBy
<1>3. IsFiniteSet(Holders(m) \cup {a}) /\ IsFiniteSet(HeldBy(a) \cup {m})
  BY FS_AddElement DEF FinitelyHeld
<1> QED BY <1>1, <1>2, <1>3 DEF FinitelyHeld

-----------------------------------------------------------------------------
(* Prediction: status and calibration.                                     *)

LEMMA WithinBounds ==
  ASSUME NEW low \in Int, NEW high \in Int, low <= high, NEW x \in Int
  PROVE  Within(low, high, x) \in low..high
BY DEF Within

LEMMA CalibratedBounds ==
  ASSUME NEW c \in Calibrations, NEW p, p.belief \in 1..99, NEW outcome \in BOOLEAN
  PROVE  Calibrated(c, Brier(p, outcome)) \in Calibrations
<1> DEFINE y == IF outcome THEN 100 - p.belief ELSE p.belief
           x == (Unit - Brier(p, outcome) + 9 * c) \div 10
<1>1. \A z \in Int : z * z \in Int
  BY SMT
<1>2. y \in Int /\ Brier(p, outcome) = y * y
  BY DEF Brier
<1> HIDE DEF y
<1>3. /\ Unit \in Int /\ c \in Int
      /\ CalibrationMin \in Int /\ 2 * Unit \in Int /\ CalibrationMin <= 2 * Unit
  BY SMT DEF Unit, CalibrationMin, Calibrations
<1>4. Brier(p, outcome) \in Int
  BY <1>1, <1>2
<1>5. x \in Int
  BY <1>3, <1>4
<1>6. Calibrated(c, Brier(p, outcome)) = Within(CalibrationMin, 2 * Unit, x)
  BY DEF Calibrated
<1> HIDE DEF x
<1>7. Within(CalibrationMin, 2 * Unit, x) \in Calibrations
  BY <1>3, <1>5, WithinBounds, Zenon DEF Calibrations
<1> QED BY <1>6, <1>7

LEMMA MarketType ==
  ASSUME PredictionTypeOK, PredictionNext
  PROVE  /\ market' \in [Markets -> MarketStatus \cup {"absent"}]
         /\ calibration' \in [Agents -> Calibrations]
<1> USE DEF PredictionTypeOK, MarketStatus
<1>1. ASSUME NEW a \in Agents, NEW m \in Markets,
             CreateMarket(a, m) \/ \E p \in Forecasts : Predict(a, m, p)
      PROVE  /\ market' \in [Markets -> MarketStatus \cup {"absent"}]
             /\ UNCHANGED calibration
  BY <1>1 DEF CreateMarket, OpenMarket, Predict
<1>2. ASSUME NEW m \in Markets, CloseMarket(m) \/ CancelMarket(m)
      PROVE  /\ market' \in [Markets -> MarketStatus \cup {"absent"}]
             /\ UNCHANGED calibration
  BY <1>2 DEF CloseMarket, CancelMarket
<1>3. ASSUME NEW late \in SUBSET Markets, CloseExpiredMarkets(late)
      PROVE  /\ market' \in [Markets -> MarketStatus \cup {"absent"}]
             /\ UNCHANGED calibration
  BY <1>3 DEF CloseExpiredMarkets
<1>4. ASSUME NEW m \in Markets, NEW outcome \in BOOLEAN, Resolve(m, outcome)
      PROVE  /\ market' \in [Markets -> MarketStatus \cup {"absent"}]
             /\ calibration' \in [Agents -> Calibrations]
  <2>1. /\ market' = [market EXCEPT ![m] = IF outcome THEN "resolved_yes" ELSE "resolved_no"]
        /\ calibration' = [a \in Agents |->
             IF a \in Holders(m)
             THEN Calibrated(calibration[a], Brier(position[m][a], outcome))
             ELSE calibration[a]]
    BY <1>4 DEF Resolve, Settle
  <2>2. ASSUME NEW a \in Holders(m)
        PROVE  Calibrated(calibration[a], Brier(position[m][a], outcome)) \in Calibrations
    <3>1. a \in Agents /\ position[m][a] \in Position
      BY <2>2 DEF Holders
    <3>2. position[m][a].belief \in 1..99
      BY <3>1, PredictionAssumption DEF Position
    <3>3. calibration[a] \in Calibrations
      BY <3>1
    <3> QED BY <3>2, <3>3, CalibratedBounds, Zenon
  <2>3. market' \in [Markets -> MarketStatus \cup {"absent"}]
    BY <2>1
  <2>4. \A a \in Agents : calibration[a] \in Calibrations
    OBVIOUS
  <2> QED BY <2>1, <2>2, <2>3, <2>4
<1>5. UNCHANGED ownPrediction => UNCHANGED <<market, calibration>>
  BY DEF ownPrediction
<1> QED BY <1>1, <1>2, <1>3, <1>4, <1>5 DEF PredictionNext

-----------------------------------------------------------------------------
(* Prediction: types.                                                      *)

LEMMA FedBackType ==
  ASSUME NEW x \in 0..100, NEW correct \in BOOLEAN, NEW c \in Calibrations
  PROVE  FedBack(x, correct, c) \in 0..100
<1> DEFINE gain == (LearningRate * (Unit + Within(0, Unit, c - Unit))) \div Unit
           y == IF correct THEN x + gain ELSE x - Decay
<1>0. c \in Int
  BY DEF Calibrations, CalibrationMin, Unit
<1>1. Unit = 10000
  BY DEF Unit
<1>2. gain \in Int
  <2> DEFINE b == Within(0, Unit, c - Unit)
  <2>1. b \in Int
    BY <1>0, <1>1, WithinBounds
  <2> HIDE DEF b
  <2>2. LearningRate * (Unit + b) \in Int
    BY <1>1, <2>1, PredictionAssumption
  <2> DEFINE z == LearningRate * (Unit + b)
  <2> HIDE DEF z
  <2>3. z \div Unit \in Int
    BY <1>1, <2>2 DEF z
  <2> QED BY <2>3 DEF z, b
<1> HIDE DEF gain
<1>3. y \in Int
  BY <1>2, PredictionAssumption
<1>4. FedBack(x, correct, c) = x \/ FedBack(x, correct, c) = Within(0, 100, y)
  BY DEF FedBack, gain
<1> HIDE DEF y
<1>5. Within(0, 100, y) \in 0..100
  BY <1>3 DEF Within
<1> QED BY <1>4, <1>5

PredictionTypes == MembersTypeOK /\ PredictionTypeOK /\ FinitelyHeld

LEMMA PredictionTypesStep ==
  ASSUME PredictionTypes, PredictionNext
  PROVE  MembersTypeOK' /\ PredictionTypeOK' /\ FinitelyHeld'
<1>0. MembersTypeOK /\ PredictionTypeOK /\ FinitelyHeld
  BY DEF PredictionTypes
<1>1. /\ market' \in [Markets -> MarketStatus \cup {"absent"}]
      /\ calibration' \in [Agents -> Calibrations]
  BY <1>0, MarketType
<1>2. ASSUME MembersTypeOK', position' \in [Markets -> [Agents -> Position \cup {None}]],
             SameTerms, UNCHANGED booked
      PROVE  MembersTypeOK' /\ PredictionTypeOK' /\ FinitelyHeld'
  BY <1>0, <1>1, <1>2, SameHeld DEF PredictionTypeOK
<1>3. ASSUME UNCHANGED <<memberVars, position, booked>>
      PROVE  MembersTypeOK' /\ PredictionTypeOK' /\ FinitelyHeld'
  BY <1>0, <1>2, <1>3, UnpaidTerms DEF MembersTypeOK, memberVars
<1>4. ASSUME NEW a \in Agents, NEW m \in Markets, CreateMarket(a, m)
      PROVE  MembersTypeOK' /\ PredictionTypeOK' /\ FinitelyHeld'
  BY <1>3, <1>4 DEF CreateMarket
<1>5. ASSUME NEW a \in Agents, NEW m \in Markets, NEW p \in Forecasts, Predict(a, m, p)
      PROVE  MembersTypeOK' /\ PredictionTypeOK' /\ FinitelyHeld'
  <2>1. p.stake \in Nat /\ position' \in [Markets -> [Agents -> Position \cup {None}]]
    BY <1>0, <1>5, PredictTerms
  <2>2. FinitelyHeld'
    BY <1>0, <1>5, PredictHeld
  <2>3. MembersTypeOK' /\ booked' \in [Agents -> Int]
    BY <1>0, <1>5, <2>1 DEF Predict, MembersTypeOK, PredictionTypeOK
  <2> QED BY <1>1, <2>1, <2>2, <2>3 DEF PredictionTypeOK
<1>6. ASSUME NEW m \in Markets, CloseMarket(m)
      PROVE  MembersTypeOK' /\ PredictionTypeOK' /\ FinitelyHeld'
  BY <1>3, <1>6 DEF CloseMarket
<1>7. ASSUME NEW m \in Markets, NEW outcome \in BOOLEAN, Resolve(m, outcome)
      PROVE  MembersTypeOK' /\ PredictionTypeOK' /\ FinitelyHeld'
  <2> DEFINE price == MarketProbability(m)
  <2>1. /\ \A a \in Holders(m) : Payout(position[m][a], outcome, price) \in Nat
        /\ position' \in [Markets -> [Agents -> Position \cup {None}]]
        /\ SameTerms
    BY <1>0, <1>7, ResolveTerms
  <2> HIDE DEF price
  <2>2. /\ credits' = [a \in Agents |->
             IF a \in Holders(m) THEN credits[a] + Payout(position[m][a], outcome, price)
                                 ELSE credits[a]]
        /\ authority' = [a \in Agents |->
             IF a \in Holders(m)
             THEN FedBack(authority[a], Correct(position[m][a], outcome), calibration'[a])
             ELSE authority[a]]
        /\ UNCHANGED <<status, roles, booked>>
    BY <1>7 DEF Resolve, price
  <2>3. credits' \in [Agents -> Int]
    BY <1>0, <2>1, <2>2 DEF MembersTypeOK
  <2>4. authority' \in [Agents -> 0..100]
    <3>1. \A a \in Agents :
            FedBack(authority[a], Correct(position[m][a], outcome), calibration'[a]) \in 0..100
      <4> TAKE a \in Agents
      <4>1. authority[a] \in 0..100 /\ calibration'[a] \in Calibrations
        BY <1>0, <1>1 DEF MembersTypeOK
      <4>2. Correct(position[m][a], outcome) \in BOOLEAN
        BY DEF Correct
      <4> QED BY <4>1, <4>2, FedBackType
    <3> QED BY <1>0, <2>2, <3>1 DEF MembersTypeOK
  <2> QED BY <1>0, <1>2, <2>1, <2>2, <2>3, <2>4 DEF MembersTypeOK
<1>8. ASSUME NEW m \in Markets, CancelMarket(m)
      PROVE  MembersTypeOK' /\ PredictionTypeOK' /\ FinitelyHeld'
  <2>1. UNCHANGED <<memberVars, booked>>
    BY <1>8 DEF CancelMarket
  <2> QED BY <1>0, <1>2, <1>8, <2>1, CancelTerms DEF MembersTypeOK, memberVars
<1>9. ASSUME NEW late \in SUBSET Markets, CloseExpiredMarkets(late)
      PROVE  MembersTypeOK' /\ PredictionTypeOK' /\ FinitelyHeld'
  BY <1>3, <1>9 DEF CloseExpiredMarkets
<1>10. ASSUME NEW a \in Agents, NEW s \in AgentStatus, StatusMoves(a, s),
              UNCHANGED ownPrediction
       PROVE  MembersTypeOK' /\ PredictionTypeOK' /\ FinitelyHeld'
  BY <1>0, <1>2, <1>10, UnpaidTerms, MovesType DEF ownPrediction
<1> QED BY <1>4, <1>5, <1>6, <1>7, <1>8, <1>9, <1>10 DEF PredictionNext

LEMMA PredictionTypesInit ==
  ASSUME MembersInit, PredictionInit
  PROVE  PredictionTypes
<1>1. PredictionTypeOK
  <2>1. Unit \in Calibrations
    BY DEF Unit, Calibrations, CalibrationMin
  <2> QED BY <2>1 DEF PredictionInit, PredictionTypeOK
<1>2. FinitelyHeld
  <2>1. /\ \A m \in Markets : Holders(m) = {}
        /\ \A a \in Agents : HeldBy(a) = {}
    BY DEF PredictionInit, Holders, HeldBy
  <2> QED BY <2>1, FS_EmptySet DEF FinitelyHeld
<1> QED BY <1>1, <1>2, MembersTypeInit DEF PredictionTypes

LEMMA PredictionTypesStutter ==
  ASSUME PredictionTypeOK, FinitelyHeld, UNCHANGED ownPrediction
  PROVE  PredictionTypeOK' /\ FinitelyHeld'
<1>1. PredictionTypeOK'
  BY DEF PredictionTypeOK, ownPrediction
<1> QED BY <1>1, UnpaidTerms, SameHeld DEF ownPrediction

-----------------------------------------------------------------------------
(* Prediction: the accounts.                                               *)

LEMMA StakeType == \A p \in Position : p.stake \in Nat
<1> TAKE p \in Position
<1>1. p.stake \in Stakes
  BY DEF Position
<1> QED BY <1>1, PredictionAssumption

(* What Won adds up.                                                       *)
WonIn(a) == {m \in Markets : a \in Holders(m) /\ Resolved(m)}

Gain(a, m) == Payout(position[m][a], market[m] = "resolved_yes", MarketProbability(m))

LEMMA SameGain ==
  ASSUME SameTerms, NEW m \in Markets, NEW a \in Holders(m), market'[m] = market[m]
  PROVE  Gain(a, m)' = Gain(a, m)
<1>1. MarketProbability(m)' = MarketProbability(m)
  BY SamePrice
<1>2. /\ position'[m][a].side = position[m][a].side
      /\ position'[m][a].stake = position[m][a].stake
  BY DEF SameTerms
<1> QED BY <1>1, <1>2 DEF Gain, Payout, Correct

LEMMA GainType ==
  ASSUME PredictionTypeOK, FinitelyHeld, NEW m \in Markets, NEW a \in Holders(m)
  PROVE  Gain(a, m) \in Nat
<1>1. position[m][a] \in Position
  BY DEF Holders, PredictionTypeOK
<1>2. MarketProbability(m) \in 1..99
  BY PriceBounds DEF FinitelyHeld
<1> QED BY <1>1, <1>2, PayoutType DEF Gain

LEMMA SumTypes ==
  ASSUME PredictionTypeOK, FinitelyHeld, NEW a \in Agents
  PROVE  Staked(a) \in Nat /\ Won(a) \in Nat /\ IsFiniteSet(WonIn(a))
<1> DEFINE f == [m \in HeldBy(a) |-> position[m][a].stake]
           g == [m \in WonIn(a) |-> Gain(a, m)]
<1>1. IsFiniteSet(HeldBy(a)) /\ IsFiniteSet(WonIn(a))
  <2>1. WonIn(a) \in SUBSET HeldBy(a)
    BY DEF WonIn, HeldBy
  <2> QED BY <2>1, FS_Subset DEF FinitelyHeld
<1>2. \A m \in HeldBy(a) : f[m] \in Nat
  <2>1. \A m \in HeldBy(a) : position[m][a] \in Position
    BY DEF HeldBy, Holders, PredictionTypeOK
  <2> QED BY <2>1, PredictionAssumption DEF Position
<1>3. \A m \in WonIn(a) : g[m] \in Nat
  BY GainType DEF WonIn
<1> HIDE DEF f, g
<1>4. SumFunctionOnSet(f, HeldBy(a)) \in Nat /\ SumFunctionOnSet(g, WonIn(a)) \in Nat
  BY <1>1, <1>2, <1>3, SumNat
<1>5. Staked(a) = SumFunctionOnSet(f, HeldBy(a)) /\ Won(a) = SumFunctionOnSet(g, WonIn(a))
  BY DEF Staked, Won, f, g, HeldBy, WonIn, Gain
<1> QED BY <1>1, <1>4, <1>5

(* Payouts written into positions change no stake.                         *)
LEMMA SameStaked ==
  ASSUME SameTerms, NEW a \in Agents
  PROVE  Staked(a)' = Staked(a)
<1> DEFINE f == [m \in HeldBy(a) |-> position[m][a].stake]
<1>1. HeldBy(a)' = HeldBy(a) /\ f' = f
  BY DEF SameTerms, HeldBy
<1>2. Staked(a) = SumFunctionOnSet(f, HeldBy(a))
  BY DEF Staked, HeldBy
<1>3. Staked(a)' = SumFunctionOnSet(f', HeldBy(a)')
  BY DEF Staked, HeldBy
<1> QED BY <1>1, <1>2, <1>3

(* A step that settles nothing pays nothing.                               *)
LEMMA SameWon ==
  ASSUME SameTerms, \A m \in Markets : Resolved(m) \/ Resolved(m)' => market'[m] = market[m],
         NEW a \in Agents
  PROVE  Won(a)' = Won(a)
<1> DEFINE g == [m \in WonIn(a) |-> Gain(a, m)]
<1>1. WonIn(a)' = WonIn(a)
  BY DEF SameTerms, WonIn, Resolved
<1>2. \A m \in WonIn(a) : Gain(a, m)' = Gain(a, m)
  BY SameGain DEF WonIn
<1>3. g' = g
  BY <1>1, <1>2
<1>4. Won(a) = SumFunctionOnSet(g, WonIn(a))
  BY DEF Won, WonIn, Gain
<1>5. Won(a)' = SumFunctionOnSet(g', WonIn(a)')
  BY DEF Won, WonIn, Gain
<1> QED BY <1>1, <1>3, <1>4, <1>5

LEMMA PredictAccounts ==
  ASSUME PredictionTypeOK, FinitelyHeld,
         NEW a \in Agents, NEW m \in Markets, NEW p \in Forecasts, Predict(a, m, p),
         NEW b \in Agents
  PROVE  /\ Staked(b)' = Staked(b) + IF b = a THEN p.stake ELSE 0
         /\ Won(b)' = Won(b)
<1>1. /\ p.stake \in Nat /\ market[m] = "open" /\ market' = market
      /\ Holders(m)' = Holders(m) \cup {a}
      /\ \A n \in Markets \ {m} : Holders(n)' = Holders(n)
      /\ position'[m][a] = p
      /\ \A n \in Markets : \A c \in Holders(n) : position'[n][c] = position[n][c]
  BY PredictTerms DEF Predict
<1>2. /\ m \notin HeldBy(a) /\ HeldBy(a)' = HeldBy(a) \cup {m}
      /\ \A c \in Agents \ {a} : HeldBy(c)' = HeldBy(c)
      /\ IsFiniteSet(HeldBy(b))
  BY PredictHeld DEF FinitelyHeld
<1>3. Staked(b)' = Staked(b) + IF b = a THEN p.stake ELSE 0
  <2> DEFINE f == [n \in HeldBy(b) |-> position[n][b].stake]
             g == [n \in HeldBy(b)' |-> position'[n][b].stake]
  <2>1. Staked(b) = SumFunctionOnSet(f, HeldBy(b)) /\ Staked(b)' = SumFunctionOnSet(g, HeldBy(b)')
    BY DEF Staked, HeldBy
  <2>2. \A n \in HeldBy(b) : n \in HeldBy(b)' /\ g[n] = f[n] /\ f[n] \in Int
    <3>1. \A n \in HeldBy(b) : position[n][b] \in Position /\ position'[n][b] = position[n][b]
      BY <1>1 DEF HeldBy, Holders, PredictionTypeOK
    <3>2. \A n \in HeldBy(b) : n \in HeldBy(b)'
      BY <1>2
    <3>3. \A n \in HeldBy(b) : position[n][b].stake \in Int
      BY <3>1, StakeType
    <3>4. \A n \in HeldBy(b) : g[n] = position'[n][b].stake
      BY <3>2
    <3> QED BY <3>1, <3>2, <3>3, <3>4
  <2>3. b = a => g[m] = p.stake
    BY <1>1, <1>2
  <2>4. Staked(b) \in Nat
    BY SumTypes
  <2> HIDE DEF f, g
  <2>5. SumFunctionOnSet(g, HeldBy(b)) = SumFunctionOnSet(f, HeldBy(b))
    BY <1>2, <2>2, SumSame
  <2>6. CASE b = a
    <3>1. \A n \in HeldBy(b) \cup {m} : g[n] \in Int
      BY <1>1, <2>2, <2>3, <2>6
    <3>2. m \notin HeldBy(b)
      BY <1>2, <2>6
    <3>3. SumFunctionOnSet(g, HeldBy(b) \cup {m}) = g[m] + SumFunctionOnSet(g, HeldBy(b))
      BY <1>2, <3>1, <3>2, SumAddElement
    <3>4. HeldBy(b)' = HeldBy(b) \cup {m}
      BY <1>2, <2>6
    <3> QED BY <1>1, <2>1, <2>3, <2>4, <2>5, <2>6, <3>3, <3>4
  <2>7. CASE b # a
    BY <1>2, <2>1, <2>4, <2>5, <2>7
  <2> QED BY <2>6, <2>7
<1>4. Won(b)' = Won(b)
  <2> DEFINE g == [n \in WonIn(b) |-> Gain(b, n)]
  <2>1. \A n \in WonIn(b) : n \in Markets /\ n # m /\ b \in Holders(n)
    BY <1>1 DEF WonIn, Resolved
  <2>2. WonIn(b)' = WonIn(b)
    <3>1. \A n \in Markets : Resolved(n)' <=> Resolved(n)
      BY <1>1 DEF Resolved
    <3>2. ~ Resolved(m)
      BY <1>1 DEF Resolved
    <3> QED BY <1>1, <3>1, <3>2 DEF WonIn
  <2>3. ASSUME NEW n \in WonIn(b)
        PROVE  Gain(b, n)' = Gain(b, n)
    <3>1. Holders(n)' = Holders(n) /\ \A c \in Holders(n) : position'[n][c] = position[n][c]
      BY <1>1, <2>1
    <3>2. MarketProbability(n)' = MarketProbability(n)
      <4> DEFINE w == [c \in Holders(n) |-> position[n][c].weight]
                 v == [c \in Holders(n) |-> position[n][c].weight * position[n][c].belief]
      <4>1. w' = w /\ v' = v
        BY <3>1
      <4> QED BY <3>1, <4>1 DEF MarketProbability
    <3> QED BY <1>1, <2>1, <3>1, <3>2 DEF Gain
  <2>4. g' = g
    BY <2>2, <2>3
  <2>5. Won(b) = SumFunctionOnSet(g, WonIn(b)) /\ Won(b)' = SumFunctionOnSet(g', WonIn(b)')
    BY DEF Won, WonIn, Gain
  <2> QED BY <2>2, <2>4, <2>5
<1> QED BY <1>3, <1>4

(* A settlement pays each holder what Won gains.                           *)
LEMMA ResolveAccounts ==
  ASSUME PredictionTypeOK, FinitelyHeld, NEW m \in Markets, NEW outcome \in BOOLEAN,
         Resolve(m, outcome), NEW b \in Agents
  PROVE  /\ Staked(b)' = Staked(b)
         /\ Won(b)' = Won(b) + IF b \in Holders(m)
              THEN Payout(position[m][b], outcome, MarketProbability(m)) ELSE 0
<1>1. /\ SameTerms
      /\ \A a \in Holders(m) : Payout(position[m][a], outcome, MarketProbability(m)) \in Nat
  BY ResolveTerms
<1>2. /\ ~Resolved(m) /\ Resolved(m)' /\ (market'[m] = "resolved_yes" <=> outcome)
      /\ \A n \in Markets \ {m} : market'[n] = market[n]
  BY DEF Resolve, Settle, Resolvable, Resolved, PredictionTypeOK
<1>3. Staked(b)' = Staked(b)
  BY <1>1, SameStaked
<1> DEFINE f == [n \in WonIn(b) |-> Gain(b, n)]
           g == [n \in WonIn(b)' |-> Gain(b, n)']
<1>4. Won(b) = SumFunctionOnSet(f, WonIn(b)) /\ Won(b)' = SumFunctionOnSet(g, WonIn(b)')
  BY DEF Won, WonIn, Gain
<1>5. /\ m \notin WonIn(b)
      /\ WonIn(b)' = IF b \in Holders(m) THEN WonIn(b) \cup {m} ELSE WonIn(b)
  <2>1. \A n \in Markets \ {m} : Resolved(n)' <=> Resolved(n)
    BY <1>2 DEF Resolved
  <2>2. \A n \in Markets : Holders(n)' = Holders(n)
    BY <1>1 DEF SameTerms
  <2>3. ASSUME NEW n
        PROVE  n \in WonIn(b)' <=> n \in WonIn(b) \/ (n = m /\ b \in Holders(m))
    BY <1>2, <2>1, <2>2 DEF WonIn
  <2> QED BY <1>2, <2>3 DEF WonIn
<1>6. \A n \in WonIn(b) : n \in WonIn(b)' /\ g[n] = f[n] /\ f[n] \in Int
  <2>1. \A n \in WonIn(b) : Gain(b, n)' = Gain(b, n) /\ Gain(b, n) \in Nat
    BY <1>1, <1>2, SameGain, GainType DEF WonIn
  <2>2. \A n \in WonIn(b) : n \in WonIn(b)'
    BY <1>5
  <2> QED BY <2>1, <2>2
<1>7. b \in Holders(m) =>
        g[m] = Payout(position[m][b], outcome, MarketProbability(m)) /\ g[m] \in Nat
  <2> SUFFICES ASSUME b \in Holders(m)
               PROVE  Gain(b, m)' = Payout(position[m][b], outcome, MarketProbability(m))
    BY <1>1, <1>5
  <2>1. MarketProbability(m)' = MarketProbability(m)
    BY <1>1, SamePrice
  <2>2. /\ position'[m][b].side = position[m][b].side
        /\ position'[m][b].stake = position[m][b].stake
    BY <1>1 DEF SameTerms
  <2> QED BY <1>2, <2>1, <2>2 DEF Gain, Payout, Correct
<1>8. IsFiniteSet(WonIn(b)) /\ Won(b) \in Nat
  BY SumTypes
<1> HIDE DEF f, g
<1>9. SumFunctionOnSet(g, WonIn(b)) = SumFunctionOnSet(f, WonIn(b))
  BY <1>6, <1>8, SumSame
<1>10. CASE b \in Holders(m)
  <2>1. \A n \in WonIn(b) \cup {m} : g[n] \in Int
    BY <1>6, <1>7, <1>10
  <2>2. SumFunctionOnSet(g, WonIn(b) \cup {m}) = g[m] + SumFunctionOnSet(g, WonIn(b))
    BY <1>5, <1>8, <2>1, SumAddElement
  <2> QED BY <1>3, <1>4, <1>5, <1>7, <1>8, <1>9, <1>10, <2>2
<1>11. CASE b \notin Holders(m)
  BY <1>3, <1>4, <1>5, <1>8, <1>9, <1>11
<1> QED BY <1>10, <1>11

(* What the accounts are to the last credit: nothing comes back from       *)
(* cancelled markets and no income is booked.                              *)
Accounted ==
  \A a \in Founders :
    /\ credits[a] = Endowment - Staked(a) + Won(a)
    /\ booked[a] = -Staked(a)

LEMMA AccountedOnce == PredictionTypes /\ Accounted => NothingTwice
<1> SUFFICES ASSUME PredictionTypes, Accounted, NEW a \in Founders
             PROVE  /\ Returned(a) \in 0..Voided(a)
                    /\ booked[a] + Staked(a) \in 0..(Won(a) + Returned(a))
  BY DEF NothingTwice
<1> DEFINE void == {m \in Markets : a \in Holders(m) /\ market[m] = "cancelled"}
           f == [m \in void |-> position[m][a].stake]
<1>1. a \in Agents /\ Endowment \in Int
  BY MembersAssumption
<1>2. Staked(a) \in Nat /\ Won(a) \in Nat
  BY <1>1, SumTypes DEF PredictionTypes
<1>3. credits[a] = Endowment - Staked(a) + Won(a) /\ booked[a] = -Staked(a)
  BY DEF Accounted
<1>4. Voided(a) \in Nat
  <2>1. IsFiniteSet(void)
    <3>1. void \in SUBSET HeldBy(a)
      BY DEF HeldBy
    <3> QED BY <1>1, <3>1, FS_Subset DEF PredictionTypes, FinitelyHeld
  <2>2. \A m \in void : f[m] \in Nat
    <3>1. \A m \in void : position[m][a] \in Position
      BY <1>1 DEF Holders, PredictionTypes, PredictionTypeOK
    <3> QED BY <3>1, StakeType
  <2>3. Voided(a) = SumFunctionOnSet(f, void)
    BY DEF Voided
  <2> HIDE DEF void, f
  <2> QED BY <2>1, <2>2, <2>3, SumNat
<1>5. Returned(a) = 0
  BY <1>1, <1>2, <1>3 DEF Returned
<1>6. booked[a] + Staked(a) = 0
  BY <1>2, <1>3
<1> QED BY <1>2, <1>4, <1>5, <1>6

(* A step that moves neither credits nor stakes, and settles nothing.      *)
LEMMA SameAccounts ==
  ASSUME Accounted, SameTerms, UNCHANGED <<credits, booked>>,
         \A m \in Markets : Resolved(m) \/ Resolved(m)' => market'[m] = market[m]
  PROVE  Accounted'
<1> SUFFICES ASSUME NEW a \in Founders
             PROVE  /\ credits'[a] = Endowment - Staked(a)' + Won(a)'
                    /\ booked'[a] = -Staked(a)'
  BY DEF Accounted
<1>1. Staked(a)' = Staked(a) /\ Won(a)' = Won(a)
  BY SameStaked, SameWon, MembersAssumption
<1>2. credits[a] = Endowment - Staked(a) + Won(a) /\ booked[a] = -Staked(a)
  BY DEF Accounted
<1> QED BY <1>1, <1>2

LEMMA AccountedInit ==
  ASSUME MembersInit, PredictionInit
  PROVE  Accounted
<1> SUFFICES ASSUME NEW a \in Founders
             PROVE  /\ credits[a] = Endowment - Staked(a) + Won(a)
                    /\ booked[a] = -Staked(a)
  BY DEF Accounted
<1>1. \A m \in Markets : a \notin Holders(m)
  BY MembersAssumption DEF PredictionInit, Holders
<1>2. Staked(a) = 0 /\ Won(a) = 0
  BY <1>1, SumEmpty DEF Staked, Won
<1>3. credits[a] = Endowment /\ booked[a] = 0
  BY MembersAssumption DEF MembersInit, PredictionInit
<1>4. \A x, y \in Int : x + y = 0 => x = -y
  OBVIOUS
<1>5. /\ booked[a] \in Int /\ Staked(a) \in Int
      /\ booked[a] + Staked(a) = 0
  BY <1>2, <1>3
<1>6. booked[a] = -Staked(a)
  BY <1>4, <1>5
<1>7. credits[a] = Endowment - Staked(a) + Won(a)
  BY <1>2, <1>3, MembersAssumption
<1> QED BY <1>6, <1>7

LEMMA AccountedStep ==
  ASSUME PredictionTypes, Accounted, [PredictionNext]_predictionVars
  PROVE  Accounted'
<1>0. MembersTypeOK /\ PredictionTypeOK /\ FinitelyHeld /\ Founders \subseteq Agents
  BY MembersAssumption DEF PredictionTypes
<1>1. ASSUME UNCHANGED <<credits, position, booked>>,
             \A m \in Markets : Resolved(m) \/ Resolved(m)' => market'[m] = market[m]
      PROVE  Accounted'
  BY <1>0, <1>1, UnpaidTerms, SameAccounts
<1>2. ASSUME NEW a \in Agents, NEW m \in Markets, CreateMarket(a, m)
      PROVE  Accounted'
  BY <1>0, <1>1, <1>2 DEF CreateMarket, OpenMarket, memberVars, Resolved, PredictionTypeOK
<1>3. ASSUME NEW a \in Agents, NEW m \in Markets, NEW p \in Forecasts, Predict(a, m, p)
      PROVE  Accounted'
  <2> SUFFICES ASSUME NEW b \in Founders
               PROVE  /\ credits'[b] = Endowment - Staked(b)' + Won(b)'
                      /\ booked'[b] = -Staked(b)'
    BY DEF Accounted
  <2>1. Staked(b)' = Staked(b) + (IF b = a THEN p.stake ELSE 0) /\ Won(b)' = Won(b)
    BY <1>0, <1>3, PredictAccounts
  <2>2. credits[b] = Endowment - Staked(b) + Won(b) /\ booked[b] = -Staked(b)
    BY DEF Accounted
  <2>3. /\ credits'[b] = credits[b] - IF b = a THEN p.stake ELSE 0
        /\ booked'[b] = booked[b] - IF b = a THEN p.stake ELSE 0
    <3>1. /\ credits' = [credits EXCEPT ![a] = @ - p.stake]
          /\ booked' = [booked EXCEPT ![a] = @ - p.stake]
      BY <1>3 DEF Predict
    <3>2. credits[b] \in Int /\ booked[b] \in Int
      BY <1>0 DEF MembersTypeOK, PredictionTypeOK
    <3> QED BY <1>0, <3>1, <3>2 DEF MembersTypeOK, PredictionTypeOK
  <2>4. Staked(b) \in Nat /\ Won(b) \in Nat
    BY <1>0, SumTypes
  <2>5. p.stake \in Nat
    BY <1>0, <1>3, PredictTerms
  <2> QED BY <2>1, <2>2, <2>3, <2>4, <2>5, MembersAssumption
<1>4. ASSUME NEW m \in Markets, CloseMarket(m)
      PROVE  Accounted'
  BY <1>0, <1>1, <1>4 DEF CloseMarket, memberVars, Resolved, PredictionTypeOK
<1>5. ASSUME NEW m \in Markets, NEW outcome \in BOOLEAN, Resolve(m, outcome)
      PROVE  Accounted'
  <2> SUFFICES ASSUME NEW b \in Founders
               PROVE  /\ credits'[b] = Endowment - Staked(b)' + Won(b)'
                      /\ booked'[b] = -Staked(b)'
    BY DEF Accounted
  <2> DEFINE gain == Payout(position[m][b], outcome, MarketProbability(m))
  <2>1. /\ Staked(b)' = Staked(b)
        /\ Won(b)' = Won(b) + IF b \in Holders(m) THEN gain ELSE 0
    BY <1>0, <1>5, ResolveAccounts
  <2>2. credits[b] = Endowment - Staked(b) + Won(b) /\ booked[b] = -Staked(b)
    BY DEF Accounted
  <2>3. /\ credits'[b] = IF b \in Holders(m) THEN credits[b] + gain ELSE credits[b]
        /\ booked' = booked
    BY <1>0, <1>5 DEF Resolve
  <2>4. Staked(b) \in Nat /\ Won(b) \in Nat
    BY <1>0, SumTypes
  <2>5. b \in Holders(m) => gain \in Nat
    BY <1>0, <1>5, ResolveTerms
  <2> HIDE DEF gain
  <2> QED BY <2>1, <2>2, <2>3, <2>4, <2>5, MembersAssumption
<1>6. ASSUME NEW m \in Markets, CancelMarket(m)
      PROVE  Accounted'
  <2>1. UNCHANGED <<credits, booked>>
    BY <1>6 DEF CancelMarket, memberVars
  <2>2. \A n \in Markets : Resolved(n) \/ Resolved(n)' => market'[n] = market[n]
    BY <1>0, <1>6 DEF CancelMarket, Resolved, PredictionTypeOK
  <2> QED BY <1>0, <1>6, <2>1, <2>2, CancelTerms, SameAccounts
<1>7. ASSUME NEW late \in SUBSET Markets, CloseExpiredMarkets(late)
      PROVE  Accounted'
  BY <1>0, <1>1, <1>7 DEF CloseExpiredMarkets, memberVars, Resolved, PredictionTypeOK
<1>8. ASSUME NEW a \in Agents, NEW s \in AgentStatus, StatusMoves(a, s),
             UNCHANGED ownPrediction
      PROVE  Accounted'
  BY <1>0, <1>1, <1>8 DEF StatusMoves, ownPrediction
<1>9. CASE UNCHANGED predictionVars
  BY <1>0, <1>1, <1>9 DEF predictionVars, ownPrediction, memberVars
<1> QED BY <1>2, <1>3, <1>4, <1>5, <1>6, <1>7, <1>8, <1>9 DEF PredictionNext

(* For any founders, markets and stakes, and whatever is closed, cancelled *)
(* or recorded as a refund in between: no stake is charged twice, nothing  *)
(* is paid twice, and the ledger books no income that there was not.       *)
THEOREM StakesAreAccounted == Spec => []StakesAccounted
<1> DEFINE Inv == focus = "prediction" => PredictionTypes /\ Accounted
<1>1. Init => Inv
  <2>1. PredictionInit /\ MembersInit => PredictionTypes
    BY PredictionTypesInit
  <2> QED BY <2>1, AccountedInit DEF Init
<1>2. Inv /\ [Next]_vars => Inv'
  <2> SUFFICES ASSUME PredictionTypes, Accounted, [PredictionNext]_predictionVars
               PROVE  PredictionTypes' /\ Accounted'
    BY Steps
  <2>1. MembersTypeOK' /\ PredictionTypeOK' /\ FinitelyHeld'
    <3>1. CASE PredictionNext
      BY <3>1, PredictionTypesStep
    <3>2. CASE UNCHANGED predictionVars
      <4>1. MembersTypeOK'
        BY <3>2 DEF PredictionTypes, MembersTypeOK, predictionVars, memberVars
      <4> QED BY <3>2, <4>1, PredictionTypesStutter DEF PredictionTypes, predictionVars
    <3> QED BY <3>1, <3>2
  <2>2. PredictionTypes'
    BY <2>1 DEF PredictionTypes
  <2> QED BY <2>2, AccountedStep
<1>3. Inv => StakesAccounted
  BY AccountedOnce DEF StakesAccounted
<1> HIDE DEF Inv
<1> QED BY <1>1, <1>2, <1>3, PTL DEF Spec

-----------------------------------------------------------------------------
(* Reputation: what the imports of an agent count for together.            *)

Imported == {i \in Attestations : imports[i] # NotImported}

(* What one import counts for, times DecaySteps.                           *)
Counts(i) == imports[i].effective * imports[i].weight

ReputationInv == ReputationTypeOK /\ IsFiniteSet(Imported) /\ ImportCap

LEMMA ImportedFinite ==
  ASSUME ReputationTypeOK, IsFiniteSet(Imported), NEW a \in Agents
  PROVE  /\ IsFiniteSet(ImportsFor(a))
         /\ \A i \in ImportsFor(a) :
              /\ imports[i] \in Import
              /\ imports[i].effective \in Nat /\ imports[i].weight \in 0..DecaySteps
              /\ Counts(i) \in Nat
         /\ ImportedAuthority(a) = SumFunctionOnSet([i \in ImportsFor(a) |-> Counts(i)], ImportsFor(a))
         /\ ImportedAuthority(a) \in Nat
<1> DEFINE S == ImportsFor(a)
           f == [i \in S |-> Counts(i)]
<1>1. IsFiniteSet(S)
  <2>1. S \in SUBSET Imported
    BY DEF ImportsFor, Imported
  <2> QED BY <2>1, FS_Subset
<1>2. \A i \in S : imports[i] \in Import
  BY DEF ReputationTypeOK, ImportsFor
<1>3. \A i \in S : imports[i].effective \in Nat /\ imports[i].weight \in 0..DecaySteps
  BY <1>2 DEF Import
<1>4. \A i \in S : Counts(i) \in Nat
  <2>1. \A x \in Nat, y \in 0..DecaySteps : x * y \in Nat
    BY ReputationAssumption
  <2> QED BY <1>3, <2>1 DEF Counts
<1>5. ImportedAuthority(a) = SumFunctionOnSet(f, S)
  BY DEF ImportedAuthority, Counts
<1>6. \A i \in S : f[i] \in Nat
  BY <1>4
<1> HIDE DEF f
<1>7. SumFunctionOnSet(f, S) \in Nat
  BY <1>1, <1>6, SumNat
<1> QED BY <1>1, <1>2, <1>3, <1>4, <1>5, <1>7 DEF f

LEMMA ReputationInvInit == ReputationInit => ReputationInv
<1> SUFFICES ASSUME ReputationInit PROVE ReputationInv
  OBVIOUS
<1>1. ReputationTypeOK
  BY DEF ReputationInit, ReputationTypeOK
<1>2. Imported = {} /\ \A a \in Agents : ImportsFor(a) = {}
  BY DEF ReputationInit, Imported, ImportsFor
<1>3. ASSUME NEW a \in Agents
      PROVE  ImportedAuthority(a) <= Boost * DecaySteps
  <2>1. ImportedAuthority(a) = 0
    BY <1>2, SumEmpty DEF ImportedAuthority
  <2> QED BY <2>1, ReputationAssumption
<1> QED BY <1>1, <1>2, <1>3, FS_EmptySet DEF ReputationInv, ImportCap

LEMMA SameImports ==
  ASSUME ReputationInv, UNCHANGED imports,
         issued' \in [Attestations -> {"absent", "valid", "revoked"}]
  PROVE  ReputationInv'
<1>1. ASSUME NEW a \in Agents
      PROVE  ImportedAuthority(a)' = ImportedAuthority(a)
  <2> DEFINE f == [i \in ImportsFor(a) |-> imports[i].effective * imports[i].weight]
  <2>1. ImportsFor(a)' = ImportsFor(a) /\ f' = f
    BY DEF ImportsFor
  <2> QED BY <2>1 DEF ImportedAuthority
<1> QED BY <1>1 DEF ReputationInv, ReputationTypeOK, ImportCap, Imported

(* An import that its agent's cap leaves room for.                         *)
LEMMA EffectiveFits ==
  ASSUME ReputationInv, NEW a \in Agents, NEW claim \in Attested, NEW t \in Trusts,
         NEW discount \in {Discount(t), 0, 100}
  PROVE  /\ Effective(a, claim, discount) \in Nat
         /\ Effective(a, claim, discount) * DecaySteps + ImportedAuthority(a)
              <= Boost * DecaySteps
<1> DEFINE sum == ImportedAuthority(a)
           raw == (claim * Clamped(discount)) \div 100
           left == Boost * DecaySteps - sum
<1>1. claim \in 0..100 /\ t \in 0..100 /\ Boost \in Nat /\ DecaySteps \in Nat /\ DecaySteps > 0
  BY ReputationAssumption
<1>2. sum \in Nat /\ sum <= Boost * DecaySteps
  BY ImportedFinite DEF ReputationInv, ImportCap
<1>3. raw \in Nat
  <2>1. discount \in Int
    BY <1>1 DEF Discount
  <2>2. Clamped(discount) \in 10..70
    BY <2>1 DEF Clamped
  <2>3. \A x \in 0..100, y \in 10..70 : x * y \in Nat
    OBVIOUS
  <2>4. \A x \in Nat : x \div 100 \in Nat
    OBVIOUS
  <2> QED BY <1>1, <2>2, <2>3, <2>4
<1>4. Boost * DecaySteps \in Nat
  BY <1>1
<1>5. Effective(a, claim, discount) =
        IF raw * DecaySteps <= left THEN raw ELSE IF left > 0 THEN left \div DecaySteps ELSE 0
  BY DEF Effective
<1> HIDE DEF raw, sum
<1>6. left \in Nat
  BY <1>2, <1>4
<1>7. \A l \in Nat, d \in Nat \ {0} : l \div d \in Nat /\ (l \div d) * d <= l
  BY SMTT(60)
<1>8. left \div DecaySteps \in Nat /\ (left \div DecaySteps) * DecaySteps <= left
  <2> HIDE DEF left
  <2> QED BY <1>1, <1>6, <1>7
<1> DEFINE e == Effective(a, claim, discount)
<1>9. e \in Nat /\ e * DecaySteps <= left
  <2> HIDE DEF left
  <2>1. \A d \in Nat : 0 * d = 0
    OBVIOUS
  <2> QED BY <1>1, <1>3, <1>5, <1>6, <1>8, <2>1
<1>10. e * DecaySteps \in Nat
  <2> HIDE DEF left, e
  <2> QED BY <1>1, <1>9
<1> HIDE DEF e
<1> DEFINE x == e * DecaySteps
           y == Boost * DecaySteps
<1> HIDE DEF x, y
<1>11. x \in Nat /\ y \in Nat /\ sum \in Nat /\ x <= y - sum
  BY <1>2, <1>4, <1>9, <1>10 DEF x, y
<1>12. x + sum <= y
  BY <1>11
<1> QED BY <1>9, <1>12 DEF x, y, e, sum

LEMMA ImportInv ==
  ASSUME ReputationInv, NEW a \in Agents, NEW i \in Attestations, NEW claim \in Attested,
         NEW t \in Trusts, NEW discount \in {Discount(t), 0, 100},
         ImportReputation(a, i, claim, t, discount)
  PROVE  ReputationInv'
<1> DEFINE e == Effective(a, claim, discount)
           new == [agent |-> a, effective |-> e, weight |-> DecaySteps]
<1>1. e \in Nat /\ e * DecaySteps + ImportedAuthority(a) <= Boost * DecaySteps
  BY EffectiveFits
<1>2. /\ imports' = [imports EXCEPT ![i] = new] /\ issued' = issued
      /\ imports[i] = NotImported
  BY DEF ImportReputation
<1> HIDE DEF e
<1>3. DecaySteps \in Nat
  BY ReputationAssumption
<1>4. new \in Import
  BY <1>1, <1>3 DEF Import
<1>5. /\ new.agent = a /\ new.effective = e /\ new.weight = DecaySteps
      /\ new # NotImported
  <2>1. new.weight = DecaySteps /\ "weight" \in DOMAIN new /\ "weight" \notin DOMAIN NotImported
    BY DEF NotImported
  <2> QED BY <2>1
<1> HIDE DEF new
<1>6. ReputationTypeOK'
  BY <1>2, <1>4 DEF ReputationInv, ReputationTypeOK
<1>7. /\ imports'[i] = new
      /\ \A j \in Attestations \ {i} : imports'[j] = imports[j]
  BY <1>2 DEF ReputationInv, ReputationTypeOK
<1>8. IsFiniteSet(Imported')
  <2>1. Imported' = Imported \cup {i}
    BY <1>5, <1>7 DEF Imported
  <2> QED BY <2>1, FS_AddElement DEF ReputationInv
<1>9. ASSUME NEW b \in Agents
      PROVE  ImportedAuthority(b)' <= Boost * DecaySteps
  <2> DEFINE S == ImportsFor(b)
             f == [j \in S |-> Counts(j)]
             g == [j \in S' |-> Counts(j)']
  <2>1. /\ IsFiniteSet(S)
        /\ \A j \in S : Counts(j) \in Nat
        /\ ImportedAuthority(b) = SumFunctionOnSet(f, S)
        /\ ImportedAuthority(b) \in Nat
    BY ImportedFinite DEF ReputationInv
  <2>2. ImportedAuthority(b)' = SumFunctionOnSet(g, S')
    BY DEF ImportedAuthority, Counts
  <2>3. i \notin S /\ S' = IF b = a THEN S \cup {i} ELSE S
    BY <1>2, <1>5, <1>7 DEF ImportsFor
  <2>4. \A j \in S : j \in S' /\ g[j] = f[j] /\ f[j] \in Nat
    <3>1. \A j \in S : j \in S' /\ j \in Attestations \ {i}
      BY <2>3 DEF ImportsFor
    <3>2. \A j \in S : Counts(j)' = Counts(j)
      BY <1>7, <3>1 DEF Counts
    <3> QED BY <2>1, <3>1, <3>2
  <2>5. b = a => g[i] = e * DecaySteps /\ g[i] \in Nat
    <3>1. Counts(i)' = e * DecaySteps
      BY <1>5, <1>7 DEF Counts
    <3>2. e * DecaySteps \in Nat
      BY <1>1, <1>3
    <3> QED BY <2>3, <3>1, <3>2
  <2>6. ImportedAuthority(b) <= Boost * DecaySteps
    BY DEF ReputationInv, ImportCap
  <2> HIDE DEF S, f, g
  <2>7. SumFunctionOnSet(g, S) = SumFunctionOnSet(f, S)
    BY <2>1, <2>4, SumSame
  <2>8. CASE b = a
    <3>1. \A j \in S \cup {i} : g[j] \in Int
      BY <2>4, <2>5, <2>8
    <3>2. SumFunctionOnSet(g, S \cup {i}) = g[i] + SumFunctionOnSet(g, S)
      BY <2>1, <2>3, <3>1, SumAddElement
    <3>3. ImportedAuthority(b)' = e * DecaySteps + ImportedAuthority(a)
      BY <2>1, <2>2, <2>3, <2>5, <2>7, <2>8, <3>2
    <3> QED BY <1>1, <3>3
  <2>9. CASE b # a
    BY <2>1, <2>2, <2>3, <2>6, <2>7, <2>9
  <2> QED BY <2>8, <2>9
<1> QED BY <1>6, <1>8, <1>9 DEF ReputationInv, ImportCap

LEMMA DecayInv ==
  ASSUME ReputationInv, DecayImports
  PROVE  ReputationInv'
<1>1. ReputationTypeOK /\ IsFiniteSet(Imported) /\ DecaySteps \in Nat
  BY ReputationAssumption DEF ReputationInv
<1>2. ASSUME NEW i \in Attestations, imports[i] # NotImported
      PROVE  /\ imports'[i] \in Import /\ imports'[i] # NotImported
             /\ imports'[i].agent = imports[i].agent
             /\ imports'[i].effective = imports[i].effective
             /\ imports'[i].weight <= imports[i].weight
  <2>1. imports[i] \in Import
    BY <1>1, <1>2 DEF ReputationTypeOK
  <2>2. /\ imports'[i] = IF imports[i].weight > 0
                         THEN [imports[i] EXCEPT !.weight = @ - 1] ELSE imports[i]
    BY <1>2 DEF DecayImports
  <2>3. imports[i].weight \in 0..DecaySteps
    BY <2>1 DEF Import
  <2>4. CASE imports[i].weight > 0
    <3> DEFINE w == imports[i].weight - 1
    <3>1. w \in 0..DecaySteps /\ w <= imports[i].weight
      BY <1>1, <2>3, <2>4
    <3>2. imports'[i] = [imports[i] EXCEPT !.weight = w]
      BY <2>2, <2>4
    <3> HIDE DEF w
    <3>3. /\ imports'[i] \in Import /\ imports'[i].agent = imports[i].agent
          /\ imports'[i].effective = imports[i].effective /\ imports'[i].weight = w
      BY <2>1, <3>1, <3>2 DEF Import
    <3>4. \A x \in Import : x # NotImported
      BY DEF Import, NotImported
    <3> QED BY <3>1, <3>3, <3>4
  <2>5. CASE ~ imports[i].weight > 0
    BY <1>1, <1>2, <2>1, <2>2, <2>3, <2>5
  <2> QED BY <2>4, <2>5
<1>3. \A i \in Attestations : imports[i] = NotImported => imports'[i] = NotImported
  BY DEF DecayImports
<1>4. ReputationTypeOK'
  <2>1. imports' = [i \in Attestations |-> imports'[i]]
    BY DEF DecayImports
  <2> QED BY <1>1, <1>2, <1>3, <2>1 DEF ReputationTypeOK, DecayImports
<1>5. Imported' = Imported
  BY <1>2, <1>3 DEF Imported
<1>6. ASSUME NEW a \in Agents
      PROVE  ImportedAuthority(a)' <= Boost * DecaySteps
  <2> DEFINE S == ImportsFor(a)
             f == [i \in S |-> Counts(i)]
             g == [i \in S' |-> Counts(i)']
  <2>1. /\ IsFiniteSet(S)
        /\ \A i \in S :
             /\ imports[i].effective \in Nat /\ imports[i].weight \in 0..DecaySteps
             /\ Counts(i) \in Nat
        /\ ImportedAuthority(a) = SumFunctionOnSet(f, S)
        /\ ImportedAuthority(a) \in Nat
    BY <1>1, ImportedFinite
  <2>2. S' = S
    BY <1>2, <1>3 DEF ImportsFor
  <2>3. ImportedAuthority(a)' = SumFunctionOnSet(g, S')
    BY DEF ImportedAuthority, Counts
  <2>4. \A i \in S : Counts(i)' <= Counts(i) /\ Counts(i)' \in Nat
    <3>1. \A i \in S : /\ imports'[i].effective = imports[i].effective
                       /\ imports'[i].weight <= imports[i].weight
                       /\ imports'[i] \in Import
      BY <1>2 DEF ImportsFor
    <3>2. \A x \in Nat, v, w \in 0..DecaySteps :
            x * v \in Nat /\ (v <= w => x * v <= x * w)
      BY <1>1
    <3>3. \A i \in S : imports'[i].weight \in 0..DecaySteps
      BY <3>1 DEF Import
    <3> QED BY <2>1, <3>1, <3>2, <3>3 DEF Counts
  <2>5. \A i \in S : f[i] \in Int /\ g[i] \in Int /\ g[i] <= f[i]
    BY <2>1, <2>2, <2>4
  <2>6. ImportedAuthority(a) <= Boost * DecaySteps
    BY DEF ReputationInv, ImportCap
  <2> HIDE DEF S, f, g
  <2>7. SumFunctionOnSet(g, S) <= SumFunctionOnSet(f, S)
    BY <2>1, <2>5, SumMonotone
  <2>8. Boost * DecaySteps \in Nat /\ SumFunctionOnSet(g, S) \in Int
    BY <2>1, <2>5, SumInt, ReputationAssumption
  <2> QED BY <2>1, <2>2, <2>3, <2>6, <2>7, <2>8
<1> QED BY <1>1, <1>4, <1>5, <1>6 DEF ReputationInv, ImportCap

LEMMA ReputationInvStep ==
  ASSUME ReputationInv, ReputationNext \/ UNCHANGED ownReputation
  PROVE  ReputationInv'
<1>1. ASSUME NEW i \in Attestations, RevokeAttestation(i) \/ \E a \in Agents : IssueReputation(a, i)
      PROVE  ReputationInv'
  BY <1>1, SameImports DEF RevokeAttestation, IssueReputation, ReputationInv, ReputationTypeOK
<1>2. CASE UNCHANGED ownReputation
  BY <1>2, SameImports DEF ownReputation, ReputationInv, ReputationTypeOK
<1> QED BY <1>1, <1>2, ImportInv, DecayInv DEF ReputationNext

(* For any agents, attestations and trust: however imports and decays      *)
(* follow each other, an agent's imports count for no more than the boost. *)
THEOREM ImportsAreCapped == Spec => []ImportCap
<1>1. Init => ReputationInv
  BY ReputationInvInit DEF Init
<1>2. ReputationInv /\ [Next]_vars => ReputationInv'
  BY ReputationInvStep, Steps
<1>3. ReputationInv => ImportCap
  BY DEF ReputationInv
<1> QED BY <1>1, <1>2, <1>3, PTL DEF Spec

-----------------------------------------------------------------------------
(* Lifecycle: shares and means.                                            *)

LEMMA QuotientBound ==
  ASSUME NEW n \in Nat, NEW t \in Nat \ {0}, NEW y \in Nat, n <= t * y
  PROVE  n \div t \in Nat /\ n \div t <= y
<1> DEFINE q == n \div t
<1>1. q \in Nat /\ t * q <= n
  BY SMTT(60)
<1> HIDE DEF q
<1>2. t * q \in Nat /\ t * y \in Nat /\ t * (y + 1) \in Nat
  BY <1>1
<1>3. q >= y + 1 => t * q >= t * (y + 1)
  BY <1>1
<1>4. t * (y + 1) = t * y + t
  BY <1>1
<1>5. t * q <= t * y
  BY <1>1, <1>2
<1>6. ~ q >= y + 1
  <2> DEFINE u == t * q
             v == t * y
             w == t * (y + 1)
  <2> HIDE DEF u, v, w
  <2>1. u \in Nat /\ v \in Nat /\ w \in Nat /\ u <= v /\ w = v + t
    BY <1>2, <1>4, <1>5 DEF u, v, w
  <2>2. q >= y + 1 => u >= w
    BY <1>3 DEF u, w
  <2> QED BY <2>1, <2>2
<1> QED BY <1>1, <1>6 DEF q

LEMMA PartBounds ==
  ASSUME NEW percent \in 0..100, NEW x \in Nat
  PROVE  Part(percent, x) \in Nat /\ Part(percent, x) <= x
<1>1. percent * x \in Nat /\ percent * x <= 100 * x
  BY SMTT(60)
<1> DEFINE n == percent * x
<1>2. n \in Nat /\ n <= 100 * x
  BY <1>1
<1> HIDE DEF n
<1>3. n \div 100 \in Nat /\ n \div 100 <= x
  BY <1>2
<1> QED BY <1>3 DEF Part, n

LEMMA PartType ==
  ASSUME NEW percent \in 0..100, NEW x \in Int
  PROVE  Part(percent, x) \in Int
<1>1. percent * x \in Int
  OBVIOUS
<1>2. \A n \in Int : n \div 100 \in Int
  OBVIOUS
<1> QED BY <1>1, <1>2 DEF Part

LEMMA MeanBound ==
  ASSUME NEW r \in Nat, NEW s \in Nat, r + s > 0, NEW x \in Nat, NEW y \in Nat, x <= y
  PROVE  /\ (r * x + s * y) \div (r + s) \in Nat /\ (r * x + s * y) \div (r + s) <= y
         /\ (s * y + r * x) \div (s + r) \in Nat /\ (s * y + r * x) \div (s + r) <= y
<1> DEFINE n == r * x + s * y
           t == r + s
<1>1. r * x \in Nat /\ r * x <= r * y /\ r * y \in Nat /\ s * y \in Nat
  BY SMTT(60)
<1>2. t * y = r * y + s * y
  BY SMTT(60)
<1>3. n \in Nat /\ n <= t * y /\ t \in Nat \ {0}
  <2> DEFINE rx == r * x
             ry == r * y
             sy == s * y
  <2> HIDE DEF rx, ry, sy
  <2>1. rx + sy \in Nat /\ rx + sy <= ry + sy
    BY <1>1 DEF rx, ry, sy
  <2> QED BY <1>2, <2>1 DEF rx, ry, sy
<1>4. s * y + r * x = n /\ s + r = t
  BY <1>1
<1> HIDE DEF n, t
<1>5. n \div t \in Nat /\ n \div t <= y
  BY <1>3, QuotientBound
<1> QED BY <1>4, <1>5 DEF n, t

LifecycleTypes ==
  /\ MembersTypeOK
  /\ LifecycleTypeOK

LEMMA MergedBounds ==
  ASSUME LifecycleTypes, NEW a \in Agents, NEW b \in Agents
  PROVE  /\ MergedAuthority(a, b) \in 0..100
         /\ \E p \in {a, b} : MergedAuthority(a, b) <= authority[p]
<1> DEFINE r == Rate(a, b)
           s == Rate(b, a)
           x == authority[a]
           y == authority[b]
<1>1. x \in 0..100 /\ y \in 0..100
  BY DEF LifecycleTypes, MembersTypeOK
<1>2. r \in Nat /\ s \in Nat
  <2>1. \A c \in Agents : actions[c] \in Nat /\ successes[c] \in Nat
    BY DEF LifecycleTypes, LifecycleTypeOK
  <2>2. \A i, j \in Nat : i * j \in Nat
    OBVIOUS
  <2> QED BY <2>1, <2>2 DEF Rate
<1>3. MergedAuthority(a, b) =
        IF r + s > 0 THEN (r * x + s * y) \div (r + s) ELSE (x + y) \div 2
  BY DEF MergedAuthority
<1> HIDE DEF r, s, x, y
<1> DEFINE m == MergedAuthority(a, b)
<1> SUFFICES m \in Nat /\ (m <= x \/ m <= y)
  <2>1. ASSUME m \in Nat /\ (m <= x \/ m <= y)
        PROVE  m \in 0..100
    <3> HIDE DEF m
    <3> QED BY <1>1, <2>1
  <2> QED BY <2>1 DEF x, y
<1>4. CASE r + s > 0
  <2>1. CASE x <= y
    <3>1. (r * x + s * y) \div (r + s) \in Nat /\ (r * x + s * y) \div (r + s) <= y
      <4>1. x \in Nat /\ y \in Nat
        BY <1>1
      <4> QED BY <1>2, <1>4, <2>1, <4>1, MeanBound
    <3> QED BY <1>3, <1>4, <3>1
  <2>2. CASE y <= x
    <3>1. (r * x + s * y) \div (r + s) \in Nat /\ (r * x + s * y) \div (r + s) <= x
      <4>1. s + r > 0 /\ x \in Nat /\ y \in Nat
        BY <1>1, <1>2, <1>4
      <4> QED BY <1>2, <2>2, <4>1, MeanBound
    <3> QED BY <1>3, <1>4, <3>1
  <2> QED BY <1>1, <2>1, <2>2
<1>5. CASE ~ r + s > 0
  <2>1. (x + y) \div 2 \in Nat /\ ((x + y) \div 2 <= x \/ (x + y) \div 2 <= y)
    BY <1>1
  <2> QED BY <1>3, <1>5, <2>1
<1> QED BY <1>4, <1>5

(* What newcomers are.                                                     *)
Newcomer == [authority : 0..100, credits : Int, roles : SUBSET RoleNames,
             actions : Nat, successes : Nat]

LEMMA RestructureType ==
  ASSUME LifecycleTypes, NEW new \in SUBSET Agents, NEW children \in [new -> Newcomer],
         NEW gone \in SUBSET Agents, NEW spent \in [Agents -> Int],
         Restructure(children, gone, spent)
  PROVE  LifecycleTypes'
<1>1. DOMAIN children = new
  OBVIOUS
<1>2. \A c \in new : /\ children[c].authority \in 0..100 /\ children[c].credits \in Int
                     /\ children[c].roles \in SUBSET RoleNames
                     /\ children[c].actions \in Nat /\ children[c].successes \in Nat
  BY DEF Newcomer
<1>3. authority' \in [Agents -> 0..100]
  BY <1>1, <1>2 DEF Restructure, LifecycleTypes, MembersTypeOK
<1>4. status' \in [Agents -> AgentStatus \cup {"absent"}]
  BY <1>1, <1>2 DEF Restructure, LifecycleTypes, MembersTypeOK, AgentStatus
<1>5. credits' \in [Agents -> Int]
  <2>1. \A a \in Agents : credits[a] - spent[a] \in Int
    BY DEF LifecycleTypes, MembersTypeOK
  <2> QED BY <1>1, <1>2, <2>1 DEF Restructure
<1>6. roles' \in [Agents -> SUBSET RoleNames]
  BY <1>1, <1>2 DEF Restructure, LifecycleTypes, MembersTypeOK
<1>7. actions' \in [Agents -> Nat] /\ successes' \in [Agents -> Nat]
  BY <1>1, <1>2 DEF Restructure, LifecycleTypes, LifecycleTypeOK
<1> QED BY <1>3, <1>4, <1>5, <1>6, <1>7 DEF LifecycleTypes, MembersTypeOK, LifecycleTypeOK

LEMMA AgentTypes ==
  ASSUME LifecycleTypes, NEW a \in Agents
  PROVE  /\ authority[a] \in 0..100 /\ authority[a] \in Nat
         /\ credits[a] \in Int /\ roles[a] \in SUBSET RoleNames
         /\ actions[a] \in Nat /\ successes[a] \in Nat
<1>1. authority[a] \in 0..100
  BY DEF LifecycleTypes, MembersTypeOK
<1> QED BY <1>1 DEF LifecycleTypes, MembersTypeOK, LifecycleTypeOK

LEMMA SpawnType ==
  ASSUME LifecycleTypes, NEW a \in Agents, NEW c \in Agents, NEW names \in SUBSET RoleNames,
         Spawn(a, c, names)
  PROVE  LifecycleTypes'
<1> DEFINE gift == Part(CreditShare, credits[a])
           share == Part(SpawnShare, authority[a])
           children == [d \in {c} |-> [authority |-> share, credits |-> gift, roles |-> names,
                                       actions |-> 0, successes |-> 0]]
           spent == Spent(a, gift)
<1>1. gift \in Int
  BY AgentTypes, PartType, LifecycleAssumption
<1>2. share \in 0..100
  <2>1. share \in Nat /\ share <= authority[a]
    BY AgentTypes, PartBounds, LifecycleAssumption
  <2> HIDE DEF share
  <2> QED BY <2>1, AgentTypes
<1>3. Restructure(children, {}, spent)
  BY DEF Spawn
<1> HIDE DEF gift, share
<1>4. children \in [{c} -> Newcomer]
  BY <1>1, <1>2 DEF Newcomer
<1>5. spent \in [Agents -> Int]
  BY <1>1 DEF Spent, Nothing
<1> HIDE DEF children, spent
<1> QED BY <1>3, <1>4, <1>5, RestructureType

LEMMA NothingType == Nothing \in [Agents -> Int]
  BY DEF Nothing

LEMMA MergeType ==
  ASSUME LifecycleTypes, NEW a \in Agents, NEW b \in Agents, NEW c \in Agents, Merge(a, b, c)
  PROVE  LifecycleTypes'
<1> DEFINE m == MergedAuthority(a, b)
           children == [d \in {c} |-> [authority |-> m, credits |-> credits[a] + credits[b],
                                       roles |-> roles[a] \cup roles[b],
                                       actions |-> actions[a] + actions[b],
                                       successes |-> successes[a] + successes[b]]]
<1>1. m \in 0..100
  BY MergedBounds
<1>2. Restructure(children, {a, b}, Nothing)
  BY DEF Merge
<1> HIDE DEF m
<1>3. /\ credits[a] + credits[b] \in Int
      /\ roles[a] \cup roles[b] \in SUBSET RoleNames
      /\ actions[a] + actions[b] \in Nat /\ successes[a] + successes[b] \in Nat
  BY AgentTypes
<1>4. children \in [{c} -> Newcomer]
  BY <1>1, <1>3 DEF Newcomer
<1> HIDE DEF children
<1>5. {c} \in SUBSET Agents /\ {a, b} \in SUBSET Agents
  OBVIOUS
<1> QED BY <1>2, <1>4, <1>5, NothingType, RestructureType

LEMMA HalvesType ==
  ASSUME LifecycleTypes, NEW a \in Agents, NEW ratio \in Ratios
  PROVE  /\ FirstHalf(a, ratio) \in Newcomer /\ SecondHalf(a, ratio) \in Newcomer
         /\ FirstHalf(a, ratio).credits + SecondHalf(a, ratio).credits = credits[a]
         /\ FirstHalf(a, ratio).authority <= authority[a]
         /\ SecondHalf(a, ratio).authority <= authority[a]
<1> DEFINE w == Part(ratio, authority[a])
           x == Part(ratio, credits[a])
           y == Part(ratio, actions[a])
           z == Part(ratio, successes[a])
<1>1. ratio \in 0..100
  BY LifecycleAssumption
<1>2. w \in Nat /\ w <= authority[a]
  BY <1>1, AgentTypes, PartBounds
<1>3. x \in Int
  BY <1>1, AgentTypes, PartType
<1>4. y \in Nat /\ y <= actions[a]
  BY <1>1, AgentTypes, PartBounds
<1>5. z \in Nat /\ z <= successes[a]
  BY <1>1, AgentTypes, PartBounds
<1>6. FirstHalf(a, ratio) = [authority |-> w, credits |-> x, roles |-> {},
                             actions |-> y, successes |-> z]
  BY DEF FirstHalf
<1> HIDE DEF w, x, y, z
<1>7. SecondHalf(a, ratio) =
        [authority |-> authority[a] - w, credits |-> credits[a] - x, roles |-> {},
         actions |-> actions[a] - y, successes |-> successes[a] - z]
  BY <1>6 DEF SecondHalf
<1>8. /\ w \in 0..100 /\ authority[a] - w \in 0..100 /\ authority[a] - w <= authority[a]
      /\ credits[a] - x \in Int /\ x + (credits[a] - x) = credits[a]
      /\ actions[a] - y \in Nat /\ successes[a] - z \in Nat
  <2>1. /\ authority[a] \in 0..100 /\ credits[a] \in Int
        /\ actions[a] \in Nat /\ successes[a] \in Nat
    BY AgentTypes
  <2>2. w \in 0..100 /\ authority[a] - w \in 0..100 /\ authority[a] - w <= authority[a]
    BY <1>2, <2>1
  <2>3. credits[a] - x \in Int /\ x + (credits[a] - x) = credits[a]
    BY <1>3, <2>1
  <2>4. actions[a] - y \in Nat /\ successes[a] - z \in Nat
    BY <1>4, <1>5, <2>1
  <2> QED BY <2>2, <2>3, <2>4
<1>9. FirstHalf(a, ratio) \in Newcomer
  BY <1>3, <1>4, <1>5, <1>6, <1>8 DEF Newcomer
<1>10. SecondHalf(a, ratio) \in Newcomer
  BY <1>7, <1>8 DEF Newcomer
<1> QED BY <1>2, <1>6, <1>7, <1>8, <1>9, <1>10

LEMMA SplitType ==
  ASSUME LifecycleTypes, NEW a \in Agents, NEW left \in Agents, NEW right \in Agents,
         NEW ratio \in Ratios, Split(a, left, right, ratio)
  PROVE  LifecycleTypes'
<1> DEFINE children == [c \in {left, right} |-> IF c = left THEN FirstHalf(a, ratio)
                                                            ELSE SecondHalf(a, ratio)]
<1>1. Restructure(children, {a}, Nothing)
  BY DEF Split
<1>2. children \in [{left, right} -> Newcomer]
  BY HalvesType
<1> HIDE DEF children
<1>3. {left, right} \in SUBSET Agents /\ {a} \in SUBSET Agents
  OBVIOUS
<1> QED BY <1>1, <1>2, <1>3, NothingType, RestructureType

LEMMA LifecycleTypesStep ==
  ASSUME LifecycleTypes, LifecycleNext
  PROVE  LifecycleTypes'
<1>1. ASSUME NEW a \in Agents, AuthorityMoves(a) \/ StatusMoves(a, "active"),
             UNCHANGED ownLifecycle
      PROVE  LifecycleTypes'
  <2>1. MembersTypeOK'
    BY <1>1, MovesType DEF LifecycleTypes, AgentStatus
  <2> QED BY <1>1, <2>1 DEF LifecycleTypes, LifecycleTypeOK, ownLifecycle
<1> QED BY <1>1, SpawnType, MergeType, SplitType DEF LifecycleNext

(* The agents there are, and those whose credits are wealth.               *)
Members == {a \in Agents : Registered(a)}

Living == {a \in Agents : Active(a)}

LifecycleInv == LifecycleTypes /\ IsFiniteSet(Members)

LEMMA LivingFinite ==
  ASSUME LifecycleInv
  PROVE  /\ IsFiniteSet(Living) /\ Living \subseteq Agents
         /\ \A a \in Living : credits[a] \in Int
         /\ Wealth = SumFunctionOnSet(credits, Living)
<1>1. Living \in SUBSET Members
  BY DEF Living, Members, Active, Registered
<1>2. IsFiniteSet(Living)
  BY <1>1, FS_Subset DEF LifecycleInv
<1>3. \A a \in Living : credits[a] \in Int
  BY DEF LifecycleInv, LifecycleTypes, MembersTypeOK, Living
<1> QED BY <1>2, <1>3 DEF Wealth, Living

LEMMA RestructureEffect ==
  ASSUME LifecycleInv, NEW new \in SUBSET Agents, NEW children \in [new -> Newcomer],
         NEW gone \in SUBSET Agents, \A a \in gone : Registered(a), IsFiniteSet(new),
         NEW spent \in [Agents -> Int], Restructure(children, gone, spent)
  PROVE  /\ \A c \in new : /\ ~Registered(c) /\ c \notin Living
                           /\ credits'[c] = children[c].credits
                           /\ authority'[c] = children[c].authority
         /\ \A a \in Agents \ new : credits'[a] = credits[a] - spent[a]
         /\ Living' = (Living \ gone) \cup new
         /\ \A c \in Agents : Registered(c)' <=> Registered(c) \/ c \in new
         /\ IsFiniteSet(Members')
         /\ Wealth' = SumFunctionOnSet(credits', Living')
<1>1. DOMAIN children = new
  OBVIOUS
<1>2. /\ \A c \in new : ~Registered(c)
      /\ \A a \in Agents :
           status'[a] = IF a \in new THEN "active"
                        ELSE IF a \in gone THEN "inactive" ELSE status[a]
      /\ \A a \in Agents :
           credits'[a] = IF a \in new THEN children[a].credits ELSE credits[a] - spent[a]
      /\ \A a \in Agents :
           authority'[a] = IF a \in new THEN children[a].authority ELSE authority[a]
  BY <1>1 DEF Restructure
<1>3. \A c \in Agents : Registered(c)' <=> Registered(c) \/ c \in new
  BY <1>2 DEF Registered
<1>4. Living' = (Living \ gone) \cup new
  BY <1>2 DEF Living, Active
<1>5. \A c \in new : c \notin Living
  BY <1>2 DEF Living, Active, Registered
<1>6. IsFiniteSet(Members')
  <2>1. Members' = Members \cup new
    BY <1>3 DEF Members
  <2> QED BY <2>1, FS_Union DEF LifecycleInv
<1>7. Wealth' = SumFunctionOnSet(credits', Living')
  BY DEF Wealth, Living
<1> QED BY <1>2, <1>3, <1>4, <1>5, <1>6, <1>7

(* What a birth does: nobody is removed, the new are worth what is lost.   *)
Born(new) ==
  /\ IsFiniteSet(Members')
  /\ \A c \in Agents : Registered(c)' <=> Registered(c) \/ c \in new
  /\ \A c \in new : \E p \in Agents : Registered(p) /\ authority'[c] <= authority[p]

LEMMA SpawnBirth ==
  ASSUME LifecycleInv, NEW a \in Agents, NEW c \in Agents, NEW names \in SUBSET RoleNames,
         Spawn(a, c, names)
  PROVE  Born({c}) /\ Wealth' = Wealth
<1> DEFINE gift == Part(CreditShare, credits[a])
           share == Part(SpawnShare, authority[a])
           children == [d \in {c} |-> [authority |-> share, credits |-> gift, roles |-> names,
                                       actions |-> 0, successes |-> 0]]
           spent == Spent(a, gift)
<1>0. LifecycleTypes
  BY DEF LifecycleInv
<1>1. gift \in Int
  BY <1>0, AgentTypes, PartType, LifecycleAssumption
<1>2. share \in 0..100 /\ share <= authority[a]
  <2>1. share \in Nat /\ share <= authority[a]
    BY <1>0, AgentTypes, PartBounds, LifecycleAssumption
  <2> HIDE DEF share
  <2> QED BY <1>0, <2>1, AgentTypes
<1>3. Restructure(children, {}, spent) /\ Active(a)
  BY DEF Spawn
<1> HIDE DEF gift, share
<1>4. /\ children \in [{c} -> Newcomer]
      /\ children[c].authority = share /\ children[c].credits = gift
  BY <1>1, <1>2 DEF Newcomer
<1>5. /\ spent \in [Agents -> Int]
      /\ \A b \in Agents : spent[b] = IF b = a THEN gift ELSE 0
  BY <1>1 DEF Spent, Nothing
<1> HIDE DEF children, spent
<1>6. IsFiniteSet({c}) /\ {c} \in SUBSET Agents
  BY FS_Singleton
<1>7. /\ ~Registered(c) /\ c \notin Living
      /\ credits'[c] = gift /\ authority'[c] = share
      /\ \A b \in Agents \ {c} : credits'[b] = credits[b] - spent[b]
      /\ Living' = (Living \ {}) \cup {c}
      /\ \A b \in Agents : Registered(b)' <=> Registered(b) \/ b \in {c}
      /\ IsFiniteSet(Members')
      /\ Wealth' = SumFunctionOnSet(credits', Living')
  <2>1. /\ \A d \in {c} : /\ ~Registered(d) /\ d \notin Living
                          /\ credits'[d] = children[d].credits
                          /\ authority'[d] = children[d].authority
        /\ \A b \in Agents \ {c} : credits'[b] = credits[b] - spent[b]
        /\ Living' = (Living \ {}) \cup {c}
        /\ \A b \in Agents : Registered(b)' <=> Registered(b) \/ b \in {c}
        /\ IsFiniteSet(Members')
        /\ Wealth' = SumFunctionOnSet(credits', Living')
    <3>1. {} \in SUBSET Agents /\ \A d \in {} : Registered(d)
      OBVIOUS
    <3> QED BY <1>3, <1>4, <1>5, <1>6, <3>1, RestructureEffect
  <2> QED BY <1>4, <2>1
<1>8. Born({c})
  BY <1>2, <1>3, <1>7 DEF Born, Active, Registered
<1>9. /\ IsFiniteSet(Living) /\ Living \subseteq Agents
      /\ \A b \in Living : credits[b] \in Int
      /\ Wealth = SumFunctionOnSet(credits, Living)
  BY LivingFinite
<1>10. a \in Living /\ a # c
  BY <1>3, <1>7 DEF Living
<1>11. /\ \A b \in Living \ {a} : credits'[b] = credits[b]
       /\ credits'[a] = credits[a] - gift
       /\ \A b \in Living : credits'[b] \in Int
  BY <1>1, <1>5, <1>7, <1>9, <1>10
<1>12. SumFunctionOnSet(credits', Living)
         = SumFunctionOnSet(credits, Living) - credits[a] + credits'[a]
  BY <1>9, <1>10, <1>11, SumUpdate
<1>13. SumFunctionOnSet(credits', Living \cup {c})
         = credits'[c] + SumFunctionOnSet(credits', Living)
  <2>1. \A b \in Living \cup {c} : credits'[b] \in Int
    BY <1>1, <1>7, <1>11
  <2> QED BY <1>7, <1>9, <2>1, SumAddElement
<1>14. Living' = Living \cup {c}
  BY <1>7
<1>15. SumFunctionOnSet(credits, Living) \in Int
  BY <1>9, SumInt
<1> QED BY <1>1, <1>7, <1>8, <1>9, <1>10, <1>11, <1>12, <1>13, <1>14, <1>15

LEMMA MergeBirth ==
  ASSUME LifecycleInv, NEW a \in Agents, NEW b \in Agents, NEW c \in Agents, Merge(a, b, c)
  PROVE  Born({c}) /\ (Active(a) /\ Active(b) => Wealth' = Wealth)
<1> DEFINE m == MergedAuthority(a, b)
           sum == credits[a] + credits[b]
           children == [d \in {c} |-> [authority |-> m, credits |-> sum,
                                       roles |-> roles[a] \cup roles[b],
                                       actions |-> actions[a] + actions[b],
                                       successes |-> successes[a] + successes[b]]]
<1>0. LifecycleTypes
  BY DEF LifecycleInv
<1>1. m \in 0..100 /\ \E p \in {a, b} : m <= authority[p]
  BY <1>0, MergedBounds
<1>2. Restructure(children, {a, b}, Nothing) /\ Registered(a) /\ Registered(b) /\ a # b
  BY DEF Merge
<1> HIDE DEF m
<1>3. /\ sum \in Int
      /\ roles[a] \cup roles[b] \in SUBSET RoleNames
      /\ actions[a] + actions[b] \in Nat /\ successes[a] + successes[b] \in Nat
  BY <1>0, AgentTypes
<1> HIDE DEF sum
<1>4. /\ children \in [{c} -> Newcomer]
      /\ children[c].authority = m /\ children[c].credits = sum
  BY <1>1, <1>3 DEF Newcomer
<1> HIDE DEF children
<1>5. IsFiniteSet({c}) /\ {c} \in SUBSET Agents /\ {a, b} \in SUBSET Agents
  BY FS_Singleton
<1>6. /\ ~Registered(c) /\ c \notin Living
      /\ credits'[c] = sum /\ authority'[c] = m
      /\ \A d \in Agents \ {c} : credits'[d] = credits[d] - Nothing[d]
      /\ Living' = (Living \ {a, b}) \cup {c}
      /\ \A d \in Agents : Registered(d)' <=> Registered(d) \/ d \in {c}
      /\ IsFiniteSet(Members')
      /\ Wealth' = SumFunctionOnSet(credits', Living')
  <2>1. \A d \in {a, b} : Registered(d)
    BY <1>2
  <2>2. /\ \A d \in {c} : /\ ~Registered(d) /\ d \notin Living
                          /\ credits'[d] = children[d].credits
                          /\ authority'[d] = children[d].authority
        /\ \A d \in Agents \ {c} : credits'[d] = credits[d] - Nothing[d]
        /\ Living' = (Living \ {a, b}) \cup {c}
        /\ \A d \in Agents : Registered(d)' <=> Registered(d) \/ d \in {c}
        /\ IsFiniteSet(Members')
        /\ Wealth' = SumFunctionOnSet(credits', Living')
    BY <1>2, <1>4, <1>5, <2>1, NothingType, RestructureEffect
  <2> QED BY <1>4, <2>2
<1>7. Born({c})
  BY <1>1, <1>2, <1>6 DEF Born
<1> SUFFICES ASSUME Active(a), Active(b) PROVE Wealth' = Wealth
  BY <1>7
<1>8. /\ IsFiniteSet(Living) /\ Living \subseteq Agents
      /\ \A d \in Living : credits[d] \in Int
      /\ Wealth = SumFunctionOnSet(credits, Living)
  BY LivingFinite
<1> DEFINE A == Living \ {a}
           R == A \ {b}
<1>9. /\ a \in Living /\ b \in A /\ c \notin R /\ R \subseteq Living
      /\ Living' = R \cup {c}
  BY <1>2, <1>6 DEF Living
<1>10. IsFiniteSet(A) /\ IsFiniteSet(R)
  <2>1. IsFiniteSet(A)
    BY <1>8, FS_RemoveElement
  <2> QED BY <2>1, FS_RemoveElement
<1>11. SumFunctionOnSet(credits, Living) = credits[a] + SumFunctionOnSet(credits, A)
  BY <1>8, <1>9, SumRemoveElement
<1>12. SumFunctionOnSet(credits, A) = credits[b] + SumFunctionOnSet(credits, R)
  <2>1. \A d \in A : credits[d] \in Int
    BY <1>8
  <2> QED BY <1>9, <1>10, <2>1, SumRemoveElement
<1>13. \A d \in R : credits'[d] = credits[d] /\ credits[d] \in Int
  BY <1>6, <1>8, <1>9 DEF Nothing
<1> HIDE DEF A, R
<1>14. SumFunctionOnSet(credits', R) = SumFunctionOnSet(credits, R)
  BY <1>10, <1>13, SumSame
<1>15. SumFunctionOnSet(credits', R \cup {c}) = credits'[c] + SumFunctionOnSet(credits', R)
  <2>1. \A d \in R \cup {c} : credits'[d] \in Int
    BY <1>3, <1>6, <1>13
  <2> QED BY <1>9, <1>10, <2>1, SumAddElement
<1>16. SumFunctionOnSet(credits, R) \in Int
  BY <1>10, <1>13, SumInt
<1>17. credits[a] \in Int /\ credits[b] \in Int
  BY <1>0, AgentTypes
<1> DEFINE rest == SumFunctionOnSet(credits, R)
<1>18. Wealth = credits[a] + (credits[b] + rest)
  BY <1>8, <1>11, <1>12
<1>19. Wealth' = sum + rest
  BY <1>6, <1>9, <1>14, <1>15
<1>20. rest \in Int
  BY <1>16
<1> HIDE DEF rest
<1> QED BY <1>17, <1>18, <1>19, <1>20 DEF sum

LEMMA SplitBirth ==
  ASSUME LifecycleInv, NEW a \in Agents, NEW left \in Agents, NEW right \in Agents,
         NEW ratio \in Ratios, Split(a, left, right, ratio)
  PROVE  Born({left, right}) /\ Wealth' = Wealth
<1> DEFINE x == FirstHalf(a, ratio)
           y == SecondHalf(a, ratio)
           children == [c \in {left, right} |-> IF c = left THEN x ELSE y]
<1>0. LifecycleTypes
  BY DEF LifecycleInv
<1>1. /\ x \in Newcomer /\ y \in Newcomer
      /\ x.credits \in Int /\ y.credits \in Int /\ x.credits + y.credits = credits[a]
      /\ x.authority <= authority[a] /\ y.authority <= authority[a]
  <2>1. /\ x \in Newcomer /\ y \in Newcomer
        /\ x.credits + y.credits = credits[a]
        /\ x.authority <= authority[a] /\ y.authority <= authority[a]
    BY <1>0, HalvesType
  <2> HIDE DEF x, y
  <2> QED BY <2>1 DEF Newcomer
<1>2. Restructure(children, {a}, Nothing) /\ Active(a) /\ left # right
  BY DEF Split
<1> HIDE DEF x, y
<1>3. /\ children \in [{left, right} -> Newcomer]
      /\ children[left] = x /\ children[right] = y
  BY <1>1, <1>2
<1> HIDE DEF children
<1>4. /\ IsFiniteSet({left, right}) /\ {left, right} \in SUBSET Agents /\ {a} \in SUBSET Agents
      /\ \A d \in {a} : Registered(d)
  <2>1. IsFiniteSet({left} \cup {right})
    BY FS_Singleton, FS_AddElement
  <2>2. {left, right} = {left} \cup {right}
    OBVIOUS
  <2> QED BY <1>2, <2>1, <2>2 DEF Active, Registered
<1>5. /\ \A c \in {left, right} : /\ ~Registered(c) /\ c \notin Living
                                  /\ credits'[c] = children[c].credits
                                  /\ authority'[c] = children[c].authority
      /\ \A d \in Agents \ {left, right} : credits'[d] = credits[d] - Nothing[d]
      /\ Living' = (Living \ {a}) \cup {left, right}
      /\ \A d \in Agents : Registered(d)' <=> Registered(d) \/ d \in {left, right}
      /\ IsFiniteSet(Members')
      /\ Wealth' = SumFunctionOnSet(credits', Living')
  BY <1>2, <1>3, <1>4, NothingType, RestructureEffect
<1>6. Born({left, right})
  BY <1>1, <1>3, <1>4, <1>5 DEF Born
<1>7. /\ IsFiniteSet(Living) /\ Living \subseteq Agents
      /\ \A d \in Living : credits[d] \in Int
      /\ Wealth = SumFunctionOnSet(credits, Living)
  BY LivingFinite
<1> DEFINE R == Living \ {a}
           L == R \cup {left}
<1>8. /\ a \in Living /\ left \notin R /\ right \notin L /\ R \subseteq Living
      /\ Living' = L \cup {right}
  BY <1>2, <1>5 DEF Living
<1>9. IsFiniteSet(R) /\ IsFiniteSet(L)
  <2>1. IsFiniteSet(R)
    BY <1>7, FS_RemoveElement
  <2> QED BY <2>1, FS_AddElement
<1>10. SumFunctionOnSet(credits, Living) = credits[a] + SumFunctionOnSet(credits, R)
  BY <1>7, <1>8, SumRemoveElement
<1>11. \A d \in R : credits'[d] = credits[d] /\ credits[d] \in Int
  BY <1>5, <1>7, <1>8 DEF Nothing
<1>12. credits'[left] = x.credits /\ credits'[right] = y.credits
  BY <1>3, <1>5
<1>13. /\ \A d \in R \cup {left} : credits'[d] \in Int
       /\ \A d \in L \cup {right} : credits'[d] \in Int
  BY <1>1, <1>11, <1>12
<1> HIDE DEF R
<1>14. SumFunctionOnSet(credits', R) = SumFunctionOnSet(credits, R)
  BY <1>9, <1>11, SumSame
<1>15. SumFunctionOnSet(credits', R \cup {left}) = credits'[left] + SumFunctionOnSet(credits', R)
  BY <1>8, <1>9, <1>13, SumAddElement
<1> HIDE DEF L
<1>16. SumFunctionOnSet(credits', L \cup {right}) = credits'[right] + SumFunctionOnSet(credits', L)
  BY <1>8, <1>9, <1>13, SumAddElement
<1>17. SumFunctionOnSet(credits, R) \in Int
  BY <1>9, <1>11, SumInt
<1> DEFINE rest == SumFunctionOnSet(credits, R)
<1>18. Wealth = credits[a] + rest
  BY <1>7, <1>10
<1>19. Wealth' = y.credits + (x.credits + rest)
  <2>1. Wealth' = credits'[right] + SumFunctionOnSet(credits', L)
    BY <1>5, <1>8, <1>16
  <2>2. SumFunctionOnSet(credits', L) = credits'[left] + rest
    BY <1>14, <1>15 DEF L
  <2> QED BY <1>12, <2>1, <2>2
<1>20. rest \in Int
  BY <1>17
<1> HIDE DEF rest
<1>21. Wealth' = Wealth
  BY <1>1, <1>18, <1>19, <1>20
<1> QED BY <1>6, <1>21

=============================================================================
