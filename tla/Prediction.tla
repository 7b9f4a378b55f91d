----------------------------- MODULE Prediction -----------------------------
(***************************************************************************)
(* Prediction markets: agents stake credits on a question, the beliefs are *)
(* weighted by the root of authority into a price, and the resolution pays *)
(* the right side against that price and scores everyone's calibration.    *)
(* Code: core/prediction.py and Firm.create_prediction_market, predict and *)
(* resolve_prediction in runtime.py.                                       *)
(*                                                                         *)
(* Probabilities and prices are percentages, scores and calibration counts *)
(* of 1/Unit; quotients are rounded down, as the code's are rounded to a   *)
(* float, and roots of authority to a tenth.                               *)
(* Authority moves by settlements only: what else moves it between two     *)
(* calls changes the weights in a price.                                   *)
(***************************************************************************)
EXTENDS Members, Functions

CONSTANTS
  Markets,       \* identifiers a market can get
  Stakes,        \* stakes between MIN_STAKE and MAX_STAKE
  Beliefs,       \* probabilities an agent names, after their clamp
  LearningRate,  \* AuthorityEngine.learning_rate, 5
  Decay          \* AuthorityEngine.decay, 2

ASSUME PredictionAssumption ==
  /\ Stakes \subseteq Nat \ {0}
  /\ Beliefs \subseteq 1..99
  /\ LearningRate \in 0..100
  /\ Decay \in 0..100

VARIABLES
  market,       \* PredictionEngine._markets: the status of each
  position,     \* PredictionMarket.positions, at most one per agent
  calibration,  \* PredictionEngine._calibration
  booked        \* what the ledger has booked to each agent

ownPrediction == <<market, position, calibration, booked>>

predictionVars == <<memberVars, ownPrediction>>

MarketStatus == {"open", "closed", "resolved_yes", "resolved_no", "cancelled"}

Position == [side : {"yes", "no"}, stake : Stakes, belief : Beliefs,
             weight : 1..10, payout : Nat]

None == [side |-> "none"]

Unit == 10000

CalibrationMin == Unit \div 10

Calibrations == CalibrationMin..(2 * Unit)

PredictionTypeOK ==
  /\ market \in [Markets -> MarketStatus \cup {"absent"}]
  /\ position \in [Markets -> [Agents -> Position \cup {None}]]
  /\ calibration \in [Agents -> Calibrations]
  /\ booked \in [Agents -> Int]

PredictionInit ==
  /\ market = [m \in Markets |-> "absent"]
  /\ position = [m \in Markets |-> [a \in Agents |-> None]]
  /\ calibration = [a \in Agents |-> Unit]
  /\ booked = [a \in Agents |-> 0]

Holders(m) == {a \in Agents : position[m][a] # None}

-----------------------------------------------------------------------------
(* Prices and scores.                                                      *)

Within(low, high, x) == IF x < low THEN low ELSE IF x > high THEN high ELSE x

(* PredictionMarket.market_probability                                     *)
MarketProbability(m) ==
  LET weight == [a \in Holders(m) |-> position[m][a].weight]
      weighted == [a \in Holders(m) |-> position[m][a].weight * position[m][a].belief]
      weights == SumFunctionOnSet(weight, Holders(m))
      beliefs == SumFunctionOnSet(weighted, Holders(m))
  IN IF Holders(m) = {} THEN 50 ELSE Within(1, 99, beliefs \div weights)

(* The root of the authority a position is taken with.                     *)
Weight(x) ==
  IF x = 0 THEN 1 ELSE CHOOSE w \in 1..10 : w * w <= x /\ x < (w + 1) * (w + 1)

Correct(p, outcome) == (p.side = "yes") = outcome

(* The stake over the price of the side that was right.                    *)
Payout(p, outcome, price) ==
  IF Correct(p, outcome)
  THEN (100 * p.stake) \div Within(5, 95, IF outcome THEN price ELSE 100 - price)
  ELSE 0

Brier(p, outcome) ==
  LET miss == IF outcome THEN 100 - p.belief ELSE p.belief IN miss * miss

(* PredictionEngine._update_calibration                                    *)
Calibrated(c, brier) == Within(CalibrationMin, 2 * Unit, (Unit - brier + 9 * c) \div 10)

(* AuthorityEngine.update with a calibration bonus.  The settlement leaves *)
(* it out for an agent whose calibration is within 0.001 of the best.      *)
FedBack(x, correct, c) ==
  LET bonus == c - Unit
  IN IF bonus \in -10..10 THEN x
     ELSE Within(0, 100,
            IF correct THEN x + (LearningRate * (Unit + Within(0, Unit, bonus))) \div Unit
                       ELSE x - Decay)

-----------------------------------------------------------------------------
(* PredictionEngine.create_market                                          *)
OpenMarket(m) ==
  /\ market[m] = "absent"
  /\ market' = [market EXCEPT ![m] = "open"]

(* Firm.create_prediction_market                                           *)
CreateMarket(a, m) ==
  /\ Active(a)
  /\ OpenMarket(m)
  /\ UNCHANGED <<memberVars, position, calibration, booked>>

(* PredictionEngine.take_position: one per agent and market.               *)
TakePosition(a, m, p) ==
  /\ market[m] = "open"
  /\ p.weight = Weight(authority[a])
  /\ a \notin Holders(m)
  /\ position' = [position EXCEPT ![m][a] = p]

(* Firm.predict: the stake leaves the agent at once.                       *)
Predict(a, m, p) ==
  /\ Active(a)
  /\ credits[a] >= p.stake
  /\ TakePosition(a, m, p)
  /\ credits' = [credits EXCEPT ![a] = @ - p.stake]
  /\ booked' = [booked EXCEPT ![a] = @ - p.stake]
  /\ UNCHANGED <<authority, status, roles, market, calibration>>

(* PredictionEngine.close_market                                           *)
CloseMarket(m) ==
  /\ market[m] = "open"
  /\ market' = [market EXCEPT ![m] = "closed"]
  /\ UNCHANGED <<memberVars, position, calibration, booked>>

(* PredictionEngine.close_expired_markets: at once all the open markets    *)
(* whose deadline has passed.  Nothing else looks at a deadline.           *)
CloseExpiredMarkets(late) ==
  /\ \A m \in late : market[m] = "open"
  /\ market' = [m \in Markets |-> IF m \in late THEN "closed" ELSE market[m]]
  /\ UNCHANGED <<memberVars, position, calibration, booked>>

Resolvable_Again(m) == market[m] \in {"open", "closed", "resolved_yes", "resolved_no"}

Resolvable(m) == market[m] \in {"open", "closed"}

(* PredictionEngine.resolve writes the payouts into the positions,         *)
Settle(m, outcome, price) ==
  /\ Resolvable(m)
  /\ market' = [market EXCEPT ![m] = IF outcome THEN "resolved_yes" ELSE "resolved_no"]
  /\ position' = [position EXCEPT ![m] = [a \in Agents |->
       IF a \in Holders(m)
       THEN [position[m][a] EXCEPT !.payout = Payout(position[m][a], outcome, price)]
       ELSE None]]
  /\ calibration' = [a \in Agents |->
       IF a \in Holders(m)
       THEN Calibrated(calibration[a], Brier(position[m][a], outcome))
       ELSE calibration[a]]

(* and Firm.resolve_prediction brings them to the agents' credits, not to  *)
(* the ledger, and what the calibration has become to their authority.     *)
Resolve(m, outcome) ==
  LET price == MarketProbability(m)
  IN /\ Settle(m, outcome, price)
     /\ credits' = [a \in Agents |->
          IF a \in Holders(m) THEN credits[a] + Payout(position[m][a], outcome, price)
                              ELSE credits[a]]
     /\ authority' = [a \in Agents |->
          IF a \in Holders(m)
          THEN FedBack(authority[a], Correct(position[m][a], outcome), calibration'[a])
          ELSE authority[a]]
     /\ UNCHANGED <<status, roles, booked>>

(* PredictionEngine.cancel_market, of a cancelled market as well: the      *)
(* refund is written into the positions, and no credits move.              *)
CancelMarket(m) ==
  /\ market[m] \in {"open", "closed", "cancelled"}
  /\ market' = [market EXCEPT ![m] = "cancelled"]
  /\ position' = [position EXCEPT ![m] = [a \in Agents |->
       IF a \in Holders(m) THEN [position[m][a] EXCEPT !.payout = position[m][a].stake] ELSE None]]
  /\ UNCHANGED <<memberVars, calibration, booked>>

-----------------------------------------------------------------------------
Forecasts ==
  [side : {"yes", "no"}, stake : Stakes, belief : Beliefs, weight : 1..10, payout : {0}]

PredictionNext ==
  \/ \E a \in Agents, m \in Markets :
       \/ CreateMarket(a, m)
       \/ \E p \in Forecasts : Predict(a, m, p)
  \/ \E m \in Markets :
       \/ CloseMarket(m)
       \/ \E outcome \in BOOLEAN : Resolve(m, outcome)
       \/ CancelMarket(m)
  \/ \E late \in SUBSET Markets : CloseExpiredMarkets(late)
  \/ \E a \in Agents, s \in AgentStatus : StatusMoves(a, s) /\ UNCHANGED ownPrediction

PredictionSpec == MembersInit /\ PredictionInit /\ [][PredictionNext]_predictionVars

-----------------------------------------------------------------------------
(* Properties.                                                             *)

Resolved(m) == market[m] \in {"resolved_yes", "resolved_no"}

Staked(a) ==
  LET held == {m \in Markets : a \in Holders(m)}
  IN  SumFunctionOnSet([m \in held |-> position[m][a].stake], held)

Won(a) ==
  LET settled == {m \in Markets : a \in Holders(m) /\ Resolved(m)}
      payout == [m \in settled |->
        Payout(position[m][a], market[m] = "resolved_yes", MarketProbability(m))]
  IN  SumFunctionOnSet(payout, settled)

(* The stakes in markets that were cancelled.                              *)
Voided(a) ==
  LET void == {m \in Markets : a \in Holders(m) /\ market[m] = "cancelled"}
  IN  SumFunctionOnSet([m \in void |-> position[m][a].stake], void)

(* What an agent has beyond what it kept and what resolutions paid it.     *)
Returned(a) == credits[a] - (Endowment - Staked(a) + Won(a))

(* No sequence of closing, resolving and cancelling charges or pays an     *)
(* agent anything twice: every stake leaves it once, a resolution pays it  *)
(* once, to the right side and at the price the positions make, and beyond *)
(* that no more comes back than the stakes of cancelled markets.  The      *)
(* ledger has booked every stake, and no more income than there was.       *)
NothingTwice ==
  \A a \in Founders :
    /\ Returned(a) \in 0..Voided(a)
    /\ booked[a] + Staked(a) \in 0..(Won(a) + Returned(a))

(* Firm.resolve_prediction: the bonus, calibration - 1, is "positive if    *)
(* well-calibrated".  So it is for an agent that in all markets resolved   *)
(* so far took the right side and named the outcome within a tenth.        *)
BonusEarned ==
  \A a \in Agents :
    LET settled == {m \in Markets : a \in Holders(m) /\ Resolved(m)}
        right(m) == LET outcome == market[m] = "resolved_yes"
                    IN  /\ Correct(position[m][a], outcome)
                        /\ Brier(position[m][a], outcome) <= Unit \div 100
    IN  settled # {} /\ (\A m \in settled : right(m)) => calibration[a] > Unit

=============================================================================
