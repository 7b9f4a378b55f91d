------------------------------ MODULE Decision ------------------------------
(***************************************************************************)
(* What governance promises about a proposal, seen from outside: it is     *)
(* deliberated, put to a ballot in which every voter speaks once, left     *)
(* pending for Delay once carried, and then adopted.  A carried proposal   *)
(* had a supporter.  The human may decree an outcome at any time, and a    *)
(* market may decide the proposals submitted to it.                        *)
(* Reviews, weights, quorum, vetoes and the agents are not visible here.   *)
(***************************************************************************)
EXTENDS Naturals

CONSTANTS
  Proposals,    \* what may be submitted
  Voters,       \* who may vote
  Delay,        \* how long a carried proposal is pending
  Horizon       \* bound: the clock stops here

VARIABLES
  phase,        \* where each proposal stands
  market,       \* whether a market may decide it
  ballot,       \* the choice of each voter, or "none"
  since,        \* when it became pending
  clock

vars == <<phase, market, ballot, since, clock>>

Choice == {"approve", "reject", "abstain"}

Init ==
  /\ phase = [p \in Proposals |-> "none"]
  /\ market = [p \in Proposals |-> FALSE]
  /\ ballot = [p \in Proposals |-> [v \in Voters |-> "none"]]
  /\ since = [p \in Proposals |-> 0]
  /\ clock = 0

Submit(p, byMarket) ==
  /\ phase[p] = "none"
  /\ phase' = [phase EXCEPT ![p] = "deliberation"]
  /\ market' = [market EXCEPT ![p] = byMarket]
  /\ UNCHANGED <<ballot, since, clock>>

OpenBallot(p) ==
  /\ phase[p] = "deliberation"
  /\ phase' = [phase EXCEPT ![p] = "balloting"]
  /\ UNCHANGED <<market, ballot, since, clock>>

Cast(p, v, c) ==
  /\ phase[p] = "balloting"
  /\ ballot[p][v] = "none"
  /\ ballot' = [ballot EXCEPT ![p][v] = c]
  /\ UNCHANGED <<phase, market, since, clock>>

Pend(p) ==
  /\ phase' = [phase EXCEPT ![p] = "pending"]
  /\ since' = [since EXCEPT ![p] = clock]
  /\ UNCHANGED <<market, ballot, clock>>

Move(p, outcome) ==
  /\ phase' = [phase EXCEPT ![p] = outcome]
  /\ UNCHANGED <<market, ballot, since, clock>>

Carry(p) ==
  /\ phase[p] = "balloting"
  /\ \E v \in Voters : ballot[p][v] = "approve"
  /\ Pend(p)

Decline(p) == phase[p] = "balloting" /\ Move(p, "declined")

Adopt(p) ==
  /\ phase[p] = "pending"
  /\ clock >= since[p] + Delay
  /\ Move(p, "adopted")

Withdraw(p) == phase[p] \in {"pending", "adopted"} /\ Move(p, "withdrawn")

MarketVerdict(p) ==
  /\ market[p]
  /\ phase[p] # "none"
  /\ Pend(p) \/ Move(p, "declined")

Decree(p, outcome) == phase[p] # "none" /\ Move(p, outcome)

Tick ==
  /\ clock < Horizon
  /\ clock' = clock + 1
  /\ UNCHANGED <<phase, market, ballot, since>>

Next ==
  \/ \E p \in Proposals :
       \/ \E byMarket \in BOOLEAN : Submit(p, byMarket)
       \/ OpenBallot(p)
       \/ \E v \in Voters, c \in Choice : Cast(p, v, c)
       \/ Carry(p)
       \/ Decline(p)
       \/ Adopt(p)
       \/ Withdraw(p)
       \/ MarketVerdict(p)
       \/ \E outcome \in {"adopted", "declined"} : Decree(p, outcome)
  \/ Tick

Spec == Init /\ [][Next]_vars
=============================================================================
