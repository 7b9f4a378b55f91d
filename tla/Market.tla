------------------------------- MODULE Market -------------------------------
(***************************************************************************)
(* The internal market of a FIRM: an agent posts a task with a bounty,     *)
(* others bid, one bid becomes the contract, and its settlement moves      *)
(* credits and pays a fee into the commons.                                *)
(* Code: core/market.py and Firm.post_task, bid_on_task, accept_bid,       *)
(* settle_task and cancel_task in runtime.py.                              *)
(*                                                                         *)
(* Bounties and bids are whole numbers of market units; credits are        *)
(* counted in 1/(2 * FeeScale) of a unit, in which the fee of a completed  *)
(* and the half fee of a failed task are whole.  Bids carry no score here: *)
(* accept_bid takes whichever bid it is given.  Prices and volume are      *)
(* statistics that no guard reads.                                         *)
(***************************************************************************)
EXTENDS Integers, Sequences, Functions

CONSTANTS
  Agents,         \* members of the organisation
  Tasks,          \* identifiers a task can get
  Bids,           \* identifiers a bid can get
  NoBid,          \* accepted_bid_id is None
  Bounties,       \* bounties between MIN_BOUNTY and MAX_BOUNTY
  FeeScale,       \* MarketEngine._fee_rate is FeeRate / FeeScale
  FeeRate,
  MaxAuthority,   \* authority 1.0
  PostMin,        \* MIN_AUTHORITY_TO_POST, 0.3
  BidMin,         \* MIN_AUTHORITY_TO_BID, 0.2
  Start,          \* credits an agent joins with
  Outcomes,       \* what other parts of the organisation do to an agent:
                  \* the change of its credits, what of it the ledger books,
                  \* and its new authority
  OutcomeBound,   \* bound: no outcome takes credits further from 0 than this
  DriftBound      \* bound: nor what they leave unbooked, of all agents

ASSUME MarketAssumption ==
  /\ NoBid \notin Bids
  /\ Bounties \subseteq Nat \ {0}
  /\ FeeScale \in Nat \ {0}
  /\ FeeRate \in 0..FeeScale
  /\ MaxAuthority \in Nat
  /\ PostMin \in 0..MaxAuthority
  /\ BidMin \in 0..PostMin
  /\ Start \in Int
  /\ Outcomes \subseteq Int \X Int \X (0..MaxAuthority)
  /\ OutcomeBound \in Nat
  /\ DriftBound \in Nat

VARIABLES
  credits,       \* Agent.credits
  authority,     \* Agent.authority
  tasks,         \* MarketEngine._tasks
  bids,          \* the bids of all tasks
  overdue,       \* the tasks whose deadline has passed
  settlements,   \* MarketEngine._settlements
  commons,       \* MarketEngine._commons_pool
  booked,        \* ResponsibilityLedger._credit_balances
  drift          \* history: what the outcomes moved less what they booked

books == <<credits, commons, booked, drift>>
vars == <<authority, tasks, bids, overdue, settlements, books>>

TaskStatus ==
  {"open", "assigned", "completed", "failed", "cancelled", "expired", "disputed"}
BidStatus == {"pending", "accepted", "rejected", "withdrawn"}

Task == [status : TaskStatus, poster : Agents, bounty : Bounties,
         accepted : Bids \cup {NoBid}]
Bid == [status : BidStatus, task : Tasks, bidder : Agents, amount : Nat \ {0}]
Settlement == [task : Tasks, from : Agents, to : Agents, amount : Int, fee : Int]

(* An identifier that has not been given yet.                              *)
Absent == [status |-> "absent"]

Posted == {t \in Tasks : tasks[t] # Absent}

MarketTypeOK ==
  /\ credits \in [Agents -> Int]
  /\ authority \in [Agents -> 0..MaxAuthority]
  /\ tasks \in [Tasks -> Task \cup {Absent}]
  /\ bids \in [Bids -> Bid \cup {Absent}]
  /\ overdue \subseteq Tasks
  /\ settlements \in Seq(Settlement)
  /\ commons \in Int
  /\ booked \in [Agents -> Int]
  /\ drift \in [Agents -> Int]

Init ==
  /\ credits = [a \in Agents |-> Start]
  /\ authority \in [Agents -> 0..MaxAuthority]
  /\ tasks = [t \in Tasks |-> Absent]
  /\ bids = [b \in Bids |-> Absent]
  /\ overdue = {}
  /\ settlements = << >>
  /\ commons = 0
  /\ booked = [a \in Agents |-> 0]
  /\ drift = [a \in Agents |-> 0]

-----------------------------------------------------------------------------
(* Amounts in credits.                                                     *)

Worth(units) == 2 * FeeScale * units

Fee(units) == 2 * FeeRate * units

(* MarketEngine.fail_task: half the fee, and of the bounty.                *)
FailureFee(units) == FeeRate * units

-----------------------------------------------------------------------------
(* Posting and bidding.                                                    *)

(* Firm.post_task.  The credits are compared with the bounty here and      *)
(* nowhere else; nothing sets them aside.                                  *)
PostTask(a, t, bounty) ==
  /\ tasks[t] = Absent
  /\ authority[a] >= PostMin
  /\ credits[a] >= Worth(bounty)
  /\ tasks' = [tasks EXCEPT ![t] =
                 [status |-> "open", poster |-> a, bounty |-> bounty,
                  accepted |-> NoBid]]
  /\ UNCHANGED <<authority, bids, overdue, settlements, books>>

BidRange_Free(t) == 0..tasks[t].bounty

(* A bid asks for something, and for no more than the bounty.              *)
BidRange(t) == 1..tasks[t].bounty

Pending(t) ==
  {b \in Bids : bids[b].status = "pending" /\ bids[b].task = t}

(* Firm.bid_on_task.  The deadline is not looked at.                       *)
PlaceBid(a, b, t) ==
  /\ bids[b] = Absent
  /\ authority[a] >= BidMin
  /\ tasks[t].status = "open"
  /\ tasks[t].poster # a
  /\ \A other \in Pending(t) : bids[other].bidder # a
  /\ \E amount \in BidRange(t) :
       bids' = [bids EXCEPT ![b] =
                  [status |-> "pending", task |-> t, bidder |-> a, amount |-> amount]]
  /\ UNCHANGED <<authority, tasks, overdue, settlements, books>>

(* MarketEngine.withdraw_bid                                               *)
WithdrawBid(b) ==
  /\ bids[b].status = "pending"
  /\ bids' = [bids EXCEPT ![b] = [@ EXCEPT !.status = "withdrawn"]]
  /\ UNCHANGED <<authority, tasks, overdue, settlements, books>>

RejectBids_None(B) == bids

(* `bids' once the bids in B are rejected.                                 *)
RejectBids(B) ==
  [b \in Bids |-> IF b \in B THEN [bids[b] EXCEPT !.status = "rejected"] ELSE bids[b]]

-----------------------------------------------------------------------------
(* The contract.                                                           *)

(* Firm.accept_bid and MarketEngine.accept_bid: whoever calls, whatever    *)
(* the poster's credits and the deadline have become.                      *)
AcceptBid(t, b) ==
  /\ tasks[t].status = "open"
  /\ b \in Pending(t)
  /\ bids' = [RejectBids(Pending(t) \ {b}) EXCEPT ![b] = [@ EXCEPT !.status = "accepted"]]
  /\ tasks' = [tasks EXCEPT ![t] = [@ EXCEPT !.status = "assigned", !.accepted = b]]
  /\ UNCHANGED <<authority, overdue, settlements, books>>

(* MarketEngine.cancel_task                                                *)
CancelTask(a, t) ==
  /\ tasks[t].status = "open"
  /\ tasks[t].poster = a
  /\ tasks' = [tasks EXCEPT ![t] = [@ EXCEPT !.status = "cancelled"]]
  /\ bids' = RejectBids(Pending(t))
  /\ UNCHANGED <<authority, overdue, settlements, books>>

(* MarketEngine.expire_tasks, over all tasks at once.                      *)
ExpireTasks ==
  LET late == {t \in overdue : tasks[t].status = "open"}
  IN /\ late # {}
     /\ tasks' = [t \in Tasks |-> IF t \in late
                                  THEN [tasks[t] EXCEPT !.status = "expired"]
                                  ELSE tasks[t]]
     /\ bids' = RejectBids(UNION {Pending(t) : t \in late})
     /\ UNCHANGED <<authority, overdue, settlements, books>>

-----------------------------------------------------------------------------
(* Settlement.                                                             *)

(* The record of complete_task: the fee comes out of the bid, and the      *)
(* poster pays both.                                                       *)
Payment(t) ==
  LET bid == bids[tasks[t].accepted]
  IN [task |-> t, from |-> tasks[t].poster, to |-> bid.bidder,
      amount |-> Worth(bid.amount) - Fee(bid.amount), fee |-> Fee(bid.amount)]

(* The record of fail_task.                                                *)
Penalty(t) ==
  [task |-> t, from |-> tasks[t].poster, to |-> bids[tasks[t].accepted].bidder,
   amount |-> 0, fee |-> FailureFee(tasks[t].bounty)]

Transfer_FeeFree(s) ==
  [[credits EXCEPT ![s.from] = @ - s.amount] EXCEPT ![s.to] = @ + s.amount]

(* The transfers of Firm.settle_task.                                      *)
Transfer(s) ==
  [[credits EXCEPT ![s.from] = @ - (s.amount + s.fee)]
     EXCEPT ![s.to] = @ + s.amount]

Closed_Not(t, outcome) == tasks

Closed(t, outcome) == [tasks EXCEPT ![t] = [@ EXCEPT !.status = outcome]]

Booked_Poster(s) == [booked EXCEPT ![s.from] = @ + s.amount]

(* The ledger is told what the worker got, and nothing of what the poster  *)
(* paid.                                                                   *)
Booked(s) == [booked EXCEPT ![s.to] = @ + s.amount]

Settle(t, s, outcome) ==
  /\ tasks[t].status = "assigned"
  /\ tasks' = Closed(t, outcome)
  /\ settlements' = Append(settlements, s)
  /\ commons' = commons + s.fee
  /\ credits' = Transfer(s)
  /\ booked' = Booked(s)
  /\ UNCHANGED <<authority, bids, overdue, drift>>

(* Firm.settle_task                                                        *)
CompleteTask(t) == Settle(t, Payment(t), "completed")

FailTask(t) == Settle(t, Penalty(t), "failed")

(* MarketEngine.dispute_task moves no credits back.                        *)
DisputeTask(t) ==
  /\ tasks[t].status \in {"completed", "failed"}
  /\ tasks' = [tasks EXCEPT ![t] = [@ EXCEPT !.status = "disputed"]]
  /\ UNCHANGED <<authority, bids, overdue, settlements, books>>

-----------------------------------------------------------------------------
(* Between two calls to the market time passes, and the agents work, are   *)
(* overridden, take part in predictions and proposals, are split and       *)
(* merged.  Only record_action and predict book what they move:            *)
(* resolve_prediction, spawn, merge and split book nothing, set_credits    *)
(* books the change to the human, propose books 5 that it does not charge. *)
DeadlinePasses(t) ==
  /\ t \in Posted \ overdue
  /\ overdue' = overdue \cup {t}
  /\ UNCHANGED <<authority, tasks, bids, settlements, books>>

Outcome(a, moved, entered, x) ==
  LET left == [drift EXCEPT ![a] = @ + moved - entered]
  IN /\ credits[a] + moved \in -OutcomeBound..OutcomeBound
     /\ SumFunctionOnSet(left, Agents) \in -DriftBound..DriftBound
     /\ credits' = [credits EXCEPT ![a] = @ + moved]
     /\ booked' = [booked EXCEPT ![a] = @ + entered]
     /\ drift' = left
     /\ authority' = [authority EXCEPT ![a] = x]
     /\ UNCHANGED <<tasks, bids, overdue, settlements, commons>>

-----------------------------------------------------------------------------
Next ==
  \/ \E a \in Agents, t \in Tasks :
       \/ \E bounty \in Bounties : PostTask(a, t, bounty)
       \/ \E b \in Bids : PlaceBid(a, b, t)
       \/ CancelTask(a, t)
  \/ \E b \in Bids : WithdrawBid(b)
  \/ \E t \in Tasks :
       \/ \E b \in Bids : AcceptBid(t, b)
       \/ CompleteTask(t)
       \/ FailTask(t)
       \/ DisputeTask(t)
       \/ DeadlinePasses(t)
  \/ ExpireTasks
  \/ \E a \in Agents, o \in Outcomes : Outcome(a, o[1], o[2], o[3])

Spec == Init /\ [][Next]_vars

-----------------------------------------------------------------------------
(* Properties.                                                             *)

Accepted(t) ==
  {b \in Bids : bids[b].status = "accepted" /\ bids[b].task = t}

Contracted == {"assigned", "completed", "failed", "disputed"}

(* A task has one contract from its assignment on and none before or       *)
(* without it, no bid is left pending on a task that is no longer open,    *)
(* nobody bids on its own task or twice at a time, and no bid exceeds the  *)
(* bounty.                                                                 *)
OneContract ==
  \A t \in Posted :
    /\ Accepted(t) = IF tasks[t].status \in Contracted
                     THEN {tasks[t].accepted} ELSE {}
    /\ tasks[t].status # "open" => Pending(t) = {}
    /\ \A b, c \in Pending(t) : bids[b].bidder = bids[c].bidder => b = c
    /\ \A b \in Bids : bids[b] # Absent /\ bids[b].task = t =>
         bids[b].bidder # tasks[t].poster /\ bids[b].amount <= tasks[t].bounty

(* A contract is settled exactly once, disputed or not, between the poster *)
(* and the bidder it was made with; the worker gets its bid less the fee   *)
(* or nothing, and no settlement costs the poster more than the bounty.    *)
SettledOnce ==
  /\ \A i, j \in DOMAIN settlements :
       settlements[i].task = settlements[j].task => i = j
  /\ {settlements[i].task : i \in DOMAIN settlements} =
       {t \in Tasks : tasks[t].status \in Contracted \ {"assigned"}}
  /\ \A i \in DOMAIN settlements :
       LET s == settlements[i]
           t == tasks[s.task]
       IN /\ s.from = t.poster
          /\ s.to = bids[t.accepted].bidder
          /\ \/ t.status # "failed" /\ s.amount + s.fee = Worth(bids[t.accepted].amount)
             \/ t.status # "completed" /\ s.amount = 0
          /\ s.amount + s.fee <= Worth(t.bounty)

(* Strengthen OneContract: what each bid, and each contracted task, says   *)
(* of the other.                                                           *)
TaskOf(b) == tasks[bids[b].task]

BidsKnowTasks ==
  \A b \in Bids : bids[b] # Absent =>
    /\ TaskOf(b) # Absent
    /\ bids[b].bidder # TaskOf(b).poster
    /\ bids[b].amount <= TaskOf(b).bounty
    /\ bids[b].status = "pending" => TaskOf(b).status = "open"
    /\ bids[b].status = "accepted" =>
         TaskOf(b).status \in Contracted /\ TaskOf(b).accepted = b

OneBidEach ==
  \A t \in Tasks : \A b, c \in Pending(t) : bids[b].bidder = bids[c].bidder => b = c

TasksKnowBids ==
  \A t \in Tasks : tasks[t].status \in Contracted =>
    /\ tasks[t].accepted \in Bids
    /\ bids[tasks[t].accepted].status = "accepted"
    /\ bids[tasks[t].accepted].task = t

(* The inductive invariant.                                                *)
IInv == MarketTypeOK /\ BidsKnowTasks /\ OneBidEach /\ TasksKnowBids /\ SettledOnce

(* Credits are neither made nor lost by the market: a settlement moves     *)
(* them from one agent to another one and the commons, and no other call   *)
(* to the market moves credits without the ledger booking the same.        *)
Conserved ==
  [][IF settlements' # settlements
     THEN \E p, w \in Agents :
            /\ p # w
            /\ credits'[p] + credits'[w] + commons' = credits[p] + credits[w] + commons
            /\ credits'[w] >= credits[w] /\ commons' >= commons
            /\ \A a \in Agents \ {p, w} : credits'[a] = credits[a]
     ELSE /\ commons' = commons
          /\ \A a \in Agents :
               (credits'[a] - credits[a]) - (booked'[a] - booked[a]) = drift'[a] - drift[a]]_vars

Paid(a) ==
  LET own == {i \in DOMAIN settlements : settlements[i].from = a}
  IN  SumFunctionOnSet([i \in own |-> settlements[i].amount + settlements[i].fee], own)

(* How far the market puts the ledger's balance of an agent from its       *)
(* credits.  Beside what other parts leave unbooked, the two differ by all *)
(* that the agent has paid for tasks: what a worker got is booked once,    *)
(* and nothing that a poster, cancelling or disputing meanwhile, has paid. *)
LedgerGap ==
  \A a \in Agents : Start + booked[a] + drift[a] = credits[a] + Paid(a)

(* MarketEngine.post_task: "the poster's credits will be escrowed ... until *)
(* settlement", so that a settlement finds the credits it takes.           *)
Escrowed ==
  [][\A a \in Agents :
       settlements' # settlements /\ credits'[a] < credits[a] => credits'[a] >= 0]_vars
=============================================================================
