---------------------------- MODULE MarketProofs ----------------------------
(* Proofs about the market, for every set of agents, tasks and bids, every *)
(* fee rate and every outcome the rest of the organisation may bring.      *)
EXTENDS Market, SumTheorems

USE DEF books

-----------------------------------------------------------------------------
(* Identifiers in use.                                                     *)

LEMMA InUse ==
  ASSUME MarketTypeOK
  PROVE  /\ \A t \in Tasks : tasks[t] \in Task <=> tasks[t] # Absent
         /\ \A b \in Bids : bids[b] \in Bid <=> bids[b] # Absent
         /\ \A t \in Tasks : tasks[t].status \in TaskStatus => tasks[t] \in Task
         /\ \A b \in Bids : bids[b].status \in BidStatus => bids[b] \in Bid
  BY DEF MarketTypeOK, Task, Bid, TaskStatus, BidStatus, Absent

LEMMA FeeTypes ==
  ASSUME NEW n \in Int
  PROVE  Worth(n) \in Int /\ Fee(n) \in Int /\ FailureFee(n) \in Int
  BY MarketAssumption DEF MarketAssumption, Worth, Fee, FailureFee

(* What a settled contract costs: a bid never more than the bounty, a      *)
(* failure neither, and a fee is never negative.                           *)
LEMMA FeeBounds ==
  ASSUME NEW n \in Nat, NEW m \in Nat, n <= m
  PROVE  /\ 0 <= Fee(n)
         /\ Fee(n) <= Worth(n)
         /\ Worth(n) <= Worth(m)
         /\ 0 <= FailureFee(m)
         /\ FailureFee(m) <= Worth(m)
  <1>1. FeeRate \in Nat /\ FeeScale \in Nat /\ FeeRate <= FeeScale
    BY MarketAssumption DEF MarketAssumption
  <1>2. \A i, j, k \in Nat : i <= j => i * k <= j * k
    OBVIOUS
  <1>3. FeeRate * n <= FeeScale * n /\ FeeRate * m <= FeeScale * m
    BY <1>1, <1>2
  <1>4. FeeScale * n <= FeeScale * m
    BY <1>1, <1>2
  <1>5. /\ FeeRate * n \in Nat /\ FeeRate * m \in Nat
        /\ FeeScale * n \in Nat /\ FeeScale * m \in Nat
    BY <1>1
  <1>6. /\ Fee(n) = 2 * (FeeRate * n) /\ FailureFee(m) = FeeRate * m
        /\ Worth(n) = 2 * (FeeScale * n) /\ Worth(m) = 2 * (FeeScale * m)
    BY <1>1 DEF Fee, FailureFee, Worth
  <1>7. QED
    BY <1>3, <1>4, <1>5, <1>6

-----------------------------------------------------------------------------
(* The market keeps its types.                                             *)

LEMMA PaymentType ==
  ASSUME MarketTypeOK, TasksKnowBids, NEW t \in Tasks, tasks[t].status = "assigned"
  PROVE  Payment(t) \in Settlement /\ Penalty(t) \in Settlement
  <1> DEFINE b == tasks[t].accepted
  <1>1. tasks[t] \in Task
    BY InUse DEF TaskStatus
  <1>2. b \in Bids /\ bids[b] \in Bid
    BY InUse DEF TasksKnowBids, Contracted, BidStatus
  <1>3. bids[b].amount \in Nat /\ bids[b].bidder \in Agents
    BY <1>2 DEF Bid
  <1>4. tasks[t].bounty \in Nat /\ tasks[t].poster \in Agents
    BY <1>1, MarketAssumption DEF Task, MarketAssumption
  <1>5. /\ Worth(bids[b].amount) \in Int /\ Fee(bids[b].amount) \in Int
        /\ FailureFee(tasks[t].bounty) \in Int
    BY <1>3, <1>4, FeeTypes
  <1>6. QED
    BY <1>3, <1>4, <1>5 DEF Payment, Penalty, Settlement

LEMMA RejectBidsType ==
  ASSUME MarketTypeOK, NEW B, \A b \in B \cap Bids : bids[b].status = "pending"
  PROVE  RejectBids(B) \in [Bids -> Bid \cup {Absent}]
  BY InUse DEF MarketTypeOK, RejectBids, Bid, BidStatus

LEMMA TransferEffect ==
  ASSUME MarketTypeOK, NEW s \in Settlement
  PROVE  /\ Transfer(s) \in [Agents -> Int]
         /\ s.from # s.to =>
              /\ Transfer(s)[s.from] = credits[s.from] - (s.amount + s.fee)
              /\ Transfer(s)[s.to] = credits[s.to] + s.amount
         /\ \A a \in Agents \ {s.from, s.to} : Transfer(s)[a] = credits[a]
  <1> DEFINE paid == [credits EXCEPT ![s.from] = @ - (s.amount + s.fee)]
  <1>1. s.from \in Agents /\ s.to \in Agents /\ s.amount \in Int /\ s.fee \in Int
    BY DEF Settlement
  <1>2. paid \in [Agents -> Int]
    BY <1>1 DEF MarketTypeOK
  <1>3. /\ paid[s.from] = credits[s.from] - (s.amount + s.fee)
        /\ \A a \in Agents \ {s.from} : paid[a] = credits[a]
    BY <1>1 DEF MarketTypeOK
  <1>4. Transfer(s) = [paid EXCEPT ![s.to] = @ + s.amount]
    BY DEF Transfer
  <1> HIDE DEF paid
  <1>5. QED
    BY <1>1, <1>2, <1>3, <1>4

LEMMA OutcomeParts ==
  ASSUME NEW o \in Outcomes
  PROVE  o[1] \in Int /\ o[2] \in Int /\ o[3] \in 0..MaxAuthority
  BY MarketAssumption DEF MarketAssumption

LEMMA OutcomeEffect ==
  ASSUME MarketTypeOK, NEW a \in Agents, NEW moved \in Int, NEW entered \in Int,
         NEW x \in 0..MaxAuthority, Outcome(a, moved, entered, x)
  PROVE  /\ MarketTypeOK'
         /\ UNCHANGED <<settlements, commons>>
         /\ \A c \in Agents :
              /\ credits'[c] = credits[c] + IF c = a THEN moved ELSE 0
              /\ booked'[c] = booked[c] + IF c = a THEN entered ELSE 0
              /\ drift'[c] = drift[c] + IF c = a THEN moved - entered ELSE 0
  <1>1. /\ credits' = [credits EXCEPT ![a] = @ + moved]
        /\ booked' = [booked EXCEPT ![a] = @ + entered]
        /\ drift' = [drift EXCEPT ![a] = @ + moved - entered]
        /\ authority' = [authority EXCEPT ![a] = x]
        /\ UNCHANGED <<tasks, bids, overdue, settlements, commons>>
    BY Zenon DEF Outcome
  <1>2. /\ credits \in [Agents -> Int] /\ booked \in [Agents -> Int]
        /\ drift \in [Agents -> Int] /\ authority \in [Agents -> 0..MaxAuthority]
    BY DEF MarketTypeOK
  <1>3. \A c \in Agents :
          /\ credits'[c] = credits[c] + IF c = a THEN moved ELSE 0
          /\ booked'[c] = booked[c] + IF c = a THEN entered ELSE 0
    BY <1>1, <1>2
  <1>4. \A c \in Agents : drift'[c] = drift[c] + IF c = a THEN moved - entered ELSE 0
    BY <1>1, <1>2
  <1>5. /\ credits' \in [Agents -> Int] /\ booked' \in [Agents -> Int]
        /\ drift' \in [Agents -> Int] /\ authority' \in [Agents -> 0..MaxAuthority]
    BY <1>1, <1>2
  <1>6. MarketTypeOK'
    BY <1>1, <1>5 DEF MarketTypeOK
  <1>7. QED
    BY <1>1, <1>3, <1>4, <1>6

LEMMA SettleType ==
  ASSUME MarketTypeOK, NEW t \in Tasks, NEW s \in Settlement,
         NEW outcome \in TaskStatus, Settle(t, s, outcome)
  PROVE  MarketTypeOK'
  <1>1. tasks[t] \in Task
    BY InUse DEF TaskStatus, Settle
  <1>2. tasks' \in [Tasks -> Task \cup {Absent}]
    BY <1>1 DEF MarketTypeOK, Settle, Closed, Task
  <1>3. settlements' \in Seq(Settlement)
    BY DEF MarketTypeOK, Settle
  <1>4. commons' \in Int /\ booked' \in [Agents -> Int]
    BY DEF MarketTypeOK, Settle, Booked, Settlement
  <1>5. credits' \in [Agents -> Int]
    BY TransferEffect DEF MarketTypeOK, Settle
  <1>6. QED
    BY <1>2, <1>3, <1>4, <1>5 DEF MarketTypeOK, Settle

LEMMA NextType ==
  ASSUME MarketTypeOK, TasksKnowBids, [Next]_vars
  PROVE  MarketTypeOK'
  <1>1. ASSUME NEW a \in Agents, NEW t \in Tasks, NEW bounty \in Bounties,
               PostTask(a, t, bounty)
        PROVE  MarketTypeOK'
    BY <1>1 DEF MarketTypeOK, PostTask, Task, TaskStatus
  <1>2. ASSUME NEW a \in Agents, NEW b \in Bids, NEW t \in Tasks, PlaceBid(a, b, t)
        PROVE  MarketTypeOK'
    <2>1. tasks[t] \in Task
      BY <1>2, InUse DEF PlaceBid, TaskStatus
    <2>2. BidRange(t) \subseteq Nat \ {0}
      BY <2>1, MarketAssumption DEF Task, MarketAssumption, BidRange
    <2>3. bids' \in [Bids -> Bid \cup {Absent}]
      BY <1>2, <2>2 DEF MarketTypeOK, PlaceBid, Bid, BidStatus
    <2>4. QED
      BY <1>2, <2>3 DEF MarketTypeOK, PlaceBid
  <1>3. ASSUME NEW a \in Agents, NEW t \in Tasks, CancelTask(a, t)
        PROVE  MarketTypeOK'
    <2>1. tasks[t] \in Task
      BY <1>3, InUse DEF CancelTask, TaskStatus
    <2>2. tasks' \in [Tasks -> Task \cup {Absent}]
      BY <1>3, <2>1 DEF MarketTypeOK, CancelTask, Task, TaskStatus
    <2>3. bids' \in [Bids -> Bid \cup {Absent}]
      BY <1>3, RejectBidsType DEF CancelTask, Pending
    <2>4. QED
      BY <1>3, <2>2, <2>3 DEF MarketTypeOK, CancelTask
  <1>4. ASSUME NEW b \in Bids, WithdrawBid(b)
        PROVE  MarketTypeOK'
    <2>1. bids[b] \in Bid
      BY <1>4, InUse DEF WithdrawBid, BidStatus
    <2>2. bids' \in [Bids -> Bid \cup {Absent}]
      BY <1>4, <2>1 DEF MarketTypeOK, WithdrawBid, Bid, BidStatus
    <2>3. QED
      BY <1>4, <2>2 DEF MarketTypeOK, WithdrawBid
  <1>5. ASSUME NEW t \in Tasks, NEW b \in Bids, AcceptBid(t, b)
        PROVE  MarketTypeOK'
    <2>1. tasks[t] \in Task /\ bids[b] \in Bid
      BY <1>5, InUse DEF AcceptBid, TaskStatus, Pending, BidStatus
    <2>2. tasks' \in [Tasks -> Task \cup {Absent}]
      BY <1>5, <2>1 DEF MarketTypeOK, AcceptBid, Task, TaskStatus
    <2>3. RejectBids(Pending(t) \ {b}) \in [Bids -> Bid \cup {Absent}]
      BY RejectBidsType DEF Pending
    <2>4. RejectBids(Pending(t) \ {b})[b] = bids[b]
      BY DEF RejectBids
    <2>5. bids' \in [Bids -> Bid \cup {Absent}]
      BY <1>5, <2>1, <2>3, <2>4 DEF AcceptBid, Bid, BidStatus
    <2>6. QED
      BY <1>5, <2>2, <2>5 DEF MarketTypeOK, AcceptBid
  <1>6. ASSUME NEW t \in Tasks, CompleteTask(t) \/ FailTask(t)
        PROVE  MarketTypeOK'
    BY <1>6, PaymentType, SettleType DEF CompleteTask, FailTask, Settle, TaskStatus
  <1>7. ASSUME NEW t \in Tasks, DisputeTask(t)
        PROVE  MarketTypeOK'
    <2>1. tasks[t] \in Task
      BY <1>7, InUse DEF DisputeTask, TaskStatus
    <2>2. tasks' \in [Tasks -> Task \cup {Absent}]
      BY <1>7, <2>1 DEF MarketTypeOK, DisputeTask, Task, TaskStatus
    <2>3. QED
      BY <1>7, <2>2 DEF MarketTypeOK, DisputeTask
  <1>8. ASSUME NEW t \in Tasks, DeadlinePasses(t)
        PROVE  MarketTypeOK'
    BY <1>8 DEF MarketTypeOK, DeadlinePasses
  <1>9. ASSUME ExpireTasks
        PROVE  MarketTypeOK'
    <2>1. tasks' \in [Tasks -> Task \cup {Absent}]
      <3>1. \A t \in Tasks : tasks[t].status = "open" =>
              [tasks[t] EXCEPT !.status = "expired"] \in Task
        BY InUse DEF Task, TaskStatus
      <3>2. QED
        BY <1>9, <3>1 DEF MarketTypeOK, ExpireTasks
    <2>2. bids' \in [Bids -> Bid \cup {Absent}]
      BY <1>9, RejectBidsType DEF ExpireTasks, Pending
    <2>3. QED
      BY <1>9, <2>1, <2>2 DEF MarketTypeOK, ExpireTasks
  <1>10. ASSUME NEW a \in Agents, NEW o \in Outcomes, Outcome(a, o[1], o[2], o[3])
         PROVE  MarketTypeOK'
    BY <1>10, OutcomeParts, OutcomeEffect
  <1>11. CASE UNCHANGED vars
    BY <1>11 DEF MarketTypeOK, vars
  <1>12. QED
    BY <1>1, <1>2, <1>3, <1>4, <1>5, <1>6, <1>7, <1>8, <1>9, <1>10, <1>11 DEF Next

LEMMA InitType == Init => MarketTypeOK
  <1> SUFFICES ASSUME Init PROVE MarketTypeOK
    OBVIOUS
  <1>1. settlements \in Seq(Settlement)
    BY DEF Init
  <1>2. QED
    BY <1>1, MarketAssumption DEF Init, MarketTypeOK, MarketAssumption

-----------------------------------------------------------------------------
(* Bids and tasks know each other.                                         *)

Know == BidsKnowTasks /\ OneBidEach /\ TasksKnowBids

(* A step that leaves tasks and bids alone.                                *)
LEMMA UntouchedKnow ==
  ASSUME Know, UNCHANGED <<tasks, bids>>
  PROVE  Know'
  BY DEF Know, BidsKnowTasks, TaskOf, OneBidEach, TasksKnowBids, Pending

(* What RejectBids does to each bid.                                       *)
LEMMA RejectBidsEffect ==
  ASSUME MarketTypeOK, NEW B, \A b \in B \cap Bids : bids[b].status = "pending",
         NEW b \in Bids
  PROVE  /\ b \notin B => RejectBids(B)[b] = bids[b]
         /\ RejectBids(B)[b] = Absent <=> bids[b] = Absent
         /\ bids[b] # Absent =>
              /\ RejectBids(B)[b].task = bids[b].task
              /\ RejectBids(B)[b].bidder = bids[b].bidder
              /\ RejectBids(B)[b].amount = bids[b].amount
         /\ RejectBids(B)[b].status = IF b \in B THEN "rejected" ELSE bids[b].status
  BY InUse DEF RejectBids, Bid, BidStatus, Absent

(* A step that closes the tasks T, which were open, and rejects their bids. *)
LEMMA CloseKnow ==
  ASSUME MarketTypeOK, Know, NEW T \in SUBSET Tasks,
         NEW outcome \in {"cancelled", "expired"},
         \A t \in T : tasks[t].status = "open",
         tasks' = [t \in Tasks |-> IF t \in T THEN [tasks[t] EXCEPT !.status = outcome]
                                    ELSE tasks[t]],
         bids' = RejectBids(UNION {Pending(t) : t \in T})
  PROVE  Know'
  <1> DEFINE B == UNION {Pending(t) : t \in T}
  <1>1. \A b \in Bids : b \in B <=> bids[b].status = "pending" /\ bids[b].task \in T
    BY DEF Pending
  <1>2. \A b \in Bids : bids[b] # Absent => bids[b] \in Bid /\ TaskOf(b) \in Task
    BY InUse DEF Know, BidsKnowTasks, TaskOf, Bid
  <1>3. ASSUME NEW b \in Bids
        PROVE  /\ b \notin B => bids'[b] = bids[b]
               /\ bids'[b] = Absent <=> bids[b] = Absent
               /\ bids[b] # Absent =>
                    /\ bids'[b].task = bids[b].task
                    /\ bids'[b].bidder = bids[b].bidder
                    /\ bids'[b].amount = bids[b].amount
               /\ bids'[b].status = IF b \in B THEN "rejected" ELSE bids[b].status
    BY <1>1, RejectBidsEffect
  <1>4. ASSUME NEW t \in Tasks, tasks[t] # Absent
        PROVE  /\ tasks'[t] # Absent
               /\ tasks'[t].poster = tasks[t].poster
               /\ tasks'[t].bounty = tasks[t].bounty
               /\ tasks'[t].accepted = tasks[t].accepted
               /\ tasks'[t].status = IF t \in T THEN outcome ELSE tasks[t].status
    BY <1>4, InUse DEF Task, TaskStatus, Absent
  <1>5. \A t \in Tasks : t \notin T => tasks'[t] = tasks[t]
    OBVIOUS
  <1>6. \A t \in T : tasks[t] # Absent
    BY DEF Absent
  <1> HIDE DEF B
  <1>7. BidsKnowTasks'
    <2> SUFFICES ASSUME NEW b \in Bids, bids'[b] # Absent
                 PROVE  /\ TaskOf(b)' # Absent
                        /\ bids'[b].bidder # TaskOf(b)'.poster
                        /\ bids'[b].amount <= TaskOf(b)'.bounty
                        /\ bids'[b].status = "pending" => TaskOf(b)'.status = "open"
                        /\ bids'[b].status = "accepted" =>
                             /\ TaskOf(b)'.status \in Contracted
                             /\ TaskOf(b)'.accepted = b
      BY DEF BidsKnowTasks
    <2> DEFINE t == bids[b].task
    <2>1. bids[b] # Absent /\ t \in Tasks /\ tasks[t] # Absent
      BY <1>2, <1>3 DEF Know, BidsKnowTasks, TaskOf, Bid
    <2>2. TaskOf(b) = tasks[t] /\ TaskOf(b)' = tasks'[t]
      BY <2>1, <1>3 DEF TaskOf
    <2>3. t \in T => bids'[b].status # "pending" /\ bids'[b].status # "accepted"
      BY <1>1, <1>3, <2>1, <2>2 DEF Know, BidsKnowTasks, Contracted
    <2>4. t \notin T => bids'[b] = bids[b]
      BY <1>1, <1>3
    <2>5. QED
      BY <1>3, <1>4, <2>1, <2>2, <2>3, <2>4 DEF Know, BidsKnowTasks
  <1>8. OneBidEach'
    <2>1. \A t \in Tasks : Pending(t)' \subseteq Pending(t)
      BY <1>3 DEF Pending, Absent
    <2>2. \A t \in Tasks : \A b \in Pending(t) : bids[b] # Absent
      BY DEF Pending, Absent
    <2>3. QED
      BY <1>3, <2>1, <2>2 DEF Know, OneBidEach, Pending
  <1>9. TasksKnowBids'
    <2> SUFFICES ASSUME NEW t \in Tasks, tasks'[t].status \in Contracted
                 PROVE  /\ tasks'[t].accepted \in Bids
                        /\ bids'[tasks'[t].accepted].status = "accepted"
                        /\ bids'[tasks'[t].accepted].task = t
      BY DEF TasksKnowBids
    <2>1. tasks'[t] = tasks[t]
      BY <1>4, <1>5, <1>6 DEF Contracted
    <2>2. /\ tasks[t].accepted \in Bids
          /\ bids[tasks[t].accepted].status = "accepted"
          /\ bids[tasks[t].accepted].task = t
      BY <2>1 DEF Know, TasksKnowBids
    <2>3. bids'[tasks[t].accepted] = bids[tasks[t].accepted]
      BY <1>1, <1>3, <2>2
    <2>4. QED
      BY <2>1, <2>2, <2>3
  <1>10. QED
    BY <1>7, <1>8, <1>9 DEF Know

(* A step that only moves a task's status between contracted ones.         *)
LEMMA ContractedKnow ==
  ASSUME MarketTypeOK, Know, NEW t \in Tasks,
         NEW outcome \in Contracted, tasks[t].status \in Contracted,
         tasks' = Closed(t, outcome), UNCHANGED bids
  PROVE  Know'
  <1>1. tasks[t] \in Task
    BY InUse DEF Contracted, TaskStatus
  <1>2. \A u \in Tasks : u # t => tasks'[u] = tasks[u]
    BY DEF MarketTypeOK, Closed
  <1>3. /\ tasks'[t] \in Task /\ tasks'[t].status = outcome
        /\ tasks'[t].poster = tasks[t].poster /\ tasks'[t].bounty = tasks[t].bounty
        /\ tasks'[t].accepted = tasks[t].accepted
    BY <1>1 DEF MarketTypeOK, Closed, Task, Contracted, TaskStatus
  <1>4. \A b \in Bids : bids[b] # Absent => bids[b].task \in Tasks
    BY InUse DEF Bid
  <1>5. \A u \in Tasks : Pending(u)' = Pending(u)
    BY DEF Pending
  <1>6. tasks'[t] # Absent
    BY <1>3 DEF Absent, Contracted
  <1>7. BidsKnowTasks'
    BY <1>2, <1>3, <1>4, <1>6 DEF Know, BidsKnowTasks, TaskOf, Contracted
  <1>8. OneBidEach'
    BY <1>5 DEF Know, OneBidEach
  <1>9. TasksKnowBids'
    BY <1>2, <1>3 DEF Know, TasksKnowBids
  <1>10. QED
    BY <1>7, <1>8, <1>9 DEF Know

LEMMA PostKnow ==
  ASSUME MarketTypeOK, Know, NEW a \in Agents, NEW t \in Tasks, NEW bounty \in Bounties,
         PostTask(a, t, bounty)
  PROVE  Know'
  <1>1. \A u \in Tasks : u # t => tasks'[u] = tasks[u]
    BY DEF MarketTypeOK, PostTask
  <1>2. tasks'[t].status = "open"
    BY DEF MarketTypeOK, PostTask
  <1>3. \A b \in Bids : bids[b] # Absent => bids[b].task \in Tasks \ {t}
    BY InUse DEF Know, BidsKnowTasks, TaskOf, Bid, PostTask
  <1>4. \A u \in Tasks : Pending(u)' = Pending(u)
    BY DEF Pending, PostTask
  <1>5. BidsKnowTasks'
    BY <1>1, <1>3 DEF Know, BidsKnowTasks, TaskOf, PostTask
  <1>6. OneBidEach'
    BY <1>4 DEF Know, OneBidEach, PostTask
  <1>7. TasksKnowBids'
    BY <1>1, <1>2 DEF Know, TasksKnowBids, Contracted, PostTask
  <1>8. QED
    BY <1>5, <1>6, <1>7 DEF Know

LEMMA PlaceKnow ==
  ASSUME MarketTypeOK, Know, NEW a \in Agents, NEW b \in Bids, NEW t \in Tasks,
         PlaceBid(a, b, t)
  PROVE  Know'
  <1>1. PICK amount \in BidRange(t) :
          bids' = [bids EXCEPT ![b] =
                     [status |-> "pending", task |-> t, bidder |-> a, amount |-> amount]]
    BY DEF PlaceBid
  <1>2. tasks[t] \in Task
    BY InUse DEF PlaceBid, TaskStatus
  <1>3. amount <= tasks[t].bounty
    BY <1>2, MarketAssumption DEF BidRange, Task, MarketAssumption
  <1>4. \A c \in Bids : c # b => bids'[c] = bids[c]
    BY <1>1 DEF MarketTypeOK
  <1>5. bids'[b] = [status |-> "pending", task |-> t, bidder |-> a, amount |-> amount]
    BY <1>1 DEF MarketTypeOK
  <1>6. /\ Pending(t)' = Pending(t) \cup {b}
        /\ \A u \in Tasks : u # t => Pending(u)' = Pending(u)
    BY <1>4, <1>5 DEF Pending, PlaceBid, Absent
  <1>7. BidsKnowTasks'
    <2>1. ASSUME NEW c \in Bids, c # b, bids'[c] # Absent
          PROVE  bids'[c] = bids[c] /\ TaskOf(c)' = TaskOf(c)
      BY <2>1, <1>4 DEF TaskOf, PlaceBid
    <2>2. TaskOf(b)' = tasks[t]
      BY <1>5 DEF TaskOf, PlaceBid
    <2>3. QED
      BY <1>2, <1>3, <1>5, <2>1, <2>2, InUse DEF Know, BidsKnowTasks, PlaceBid
  <1>8. OneBidEach'
    <2>1. b \notin Pending(t)
      BY DEF Pending, PlaceBid, Absent
    <2>2. \A c \in Pending(t) : bids'[c].bidder = bids[c].bidder /\ bids[c].bidder # a
      BY <1>4, <2>1 DEF PlaceBid, Pending
    <2>3. \A u \in Tasks : u # t => \A c \in Pending(u) : bids'[c] = bids[c]
      BY <1>4 DEF Pending, PlaceBid, Absent
    <2>4. QED
      BY <1>5, <1>6, <2>1, <2>2, <2>3 DEF Know, OneBidEach
  <1>9. TasksKnowBids'
    BY <1>4, <1>5 DEF Know, TasksKnowBids, PlaceBid, Absent
  <1>10. QED
    BY <1>7, <1>8, <1>9 DEF Know

LEMMA WithdrawKnow ==
  ASSUME MarketTypeOK, Know, NEW b \in Bids, WithdrawBid(b)
  PROVE  Know'
  <1>1. bids[b] \in Bid /\ bids[b] # Absent
    BY InUse DEF WithdrawBid, BidStatus
  <1>2. \A c \in Bids : c # b => bids'[c] = bids[c]
    BY DEF MarketTypeOK, WithdrawBid
  <1>3. /\ bids'[b].status = "withdrawn" /\ bids'[b].task = bids[b].task
        /\ bids'[b].bidder = bids[b].bidder /\ bids'[b].amount = bids[b].amount
    BY <1>1 DEF MarketTypeOK, WithdrawBid, Bid, BidStatus
  <1>4. \A u \in Tasks : Pending(u)' = Pending(u) \ {b}
    BY <1>2, <1>3 DEF Pending
  <1>5. \A c \in Bids : TaskOf(c)' = TaskOf(c)
    BY <1>2, <1>3 DEF TaskOf, WithdrawBid
  <1>6. BidsKnowTasks'
    BY <1>1, <1>2, <1>3, <1>5 DEF Know, BidsKnowTasks
  <1>7. OneBidEach'
    BY <1>2, <1>4 DEF Know, OneBidEach, Pending
  <1>8. TasksKnowBids'
    BY <1>2 DEF Know, TasksKnowBids, WithdrawBid
  <1>9. QED
    BY <1>6, <1>7, <1>8 DEF Know

LEMMA AcceptKnow ==
  ASSUME MarketTypeOK, Know, NEW t \in Tasks, NEW b \in Bids, AcceptBid(t, b)
  PROVE  Know'
  <1> DEFINE B == Pending(t) \ {b}
  <1>1. /\ tasks[t] \in Task /\ tasks[t] # Absent /\ bids[b] \in Bid /\ bids[b] # Absent
        /\ bids[b].task = t /\ bids[b].status = "pending"
    BY InUse DEF AcceptBid, TaskStatus, Pending, BidStatus
  <1>2. \A u \in Tasks : u # t => tasks'[u] = tasks[u]
    BY DEF MarketTypeOK, AcceptBid
  <1>3. /\ tasks'[t] # Absent /\ tasks'[t].status = "assigned" /\ tasks'[t].accepted = b
        /\ tasks'[t].poster = tasks[t].poster /\ tasks'[t].bounty = tasks[t].bounty
    BY <1>1 DEF MarketTypeOK, AcceptBid, Task, TaskStatus, Absent
  <1>4. RejectBids(B) \in [Bids -> Bid \cup {Absent}]
    BY RejectBidsType DEF Pending
  <1>5. RejectBids(B)[b] = bids[b]
    BY DEF RejectBids
  <1>6. /\ bids'[b].status = "accepted" /\ bids'[b].task = t
        /\ bids'[b].bidder = bids[b].bidder /\ bids'[b].amount = bids[b].amount
    BY <1>1, <1>4, <1>5 DEF AcceptBid, Bid, BidStatus
  <1>7. ASSUME NEW c \in Bids, c # b
        PROVE  /\ c \notin Pending(t) => bids'[c] = bids[c]
               /\ bids'[c] = Absent <=> bids[c] = Absent
               /\ bids[c] # Absent =>
                    /\ bids'[c].task = bids[c].task
                    /\ bids'[c].bidder = bids[c].bidder
                    /\ bids'[c].amount = bids[c].amount
               /\ bids'[c].status = IF c \in Pending(t) THEN "rejected" ELSE bids[c].status
    <2>1. bids'[c] = RejectBids(B)[c]
      BY <1>4, <1>7 DEF AcceptBid
    <2>2. \A d \in B \cap Bids : bids[d].status = "pending"
      BY DEF Pending
    <2>3. c \in B <=> c \in Pending(t)
      BY <1>7
    <2> HIDE DEF B
    <2>4. QED
      BY <2>1, <2>2, <2>3, RejectBidsEffect
  <1>8. /\ Pending(t)' = {}
        /\ \A u \in Tasks : u # t => Pending(u)' \subseteq Pending(u)
    BY <1>6, <1>7 DEF Pending, Absent
  <1>9. \A c \in Bids : bids[c] # Absent => bids[c].task \in Tasks
    BY InUse DEF Bid
  <1>10. BidsKnowTasks'
    <2> SUFFICES ASSUME NEW c \in Bids, bids'[c] # Absent
                 PROVE  /\ TaskOf(c)' # Absent
                        /\ bids'[c].bidder # TaskOf(c)'.poster
                        /\ bids'[c].amount <= TaskOf(c)'.bounty
                        /\ bids'[c].status = "pending" => TaskOf(c)'.status = "open"
                        /\ bids'[c].status = "accepted" =>
                             /\ TaskOf(c)'.status \in Contracted
                             /\ TaskOf(c)'.accepted = c
      BY DEF BidsKnowTasks
    <2>1. CASE c = b
      <3>1. TaskOf(c) = tasks[t] /\ TaskOf(c)' = tasks'[t]
        BY <2>1, <1>1, <1>6 DEF TaskOf
      <3>2. QED
        BY <2>1, <3>1, <1>1, <1>3, <1>6 DEF Know, BidsKnowTasks, Contracted
    <2>2. CASE c # b
      <3> DEFINE u == bids[c].task
      <3>1. bids[c] # Absent /\ u \in Tasks
        BY <2>2, <1>7, <1>9
      <3>2. TaskOf(c) = tasks[u] /\ TaskOf(c)' = tasks'[u]
        BY <2>2, <3>1, <1>7 DEF TaskOf
      <3>3. u = t => bids[c].status # "accepted"
        BY <3>1, <3>2 DEF Know, BidsKnowTasks, AcceptBid, Contracted
      <3>4. u = t => bids'[c].status # "pending" /\ bids'[c].status # "accepted"
        BY <2>2, <3>3, <1>7 DEF Pending
      <3>5. u # t => c \notin Pending(t)
        BY DEF Pending
      <3>6. QED
        BY <2>2, <3>1, <3>2, <3>4, <3>5, <1>2, <1>3, <1>7 DEF Know, BidsKnowTasks
    <2>3. QED
      BY <2>1, <2>2
  <1>11. OneBidEach'
    <2>1. \A u \in Tasks : u # t => \A c \in Pending(u)' : bids'[c] = bids[c]
      BY <1>1, <1>6, <1>7 DEF Pending, Absent
    <2>2. QED
      BY <2>1, <1>8 DEF Know, OneBidEach
  <1>12. TasksKnowBids'
    <2>1. ASSUME NEW u \in Tasks, u # t, tasks[u].status \in Contracted
          PROVE  bids'[tasks[u].accepted] = bids[tasks[u].accepted]
      BY <2>1, <1>1, <1>7 DEF Know, TasksKnowBids, Pending
    <2>2. QED
      BY <2>1, <1>2, <1>3, <1>6 DEF Know, TasksKnowBids
  <1>13. QED
    BY <1>10, <1>11, <1>12 DEF Know

-----------------------------------------------------------------------------
(* Settlements.                                                            *)

Settled == Contracted \ {"assigned"}

(* What SettledOnce says of one settlement.                                *)
Terms(s) ==
  /\ s.from = tasks[s.task].poster
  /\ s.to = bids[tasks[s.task].accepted].bidder
  /\ \/ /\ tasks[s.task].status # "failed"
        /\ s.amount + s.fee = Worth(bids[tasks[s.task].accepted].amount)
     \/ tasks[s.task].status # "completed" /\ s.amount = 0
  /\ s.amount + s.fee <= Worth(tasks[s.task].bounty)

SettledWell ==
  /\ \A i, j \in DOMAIN settlements : settlements[i].task = settlements[j].task => i = j
  /\ {settlements[i].task : i \in DOMAIN settlements} =
       {t \in Tasks : tasks[t].status \in Settled}
  /\ \A i \in DOMAIN settlements : Terms(settlements[i])

LEMMA SettledParts == SettledOnce <=> SettledWell
  BY DEF SettledOnce, SettledWell, Terms, Settled

(* A step that settles nothing and changes neither the contract nor the    *)
(* outcome of a settled task, unless it disputes it.                       *)
LEMMA SettledStands ==
  ASSUME SettledOnce, UNCHANGED settlements,
         \A t \in Tasks : tasks'[t].status \in Settled <=> tasks[t].status \in Settled,
         \A t \in Tasks : tasks[t].status \in Settled =>
           /\ tasks'[t].poster = tasks[t].poster
           /\ tasks'[t].bounty = tasks[t].bounty
           /\ tasks'[t].accepted = tasks[t].accepted
           /\ tasks'[t].status \in {tasks[t].status, "disputed"}
           /\ bids'[tasks[t].accepted].bidder = bids[tasks[t].accepted].bidder
           /\ bids'[tasks[t].accepted].amount = bids[tasks[t].accepted].amount
  PROVE  SettledOnce'
  <1>1. SettledWell
    BY SettledParts
  <1>2. \A i \in DOMAIN settlements :
          settlements[i].task \in Tasks /\ tasks[settlements[i].task].status \in Settled
    BY <1>1 DEF SettledWell
  <1>3. \A i \in DOMAIN settlements : Terms(settlements[i])'
    BY <1>1, <1>2 DEF SettledWell, Terms, Worth
  <1>4. {t \in Tasks : tasks'[t].status \in Settled} =
          {t \in Tasks : tasks[t].status \in Settled}
    OBVIOUS
  <1>5. {settlements'[i].task : i \in DOMAIN settlements'} =
          {settlements[i].task : i \in DOMAIN settlements}
    OBVIOUS
  <1>6. SettledWell'
    BY <1>1, <1>3, <1>4, <1>5 DEF SettledWell
  <1>7. QED
    BY <1>6, SettledParts, PTL

LEMMA SettleSettles ==
  ASSUME MarketTypeOK, Know, SettledOnce, NEW t \in Tasks,
         NEW s \in Settlement, NEW outcome \in {"completed", "failed"},
         s.task = t, Settle(t, s, outcome),
         s.from = tasks[t].poster, s.to = bids[tasks[t].accepted].bidder,
         outcome = "completed" => s.amount + s.fee = Worth(bids[tasks[t].accepted].amount),
         outcome = "failed" => s.amount = 0,
         s.amount + s.fee <= Worth(tasks[t].bounty)
  PROVE  SettledOnce'
  <1>1. SettledWell
    BY SettledParts
  <1>2. /\ DOMAIN settlements = 1..Len(settlements) /\ Len(settlements) \in Nat
        /\ DOMAIN settlements' = 1..(Len(settlements) + 1)
        /\ settlements'[Len(settlements) + 1] = s
        /\ \A i \in DOMAIN settlements : settlements'[i] = settlements[i]
    BY DEF MarketTypeOK, Settle
  <1>3. tasks[t] \in Task /\ tasks[t].status \notin Settled
    BY InUse DEF Settle, TaskStatus, Settled
  <1>4. /\ \A u \in Tasks : u # t => tasks'[u] = tasks[u]
        /\ tasks'[t].status = outcome /\ tasks'[t].accepted = tasks[t].accepted
        /\ tasks'[t].poster = tasks[t].poster /\ tasks'[t].bounty = tasks[t].bounty
    BY <1>3 DEF MarketTypeOK, Settle, Closed, Task
  <1>5. \A i \in DOMAIN settlements :
          /\ settlements[i].task \in Tasks \ {t}
          /\ tasks[settlements[i].task].status \in Settled
    BY <1>1, <1>3 DEF SettledWell
  <1>6. \A i, j \in DOMAIN settlements' :
          settlements'[i].task = settlements'[j].task => i = j
    BY <1>1, <1>2, <1>5 DEF SettledWell
  <1>7. {settlements'[i].task : i \in DOMAIN settlements'} =
          {u \in Tasks : tasks'[u].status \in Settled}
    <2>1. {settlements'[i].task : i \in DOMAIN settlements'} =
            {settlements[i].task : i \in DOMAIN settlements} \cup {t}
      BY <1>2
    <2>2. {u \in Tasks : tasks'[u].status \in Settled} =
            {u \in Tasks : tasks[u].status \in Settled} \cup {t}
      BY <1>3, <1>4 DEF Settled, Contracted
    <2>3. QED
      BY <1>1, <2>1, <2>2 DEF SettledWell
  <1>8. \A i \in DOMAIN settlements' : Terms(settlements[i])'
    <2>1. ASSUME NEW i \in DOMAIN settlements
          PROVE  Terms(settlements[i])'
      <3>1. tasks'[settlements[i].task] = tasks[settlements[i].task]
        BY <1>4, <1>5
      <3>2. settlements'[i] = settlements[i] /\ bids' = bids
        BY <1>2 DEF Settle
      <3>3. Terms(settlements[i])
        BY <1>1 DEF SettledWell
      <3>4. QED
        BY <3>1, <3>2, <3>3 DEF Terms, Worth
    <2>2. ASSUME NEW n, n = Len(settlements) + 1
          PROVE  Terms(settlements[n])'
      <3>1. settlements'[n] = s /\ bids' = bids
        BY <1>2, <2>2 DEF Settle
      <3>2. QED
        BY <1>4, <3>1 DEF Terms, Worth
    <2>3. \A i \in DOMAIN settlements' : i \in DOMAIN settlements \/ i = Len(settlements) + 1
      BY <1>2
    <2>4. QED
      BY <2>1, <2>2, <2>3
  <1>9. SettledWell'
    BY <1>6, <1>7, <1>8 DEF SettledWell
  <1>10. QED
    BY <1>9, SettledParts, PTL

(* The records of complete_task and fail_task are such settlements.        *)
LEMMA SettleStep ==
  ASSUME MarketTypeOK, Know, NEW t \in Tasks, CompleteTask(t) \/ FailTask(t)
  PROVE  \E s \in Settlement, outcome \in {"completed", "failed"} :
           /\ Settle(t, s, outcome)
           /\ s.task = t /\ s.from = tasks[t].poster
           /\ s.to = bids[tasks[t].accepted].bidder /\ s.from # s.to
           /\ outcome = "completed" =>
                s.amount + s.fee = Worth(bids[tasks[t].accepted].amount)
           /\ outcome = "failed" => s.amount = 0
           /\ 0 <= s.amount /\ 0 <= s.fee
           /\ s.amount + s.fee <= Worth(tasks[t].bounty)
  <1> DEFINE b == tasks[t].accepted
  <1>1. tasks[t].status = "assigned" /\ tasks[t] \in Task
    BY InUse DEF CompleteTask, FailTask, Settle, TaskStatus
  <1>2. /\ b \in Bids /\ bids[b] \in Bid /\ bids[b].task = t
        /\ bids[b].bidder # tasks[t].poster /\ bids[b].amount <= tasks[t].bounty
    BY <1>1, InUse DEF Know, TasksKnowBids, BidsKnowTasks, TaskOf, Contracted, BidStatus, Absent
  <1>3. bids[b].amount \in Nat /\ tasks[t].bounty \in Nat
    BY <1>1, <1>2, MarketAssumption DEF Bid, Task, MarketAssumption
  <1>4. /\ Worth(bids[b].amount) \in Int /\ Fee(bids[b].amount) \in Int
        /\ Worth(tasks[t].bounty) \in Int /\ FailureFee(tasks[t].bounty) \in Int
    BY <1>3, FeeTypes
  <1>5. /\ 0 <= Fee(bids[b].amount) /\ Fee(bids[b].amount) <= Worth(bids[b].amount)
        /\ Worth(bids[b].amount) <= Worth(tasks[t].bounty)
        /\ 0 <= FailureFee(tasks[t].bounty)
        /\ FailureFee(tasks[t].bounty) <= Worth(tasks[t].bounty)
    BY <1>2, <1>3, FeeBounds
  <1>6. Payment(t) \in Settlement /\ Penalty(t) \in Settlement
    BY <1>1, PaymentType DEF Know
  <1>7. CASE CompleteTask(t)
    <2> USE <1>6
    <2> WITNESS Payment(t) \in Settlement, "completed" \in {"completed", "failed"}
    <2>1. Settle(t, Payment(t), "completed")
      BY <1>7 DEF CompleteTask
    <2>2. QED
      BY <2>1, <1>2, <1>4, <1>5 DEF Payment
  <1>8. CASE FailTask(t)
    <2> USE <1>6
    <2> WITNESS Penalty(t) \in Settlement, "failed" \in {"completed", "failed"}
    <2>1. Settle(t, Penalty(t), "failed")
      BY <1>8 DEF FailTask
    <2>2. QED
      BY <2>1, <1>2, <1>4, <1>5 DEF Penalty
  <1>9. QED
    BY <1>7, <1>8

-----------------------------------------------------------------------------
(* The inductive invariant.                                                *)

LEMMA InitInv == Init => IInv
  <1> SUFFICES ASSUME Init PROVE IInv
    OBVIOUS
  <1>1. \A t \in Tasks : tasks[t].status = "absent"
    BY DEF Init, Absent
  <1>2. DOMAIN settlements = {}
    BY DEF Init
  <1>3. SettledWell
    BY <1>1, <1>2 DEF SettledWell, Settled, Contracted
  <1>4. OneBidEach
    BY DEF Init, OneBidEach, Pending, Absent
  <1>5. BidsKnowTasks /\ TasksKnowBids
    BY <1>1 DEF Init, BidsKnowTasks, TasksKnowBids, Contracted
  <1>6. QED
    BY <1>3, <1>4, <1>5, InitType, SettledParts DEF IInv

LEMMA NextInv == IInv /\ [Next]_vars => IInv'
  <1> SUFFICES ASSUME IInv, [Next]_vars PROVE IInv'
    OBVIOUS
  <1> USE DEF IInv
  <1>1. MarketTypeOK /\ Know /\ SettledOnce
    BY DEF Know
  <1>2. MarketTypeOK'
    BY NextType
  <1>3. SUFFICES Know' /\ SettledOnce'
    BY <1>2 DEF Know
  <1>4. ASSUME NEW a \in Agents, NEW t \in Tasks, NEW bounty \in Bounties,
               PostTask(a, t, bounty)
        PROVE  Know' /\ SettledOnce'
    <2>1. \A u \in Tasks : u # t => tasks'[u] = tasks[u]
      BY <1>1, <1>4 DEF MarketTypeOK, PostTask
    <2>2. tasks[t].status = "absent" /\ tasks'[t].status = "open"
      BY <1>1, <1>4 DEF MarketTypeOK, PostTask, Absent
    <2>3. SettledOnce'
      BY <1>1, <1>4, <2>1, <2>2, SettledStands DEF PostTask, Settled, Contracted
    <2>4. QED
      BY <1>1, <1>4, <2>3, PostKnow
  <1>5. ASSUME NEW a \in Agents, NEW b \in Bids, NEW t \in Tasks, PlaceBid(a, b, t)
        PROVE  Know' /\ SettledOnce'
    <2>1. \A c \in Bids : bids[c] # Absent => bids'[c] = bids[c]
      BY <1>1, <1>5 DEF MarketTypeOK, PlaceBid
    <2>2. \A u \in Tasks : tasks[u].status \in Settled =>
            bids'[tasks[u].accepted] = bids[tasks[u].accepted]
      BY <1>1, <2>1 DEF Know, TasksKnowBids, Settled, Absent
    <2>3. SettledOnce'
      BY <1>1, <1>5, <2>2, SettledStands DEF PlaceBid
    <2>4. QED
      BY <1>1, <1>5, <2>3, PlaceKnow
  <1>6. ASSUME NEW a \in Agents, NEW t \in Tasks, CancelTask(a, t)
        PROVE  Know' /\ SettledOnce'
    <2>1. tasks' = [u \in Tasks |-> IF u \in {t} THEN [tasks[u] EXCEPT !.status = "cancelled"]
                                    ELSE tasks[u]]
      BY <1>1, <1>6 DEF MarketTypeOK, CancelTask
    <2>2. bids' = RejectBids(UNION {Pending(u) : u \in {t}})
      BY <1>6 DEF CancelTask
    <2>3. Know'
      BY <1>1, <1>6, <2>1, <2>2, CloseKnow DEF CancelTask
    <2>4. \A u \in Tasks : u # t => tasks'[u] = tasks[u]
      BY <2>1
    <2>5. tasks[t].status = "open" /\ tasks'[t].status = "cancelled"
      BY <1>1, <1>6, <2>1, InUse DEF CancelTask, Task, TaskStatus
    <2>6. \A u \in Tasks : tasks[u].status \in Settled =>
            bids'[tasks[u].accepted] = bids[tasks[u].accepted]
      BY <1>1, <2>2 DEF Know, TasksKnowBids, Settled, RejectBids, Pending
    <2>7. SettledOnce'
      BY <1>1, <1>6, <2>4, <2>5, <2>6, SettledStands DEF CancelTask, Settled, Contracted
    <2>8. QED
      BY <2>3, <2>7
  <1>7. ASSUME NEW b \in Bids, WithdrawBid(b)
        PROVE  Know' /\ SettledOnce'
    <2>1. \A u \in Tasks : tasks[u].status \in Settled =>
            bids'[tasks[u].accepted] = bids[tasks[u].accepted]
      BY <1>1, <1>7 DEF MarketTypeOK, Know, TasksKnowBids, Settled, WithdrawBid
    <2>2. SettledOnce'
      BY <1>1, <1>7, <2>1, SettledStands DEF WithdrawBid
    <2>3. QED
      BY <1>1, <1>7, <2>2, WithdrawKnow
  <1>8. ASSUME NEW t \in Tasks, NEW b \in Bids, AcceptBid(t, b)
        PROVE  Know' /\ SettledOnce'
    <2>1. \A u \in Tasks : u # t => tasks'[u] = tasks[u]
      BY <1>1, <1>8 DEF MarketTypeOK, AcceptBid
    <2>2. tasks[t].status = "open" /\ tasks'[t].status = "assigned"
      BY <1>1, <1>8, InUse DEF MarketTypeOK, AcceptBid, Task, TaskStatus
    <2>3. \A c \in Bids : c \notin Pending(t) => bids'[c] = bids[c]
      BY <1>1, <1>8 DEF MarketTypeOK, AcceptBid, RejectBids
    <2>4. \A u \in Tasks : tasks[u].status \in Settled =>
            bids'[tasks[u].accepted] = bids[tasks[u].accepted]
      BY <1>1, <2>3 DEF Know, TasksKnowBids, Settled, Pending
    <2>5. SettledOnce'
      BY <1>1, <1>8, <2>1, <2>2, <2>4, SettledStands DEF AcceptBid, Settled, Contracted
    <2>6. QED
      BY <1>1, <1>8, <2>5, AcceptKnow
  <1>9. ASSUME NEW t \in Tasks, CompleteTask(t) \/ FailTask(t)
        PROVE  Know' /\ SettledOnce'
    <2>1. PICK s \in Settlement, outcome \in {"completed", "failed"} :
            /\ Settle(t, s, outcome)
            /\ s.task = t /\ s.from = tasks[t].poster
            /\ s.to = bids[tasks[t].accepted].bidder /\ s.from # s.to
            /\ outcome = "completed" =>
                 s.amount + s.fee = Worth(bids[tasks[t].accepted].amount)
            /\ outcome = "failed" => s.amount = 0
            /\ 0 <= s.amount /\ 0 <= s.fee
            /\ s.amount + s.fee <= Worth(tasks[t].bounty)
      BY <1>1, <1>9, SettleStep
    <2>2. SettledOnce'
      BY <1>1, <2>1, SettleSettles
    <2>3. Know'
      BY <1>1, <2>1, ContractedKnow DEF Settle, Contracted
    <2>4. QED
      BY <2>2, <2>3
  <1>10. ASSUME NEW t \in Tasks, DisputeTask(t)
         PROVE  Know' /\ SettledOnce'
    <2>1. Know'
      BY <1>1, <1>10, ContractedKnow DEF DisputeTask, Closed, Contracted
    <2>2. \A u \in Tasks : u # t => tasks'[u] = tasks[u]
      BY <1>1, <1>10 DEF MarketTypeOK, DisputeTask
    <2>3. /\ tasks[t].status \in Settled /\ tasks'[t].status = "disputed"
          /\ tasks'[t].poster = tasks[t].poster /\ tasks'[t].bounty = tasks[t].bounty
          /\ tasks'[t].accepted = tasks[t].accepted
      BY <1>1, <1>10, InUse
      DEF MarketTypeOK, DisputeTask, Task, TaskStatus, Settled, Contracted
    <2>4. SettledOnce'
      BY <1>1, <1>10, <2>2, <2>3, SettledStands DEF DisputeTask, Settled, Contracted
    <2>5. QED
      BY <2>1, <2>4
  <1>11. ASSUME ExpireTasks
         PROVE  Know' /\ SettledOnce'
    <2> DEFINE late == {t \in overdue : tasks[t].status = "open"}
    <2>1. late \in SUBSET Tasks /\ \A t \in late : tasks[t].status = "open"
      BY <1>1 DEF MarketTypeOK
    <2>2. /\ tasks' = [t \in Tasks |-> IF t \in late
                                       THEN [tasks[t] EXCEPT !.status = "expired"]
                                       ELSE tasks[t]]
          /\ bids' = RejectBids(UNION {Pending(t) : t \in late})
          /\ settlements' = settlements
      BY <1>11 DEF ExpireTasks
    <2> HIDE DEF late
    <2>3. Know'
      BY <1>1, <2>1, <2>2, CloseKnow
    <2>4. \A u \in Tasks : u \notin late => tasks'[u] = tasks[u]
      BY <2>2
    <2>5. \A t \in late : tasks'[t].status = "expired"
      BY <1>1, <2>1, <2>2, InUse DEF Task, TaskStatus
    <2>6. \A u \in Tasks : tasks[u].status \in Settled =>
            bids'[tasks[u].accepted] = bids[tasks[u].accepted]
      BY <1>1, <2>2 DEF Know, TasksKnowBids, Settled, RejectBids, Pending
    <2>7. SettledOnce'
      BY <1>1, <2>1, <2>2, <2>4, <2>5, <2>6, SettledStands DEF Settled, Contracted
    <2>8. QED
      BY <2>3, <2>7
  <1>12. ASSUME UNCHANGED <<tasks, bids, settlements>>
         PROVE  Know' /\ SettledOnce'
    BY <1>1, <1>12, UntouchedKnow, SettledStands
  <1>13. ASSUME NEW t \in Tasks, DeadlinePasses(t)
         PROVE  Know' /\ SettledOnce'
    BY <1>12, <1>13 DEF DeadlinePasses
  <1>14. ASSUME NEW a \in Agents, NEW o \in Outcomes, Outcome(a, o[1], o[2], o[3])
         PROVE  Know' /\ SettledOnce'
    BY <1>12, <1>14 DEF Outcome
  <1>15. CASE UNCHANGED vars
    BY <1>12, <1>15 DEF vars
  <1>16. QED
    BY <1>4, <1>5, <1>6, <1>7, <1>8, <1>9, <1>10, <1>11, <1>13, <1>14, <1>15 DEF Next

(* Whatever the fee rate and the outcomes brought from outside, the market *)
(* engine's tasks, bids and settlements agree with each other.             *)
THEOREM Inductive == Spec => []IInv
  BY InitInv, NextInv, PTL DEF Spec

(* The variables of the market keep their types.                           *)
THEOREM TypeCorrect == Spec => []MarketTypeOK
  <1>1. IInv => MarketTypeOK
    BY DEF IInv
  <1>2. QED
    BY <1>1, Inductive, PTL

(* A task has one contract from its assignment on, and none without.       *)
THEOREM OneContractHolds == Spec => []OneContract
  <1>1. IInv => OneContract
    <2> SUFFICES ASSUME IInv, NEW t \in Posted
                 PROVE  /\ Accepted(t) = IF tasks[t].status \in Contracted
                                         THEN {tasks[t].accepted} ELSE {}
                        /\ tasks[t].status # "open" => Pending(t) = {}
                        /\ \A b, c \in Pending(t) :
                             bids[b].bidder = bids[c].bidder => b = c
                        /\ \A b \in Bids : bids[b] # Absent /\ bids[b].task = t =>
                             /\ bids[b].bidder # tasks[t].poster
                             /\ bids[b].amount <= tasks[t].bounty
      BY DEF OneContract
    <2>1. t \in Tasks /\ BidsKnowTasks /\ OneBidEach /\ TasksKnowBids
      BY DEF IInv, Posted
    <2>2. \A b \in Bids : bids[b].status \in {"accepted", "pending"} => bids[b] # Absent
      BY DEF Absent
    <2>3. Accepted(t) \subseteq IF tasks[t].status \in Contracted
                               THEN {tasks[t].accepted} ELSE {}
      BY <2>1, <2>2 DEF Accepted, BidsKnowTasks, TaskOf
    <2>4. tasks[t].status \in Contracted => tasks[t].accepted \in Accepted(t)
      BY <2>1 DEF Accepted, TasksKnowBids
    <2>5. tasks[t].status # "open" => Pending(t) = {}
      BY <2>1, <2>2 DEF Pending, BidsKnowTasks, TaskOf
    <2>6. QED
      BY <2>1, <2>3, <2>4, <2>5 DEF BidsKnowTasks, TaskOf, OneBidEach
  <1>2. QED
    BY <1>1, Inductive, PTL

(* A contract is settled exactly once and as agreed.                       *)
THEOREM SettledOnceHolds == Spec => []SettledOnce
  <1>1. IInv => SettledOnce
    BY DEF IInv
  <1>2. QED
    BY <1>1, Inductive, PTL

-----------------------------------------------------------------------------
(* Credits.                                                                *)

LEMMA SettleConserves ==
  ASSUME MarketTypeOK, NEW t \in Tasks, NEW s \in Settlement, NEW outcome,
         Settle(t, s, outcome), s.from # s.to, 0 <= s.amount, 0 <= s.fee
  PROVE  /\ settlements' # settlements
         /\ \E p, w \in Agents :
              /\ p # w
              /\ credits'[p] + credits'[w] + commons' = credits[p] + credits[w] + commons
              /\ credits'[w] >= credits[w] /\ commons' >= commons
              /\ \A a \in Agents \ {p, w} : credits'[a] = credits[a]
  <1>1. Len(settlements') = Len(settlements) + 1 /\ Len(settlements) \in Nat
    BY DEF MarketTypeOK, Settle
  <1>2. s.from \in Agents /\ s.to \in Agents /\ s.amount \in Int /\ s.fee \in Int
    BY DEF Settlement
  <1>3. /\ credits'[s.from] = credits[s.from] - (s.amount + s.fee)
        /\ credits'[s.to] = credits[s.to] + s.amount
        /\ \A a \in Agents \ {s.from, s.to} : credits'[a] = credits[a]
    BY TransferEffect DEF Settle
  <1>4. commons' = commons + s.fee
    BY DEF Settle
  <1>5. credits[s.from] \in Int /\ credits[s.to] \in Int /\ commons \in Int
    BY <1>2 DEF MarketTypeOK
  <1>6. /\ credits'[s.from] + credits'[s.to] + commons' =
             credits[s.from] + credits[s.to] + commons
        /\ credits'[s.to] >= credits[s.to] /\ commons' >= commons
    BY <1>2, <1>3, <1>4, <1>5
  <1>7. settlements' # settlements
    BY <1>1
  <1>8. QED
    BY <1>2, <1>3, <1>6, <1>7

(* The market neither makes nor loses credits.                             *)
THEOREM ConservedHolds == Spec => Conserved
  <1> DEFINE Moved ==
        \E p, w \in Agents :
          /\ p # w
          /\ credits'[p] + credits'[w] + commons' = credits[p] + credits[w] + commons
          /\ credits'[w] >= credits[w] /\ commons' >= commons
          /\ \A a \in Agents \ {p, w} : credits'[a] = credits[a]
      Kept ==
        /\ commons' = commons
        /\ \A a \in Agents :
             (credits'[a] - credits[a]) - (booked'[a] - booked[a]) = drift'[a] - drift[a]
  <1>1. IInv /\ [Next]_vars => IF settlements' # settlements THEN Moved ELSE Kept
    <2> SUFFICES ASSUME IInv, [Next]_vars
                 PROVE  IF settlements' # settlements THEN Moved ELSE Kept
      OBVIOUS
    <2>1. MarketTypeOK /\ Know
      BY DEF IInv, Know
    <2>2. ASSUME NEW t \in Tasks, CompleteTask(t) \/ FailTask(t)
          PROVE  settlements' # settlements /\ Moved
      <3>1. PICK s \in Settlement, outcome \in {"completed", "failed"} :
              Settle(t, s, outcome) /\ s.from # s.to /\ 0 <= s.amount /\ 0 <= s.fee
        BY <2>1, <2>2, SettleStep
      <3>2. QED
        BY <2>1, <3>1, SettleConserves
    <2>3. ASSUME UNCHANGED <<settlements, books>>
          PROVE  settlements' = settlements /\ Kept
      BY <2>1, <2>3 DEF MarketTypeOK
    <2>4. ASSUME NEW a \in Agents, NEW o \in Outcomes, Outcome(a, o[1], o[2], o[3])
          PROVE  settlements' = settlements /\ Kept
      <3>1. o[1] \in Int /\ o[2] \in Int /\ o[3] \in 0..MaxAuthority
        BY OutcomeParts
      <3>2. /\ UNCHANGED <<settlements, commons>>
            /\ \A c \in Agents :
                 /\ credits'[c] = credits[c] + IF c = a THEN o[1] ELSE 0
                 /\ booked'[c] = booked[c] + IF c = a THEN o[2] ELSE 0
                 /\ drift'[c] = drift[c] + IF c = a THEN o[1] - o[2] ELSE 0
        BY <2>1, <2>4, <3>1, OutcomeEffect
      <3>3. \A c \in Agents : credits[c] \in Int /\ booked[c] \in Int /\ drift[c] \in Int
        BY <2>1 DEF MarketTypeOK
      <3>4. \A c \in Agents :
              (credits'[c] - credits[c]) - (booked'[c] - booked[c]) = drift'[c] - drift[c]
        BY <3>1, <3>2, <3>3
      <3>5. QED
        BY <3>2, <3>4
    <2>5. ASSUME NEW a \in Agents, NEW t \in Tasks, NEW bounty \in Bounties,
                 PostTask(a, t, bounty)
          PROVE  settlements' = settlements /\ Kept
      BY <2>3, <2>5 DEF PostTask
    <2>6. ASSUME NEW a \in Agents, NEW b \in Bids, NEW t \in Tasks, PlaceBid(a, b, t)
          PROVE  settlements' = settlements /\ Kept
      BY <2>3, <2>6 DEF PlaceBid
    <2>7. ASSUME NEW a \in Agents, NEW t \in Tasks, CancelTask(a, t)
          PROVE  settlements' = settlements /\ Kept
      BY <2>3, <2>7 DEF CancelTask
    <2>8. ASSUME NEW b \in Bids, WithdrawBid(b)
          PROVE  settlements' = settlements /\ Kept
      BY <2>3, <2>8 DEF WithdrawBid
    <2>9. ASSUME NEW t \in Tasks, NEW b \in Bids, AcceptBid(t, b)
          PROVE  settlements' = settlements /\ Kept
      BY <2>3, <2>9 DEF AcceptBid
    <2>10. ASSUME NEW t \in Tasks, DisputeTask(t) \/ DeadlinePasses(t)
           PROVE  settlements' = settlements /\ Kept
      BY <2>3, <2>10 DEF DisputeTask, DeadlinePasses
    <2>11. ASSUME ExpireTasks
           PROVE  settlements' = settlements /\ Kept
      BY <2>3, <2>11 DEF ExpireTasks
    <2>12. CASE UNCHANGED vars
      BY <2>3, <2>12 DEF vars
    <2> HIDE DEF Moved, Kept
    <2>13. QED
      BY <2>2, <2>4, <2>5, <2>6, <2>7, <2>8, <2>9, <2>10, <2>11, <2>12 DEF Next
  <1>2. IInv /\ [Next]_vars =>
          [IF settlements' # settlements THEN Moved ELSE Kept]_vars
    BY <1>1
  <1>3. QED
    BY <1>2, Inductive, PTL DEF Spec, Conserved

-----------------------------------------------------------------------------
(* What the ledger knows.                                                  *)

(* A settlement adds what it took from the poster to what the poster paid. *)
LEMMA PaidSettled ==
  ASSUME settlements \in Seq(Settlement), NEW s \in Settlement,
         settlements' = Append(settlements, s), NEW a \in Agents
  PROVE  /\ Paid(a) \in Int
         /\ Paid(a)' = Paid(a) + IF s.from = a THEN s.amount + s.fee ELSE 0
  <1> DEFINE n == Len(settlements)
             own == {i \in DOMAIN settlements : settlements[i].from = a}
             f == [i \in own |-> settlements[i].amount + settlements[i].fee]
             new == {i \in DOMAIN settlements' : settlements'[i].from = a}
             g == [i \in new |-> settlements'[i].amount + settlements'[i].fee]
  <1>1. /\ n \in Nat /\ DOMAIN settlements = 1..n /\ DOMAIN settlements' = 1..(n + 1)
        /\ settlements'[n + 1] = s
        /\ \A i \in 1..n : settlements'[i] = settlements[i]
    OBVIOUS
  <1>2. /\ s.amount + s.fee \in Int
        /\ \A i \in 1..n : settlements[i].amount + settlements[i].fee \in Int
    <2>1. \A i \in 1..n : settlements[i] \in Settlement
      BY <1>1
    <2>2. QED
      BY <2>1 DEF Settlement
  <1>3. /\ own \subseteq 1..n
        /\ new = IF s.from = a THEN own \cup {n + 1} ELSE own
        /\ \A i \in own : f[i] \in Int /\ g[i] = f[i]
        /\ s.from = a => g[n + 1] = s.amount + s.fee
    <2>1. ASSUME NEW i
          PROVE  i \in new <=> i \in own \/ (i = n + 1 /\ s.from = a)
      BY <1>1
    <2>2. \A i \in own : /\ i \in new /\ settlements'[i] = settlements[i]
                         /\ settlements[i].amount + settlements[i].fee \in Int
      BY <1>1, <1>2, <2>1
    <2>3. QED
      BY <1>1, <2>1, <2>2
  <1>4. Paid(a) = SumFunctionOnSet(f, own) /\ Paid(a)' = SumFunctionOnSet(g, new)
    BY DEF Paid
  <1>5. IsFiniteSet(own)
    <2>1. IsFiniteSet(1..n)
      BY <1>1, FS_Interval
    <2>2. QED
      BY <1>3, <2>1, FS_Subset
  <1>6. n + 1 \notin own /\ (n + 1 \in new <=> s.from = a)
    BY <1>1, <1>3
  <1> HIDE DEF n, own, f, new, g
  <1>7. SumFunctionOnSet(g, own) = SumFunctionOnSet(f, own)
    BY <1>3, <1>5, SumSame
  <1>8. SumFunctionOnSet(f, own) \in Int
    BY <1>3, <1>5, SumInt
  <1>9. CASE s.from = a
    <2>1. \A i \in own \cup {n + 1} : g[i] \in Int
      BY <1>2, <1>3, <1>9
    <2>2. SumFunctionOnSet(g, own \cup {n + 1}) = g[n + 1] + SumFunctionOnSet(g, own)
      BY <1>5, <1>6, <2>1, SumAddElement
    <2>3. QED
      BY <1>2, <1>3, <1>4, <1>7, <1>8, <1>9, <2>2
  <1>10. CASE s.from # a
    BY <1>2, <1>3, <1>4, <1>7, <1>8, <1>10
  <1>11. QED
    BY <1>9, <1>10

LEMMA PaidType ==
  ASSUME settlements \in Seq(Settlement), NEW a \in Agents
  PROVE  Paid(a) \in Int
  <1> DEFINE own == {i \in DOMAIN settlements : settlements[i].from = a}
             f == [i \in own |-> settlements[i].amount + settlements[i].fee]
  <1>1. IsFiniteSet(own)
    <2>1. IsFiniteSet(1..Len(settlements)) /\ own \subseteq 1..Len(settlements)
      BY FS_Interval
    <2>2. QED
      BY <2>1, FS_Subset
  <1>2. \A i \in own : f[i] \in Int
    <2>1. \A i \in own : settlements[i] \in Settlement
      OBVIOUS
    <2>2. QED
      BY <2>1 DEF Settlement
  <1> HIDE DEF own, f
  <1>3. SumFunctionOnSet(f, own) \in Int
    BY <1>1, <1>2, SumInt
  <1>4. QED
    BY <1>3 DEF Paid, own, f

LEMMA InitGap == Init => LedgerGap
  <1> SUFFICES ASSUME Init, NEW a \in Agents
               PROVE  Start + booked[a] + drift[a] = credits[a] + Paid(a)
    BY DEF LedgerGap
  <1>1. {i \in DOMAIN settlements : settlements[i].from = a} = {}
    BY DEF Init
  <1>2. Paid(a) = 0
    BY <1>1, SumEmpty DEF Paid
  <1>3. QED
    BY <1>2, MarketAssumption DEF Init, MarketAssumption

LEMMA NextGap == IInv /\ LedgerGap /\ [Next]_vars => LedgerGap'
  <1> SUFFICES ASSUME IInv, LedgerGap, [Next]_vars PROVE LedgerGap'
    OBVIOUS
  <1>1. MarketTypeOK /\ Know
    BY DEF IInv, Know
  <1>2. ASSUME NEW t \in Tasks, CompleteTask(t) \/ FailTask(t) PROVE LedgerGap'
    <2>1. PICK s \in Settlement, outcome \in {"completed", "failed"} :
            Settle(t, s, outcome) /\ s.from # s.to /\ 0 <= s.amount /\ 0 <= s.fee
      BY <1>1, <1>2, SettleStep
    <2>2. s.from \in Agents /\ s.to \in Agents /\ s.amount \in Int /\ s.fee \in Int
      BY DEF Settlement
    <2> SUFFICES ASSUME NEW a \in Agents
                 PROVE  Start + booked'[a] + drift'[a] = credits'[a] + Paid(a)'
      BY DEF LedgerGap
    <2>3. /\ Paid(a) \in Int
          /\ Paid(a)' = Paid(a) + IF s.from = a THEN s.amount + s.fee ELSE 0
      BY <1>1, <2>1, PaidSettled DEF MarketTypeOK, Settle
    <2>4. credits'[a] = IF a = s.from THEN credits[a] - (s.amount + s.fee)
                        ELSE IF a = s.to THEN credits[a] + s.amount ELSE credits[a]
      BY <1>1, <2>1, <2>2, TransferEffect DEF Settle
    <2>5. booked'[a] = booked[a] + IF a = s.to THEN s.amount ELSE 0
      <3>1. booked' = [booked EXCEPT ![s.to] = @ + s.amount]
        BY <2>1 DEF Settle, Booked
      <3>2. booked \in [Agents -> Int]
        BY <1>1 DEF MarketTypeOK
      <3>3. QED
        BY <2>2, <3>1, <3>2
    <2>6. /\ credits[a] \in Int /\ booked[a] \in Int /\ Start \in Int
          /\ drift[a] \in Int /\ drift'[a] = drift[a]
          /\ Start + booked[a] + drift[a] = credits[a] + Paid(a)
      BY <1>1, <2>1, MarketAssumption DEF MarketTypeOK, MarketAssumption, LedgerGap, Settle
    <2>7. QED
      BY <2>1, <2>2, <2>3, <2>4, <2>5, <2>6
  <1>3. ASSUME NEW a \in Agents, NEW o \in Outcomes, Outcome(a, o[1], o[2], o[3])
        PROVE  LedgerGap'
    <2>1. o[1] \in Int /\ o[2] \in Int /\ o[3] \in 0..MaxAuthority
      BY OutcomeParts
    <2>2. \A c \in Agents : Paid(c)' = Paid(c)
      BY <1>3, Zenon DEF Outcome, Paid
    <2>3. \A c \in Agents :
            /\ credits'[c] = credits[c] + IF c = a THEN o[1] ELSE 0
            /\ booked'[c] = booked[c] + IF c = a THEN o[2] ELSE 0
            /\ drift'[c] = drift[c] + IF c = a THEN o[1] - o[2] ELSE 0
      BY <1>1, <1>3, <2>1, OutcomeEffect
    <2>4. \A c \in Agents : Paid(c) \in Int
      BY <1>1, PaidType DEF MarketTypeOK
    <2>5. /\ Start \in Int
          /\ \A c \in Agents : credits[c] \in Int /\ booked[c] \in Int /\ drift[c] \in Int
      BY <1>1, MarketAssumption DEF MarketTypeOK, MarketAssumption
    <2>6. \A c \in Agents : Start + booked'[c] + drift'[c] = credits'[c] + Paid(c)
      BY <2>1, <2>3, <2>4, <2>5 DEF LedgerGap
    <2>7. QED
      BY <2>2, <2>6 DEF LedgerGap
  <1>4. ASSUME UNCHANGED <<settlements, books>> PROVE LedgerGap'
    BY <1>4 DEF LedgerGap, Paid
  <1>5. ASSUME NEW a \in Agents, NEW t \in Tasks, NEW bounty \in Bounties,
               PostTask(a, t, bounty)
        PROVE  LedgerGap'
    BY <1>4, <1>5 DEF PostTask
  <1>6. ASSUME NEW a \in Agents, NEW b \in Bids, NEW t \in Tasks, PlaceBid(a, b, t)
        PROVE  LedgerGap'
    BY <1>4, <1>6 DEF PlaceBid
  <1>7. ASSUME NEW a \in Agents, NEW t \in Tasks, CancelTask(a, t) PROVE LedgerGap'
    BY <1>4, <1>7 DEF CancelTask
  <1>8. ASSUME NEW b \in Bids, WithdrawBid(b) PROVE LedgerGap'
    BY <1>4, <1>8 DEF WithdrawBid
  <1>9. ASSUME NEW t \in Tasks, NEW b \in Bids, AcceptBid(t, b) PROVE LedgerGap'
    BY <1>4, <1>9 DEF AcceptBid
  <1>10. ASSUME NEW t \in Tasks, DisputeTask(t) \/ DeadlinePasses(t) PROVE LedgerGap'
    BY <1>4, <1>10 DEF DisputeTask, DeadlinePasses
  <1>11. ASSUME ExpireTasks PROVE LedgerGap'
    BY <1>4, <1>11 DEF ExpireTasks
  <1>12. CASE UNCHANGED vars
    BY <1>4, <1>12 DEF vars
  <1>13. QED
    BY <1>2, <1>3, <1>5, <1>6, <1>7, <1>8, <1>9, <1>10, <1>11, <1>12 DEF Next

(* Beside what other parts leave unbooked, the ledger's balance of an      *)
(* agent is off by exactly what the agent paid for tasks.                  *)
THEOREM LedgerGapHolds == Spec => []LedgerGap
  <1>1. LedgerGap /\ IInv /\ [Next]_vars => LedgerGap'
    BY NextGap
  <1>2. QED
    BY <1>1, InitGap, Inductive, PTL DEF Spec
=============================================================================
