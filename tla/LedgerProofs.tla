---------------------------- MODULE LedgerProofs ----------------------------
(* Theorems of module Ledger, for any number of threads, agents, entries.  *)
EXTENDS Ledger, SumTheorems

(* Pushing an entry leaves the others where they are.                      *)
LEMMA AppendEntry ==
  ASSUME NEW s \in Seq(Entry), NEW e \in Entry
  PROVE  /\ Append(s, e) \in Seq(Entry)
         /\ DOMAIN Append(s, e) = 1..(Len(s) + 1)
         /\ DOMAIN s = 1..Len(s)
         /\ Len(s) \in Nat
         /\ Append(s, e)[Len(s) + 1] = e
         /\ \A i \in 1..Len(s) : Append(s, e)[i] = s[i]
  OBVIOUS

LEMMA LastHashType == entries \in Seq(Entry) => LastHash \in Ids \cup {Genesis}
<1> SUFFICES ASSUME entries \in Seq(Entry), entries # << >>
             PROVE  entries[Len(entries)].id \in Ids
  BY DEF LastHash
<1>1. Len(entries) \in 1..Len(entries)
  OBVIOUS
<1>2. entries[Len(entries)] \in Entry
  BY <1>1
<1> QED BY <1>2 DEF Entry

-----------------------------------------------------------------------------
(* Type correctness.                                                       *)

LEMMA InitType == LedgerInit => LedgerTypeOK
<1>1. << >> \in Seq(Entry)
  OBVIOUS
<1> QED BY <1>1 DEF LedgerInit, LedgerTypeOK, Pc

LEMMA NextType == LedgerTypeOK /\ [LedgerNext]_ledgerVars => LedgerTypeOK'
<1> SUFFICES ASSUME LedgerTypeOK, [LedgerNext]_ledgerVars PROVE LedgerTypeOK'
  OBVIOUS
<1> USE DEF LedgerTypeOK, Pc
<1>1. ASSUME NEW t \in Threads, NEW i \in Ids, NEW a \in Agents, NEW d \in Deltas,
             Seal(t, i, a, d)
      PROVE  LedgerTypeOK'
  <2>1. [id |-> i, agent |-> a, delta |-> d, prev |-> LastHash] \in Entry
    BY LastHashType DEF Entry
  <2> QED BY <1>1, <2>1 DEF Seal
<1>2. ASSUME NEW t \in Threads, Push(t) PROVE LedgerTypeOK'
  <2>1. entries' \in Seq(Entry)
    BY <1>2, AppendEntry DEF Push
  <2> QED BY <1>2, <2>1 DEF Push
<1>3. ASSUME NEW t \in Threads, ReadBalance(t) PROVE LedgerTypeOK'
  BY <1>3 DEF ReadBalance, Entry
<1>4. ASSUME NEW t \in Threads, WriteBalance(t) PROVE LedgerTypeOK'
  <2>1. read[t] + local[t].delta \in Int /\ local[t].agent \in Agents
    <3>1. local[t] \in Entry /\ read[t] \in Int
      BY <1>4 DEF WriteBalance
    <3>2. local[t].delta \in Int /\ local[t].agent \in Agents
      BY <3>1, LedgerAssumption DEF Entry
    <3> QED BY <3>1, <3>2
  <2> QED BY <1>4, <2>1 DEF WriteBalance
<1>5. UNCHANGED ledgerVars => LedgerTypeOK'
  BY DEF ledgerVars
<1> QED BY <1>1, <1>2, <1>3, <1>4, <1>5 DEF LedgerNext

(* Entries, balances and the threads' local entries are well formed under  *)
(* every interleaving.                                                     *)
THEOREM TypeCorrect == LedgerSpec => []LedgerTypeOK
  BY InitType, NextType, PTL DEF LedgerSpec

-----------------------------------------------------------------------------
(* The inductive invariant.                                                *)

(* An identifier names one entry, in the ledger or about to be.            *)
IdsOnce ==
  /\ \A i \in DOMAIN entries : entries[i].id \in used
  /\ \A i, j \in DOMAIN entries : entries[i].id = entries[j].id => i = j
  /\ \A t \in Threads : pc[t] = "sealed" =>
       local[t].id \in used /\ \A i \in DOMAIN entries : entries[i].id # local[t].id
  /\ \A t, u \in Threads :
       pc[t] = "sealed" /\ pc[u] = "sealed" /\ local[t].id = local[u].id => t = u

(* While calls do not overlap, one thread at most is inside append, and    *)
(* the entry it sealed is built on the last one.                           *)
SerialCalls ==
  alone => /\ \A t, u \in Threads : pc[t] # "idle" /\ pc[u] # "idle" => t = u
           /\ \A t \in Threads : pc[t] = "sealed" => local[t].prev = LastHash

(* And the balance it has read is still the agent's.                       *)
SerialReads ==
  alone => \A t \in Threads : pc[t] = "read" => read[t] = balances[local[t].agent]

IInv == LedgerTypeOK /\ IdsOnce /\ Rooted /\ ForkIsSeen /\ SerialCalls /\ SerialChain

BalancesInv == SerialReads /\ SerialBalances

LEMMA InitInv == LedgerInit => IInv
  BY InitType DEF LedgerInit, IInv, IdsOnce, Rooted, ForkIsSeen, SerialCalls, SerialChain,
     VerifyChain, Link

(* Sealing an entry changes what is about to be pushed.                    *)
LEMMA SealInv ==
  ASSUME IInv, NEW t \in Threads, NEW i \in Ids, NEW a \in Agents, NEW d \in Deltas,
         Seal(t, i, a, d)
  PROVE  IdsOnce' /\ Rooted' /\ ForkIsSeen' /\ SerialCalls' /\ SerialChain'
<1> DEFINE e == [id |-> i, agent |-> a, delta |-> d, prev |-> LastHash]
<1>1. /\ UNCHANGED entries /\ i \notin used /\ used' = used \cup {i}
      /\ pc[t] = "idle"
      /\ \A u \in Threads : pc'[u] = IF u = t THEN "sealed" ELSE pc[u]
      /\ \A u \in Threads : local'[u] = IF u = t THEN e ELSE local[u]
      /\ alone' = (alone /\ NoneInside)
  BY DEF Seal, IInv, LedgerTypeOK
<1>2. e.id = i /\ e.prev = LastHash
  OBVIOUS
<1>3. UNCHANGED LastHash
  BY <1>1 DEF LastHash
<1> HIDE DEF e
<1> USE DEF IInv
<1>4. IdsOnce'
  BY <1>1, <1>2 DEF IdsOnce
<1>5. Rooted'
  <2>1. LastHash = Genesis \/ \E j \in DOMAIN entries : entries[j].id = LastHash
    <3>1. entries # << >> => Len(entries) \in DOMAIN entries
      BY DEF LedgerTypeOK
    <3> QED BY <3>1 DEF LastHash
  <2> QED BY <1>1, <1>2, <2>1 DEF Rooted
<1>6. ForkIsSeen'
  BY <1>1 DEF ForkIsSeen, VerifyChain, Link
<1>7. SerialChain'
  BY <1>1, Zenon DEF SerialChain, VerifyChain, Link
<1>8. SerialCalls'
  BY <1>1, <1>2, <1>3 DEF SerialCalls, NoneInside
<1> QED BY <1>4, <1>5, <1>6, <1>7, <1>8

(* Pushing an entry: the only step that can fork the ledger.               *)
LEMMA PushInv ==
  ASSUME IInv, NEW t \in Threads, Push(t)
  PROVE  IdsOnce' /\ Rooted' /\ ForkIsSeen' /\ SerialCalls' /\ SerialChain'
<1> DEFINE n == Len(entries)
           e == local[t]
<1>1. /\ entries \in Seq(Entry) /\ e \in Entry /\ pc[t] = "sealed"
      /\ entries' = Append(entries, e)
      /\ \A u \in Threads : pc'[u] = IF u = t THEN "pushed" ELSE pc[u]
      /\ UNCHANGED <<used, local, alone>>
  BY DEF Push, IInv, LedgerTypeOK
<1>2. /\ n \in Nat /\ DOMAIN entries = 1..n /\ DOMAIN entries' = 1..(n + 1)
      /\ entries'[n + 1] = e
      /\ \A i \in 1..n : entries'[i] = entries[i]
  BY <1>1, AppendEntry
<1>3. /\ e.id \in used /\ e.id \in Ids
      /\ \A i \in 1..n : entries[i].id # e.id
      /\ e.prev = Genesis \/ \E j \in 1..n : entries[j].id = e.prev
  BY <1>1, <1>2 DEF IInv, IdsOnce, Rooted, Entry
<1>4. \A i \in 1..n : entries[i].id \in Ids
  <2> TAKE i \in 1..n
  <2>1. entries[i] \in Entry
    BY <1>1, <1>2
  <2> QED BY <2>1 DEF Entry
<1>5. /\ \A i, j \in 1..n : entries[i].id = entries[j].id => i = j
      /\ \A i \in 1..n : \/ entries[i].prev = Genesis
                         \/ \E j \in 1..(i - 1) : entries[j].id = entries[i].prev
  BY <1>2 DEF IInv, IdsOnce, Rooted
<1> HIDE DEF n, e
<1>6. IdsOnce'
  BY <1>1, <1>2, <1>3 DEF IInv, IdsOnce, e
<1>7. Rooted'
  <2>1. \A i \in 1..(n + 1) :
          \/ entries'[i].prev = Genesis
          \/ \E j \in 1..(i - 1) : entries'[j].id = entries'[i].prev
    <3> TAKE i \in 1..(n + 1)
    <3>1. CASE i = n + 1
      BY <1>2, <1>3, <3>1
    <3>2. CASE i \in 1..n
      BY <1>2, <1>5, <3>2
    <3> QED BY <1>2, <3>1, <3>2
  <2>2. \A u \in Threads : pc'[u] = "sealed" =>
          \/ local'[u].prev = Genesis
          \/ \E j \in 1..(n + 1) : entries'[j].id = local'[u].prev
    BY <1>1, <1>2 DEF IInv, Rooted
  <2> QED BY <1>2, <2>1, <2>2 DEF Rooted
<1>8. VerifyChain' <=> VerifyChain /\ e.prev = LastHash
  <2>1. LastHash = IF n = 0 THEN Genesis ELSE entries[n].id
    BY <1>1, <1>2 DEF LastHash, n
  <2>2. \A i \in 1..n : Link(i)' <=> Link(i)
    BY <1>2 DEF Link
  <2>3. ASSUME NEW k \in Nat, k = n + 1
        PROVE  Link(k)' <=> e.prev = LastHash
    BY <1>2, <2>1, <2>3 DEF Link
  <2>4. VerifyChain' <=> \A k \in 1..(n + 1) : Link(k)'
    BY <1>2 DEF VerifyChain
  <2>5. VerifyChain <=> \A k \in 1..n : Link(k)
    BY <1>2 DEF VerifyChain
  <2>6. \A k \in 1..(n + 1) : k \in 1..n \/ k = n + 1
    BY <1>2
  <2>7. \E k \in 1..(n + 1) : k = n + 1
    BY <1>2
  <2>8. \A k \in 1..n : k \in 1..(n + 1)
    BY <1>2
  <2> QED BY <1>2, <2>2, <2>3, <2>4, <2>5, <2>6, <2>7, <2>8
<1>9. ForkIsSeen'
  <2> DEFINE NoFork == \A i, j \in 1..n : entries[i].prev = entries[j].prev => i = j
             Fresh == \A i \in 1..n : entries[i].prev # e.prev
  <2>1. VerifyChain <=> NoFork
    BY <1>2 DEF IInv, ForkIsSeen
  <2>2. ForkIsSeen' <=> (VerifyChain' <=> NoFork /\ Fresh)
    BY <1>2 DEF ForkIsSeen
  <2>3. ASSUME VerifyChain PROVE e.prev = LastHash <=> Fresh
    <3>1. \A i \in 1..n : entries[i].prev = IF i = 1 THEN Genesis ELSE entries[i - 1].id
      BY <1>2, <2>3 DEF VerifyChain, Link
    <3>2. LastHash = IF n = 0 THEN Genesis ELSE entries[n].id
      BY <1>1, <1>2 DEF LastHash, n
    <3>3. ASSUME e.prev = LastHash, NEW i \in 1..n PROVE entries[i].prev # e.prev
      BY <1>2, <1>4, <1>5, <3>1, <3>2, <3>3, LedgerAssumption
    <3>4. ASSUME Fresh PROVE e.prev = LastHash
      <4>1. CASE e.prev = Genesis
        BY <1>2, <3>1, <3>2, <3>4, <4>1
      <4>2. CASE \E j \in 1..n : entries[j].id = e.prev
        <5>1. PICK j \in 1..n : entries[j].id = e.prev
          BY <4>2
        <5>2. j < n => entries[j + 1].prev = e.prev
          BY <1>2, <3>1, <5>1
        <5> QED BY <1>2, <3>2, <3>4, <5>1, <5>2
      <4> QED BY <1>3, <4>1, <4>2
    <3> QED BY <3>3, <3>4
  <2> QED BY <1>8, <2>1, <2>2, <2>3
<1>10. SerialChain'
  BY <1>1, <1>8 DEF IInv, SerialChain, SerialCalls, e
<1>11. SerialCalls'
  BY <1>1 DEF IInv, SerialCalls
<1> QED BY <1>6, <1>7, <1>9, <1>10, <1>11

(* The balance steps leave the chain and what is about to join it alone.   *)
LEMMA BalanceInv ==
  ASSUME IInv, NEW t \in Threads, ReadBalance(t) \/ WriteBalance(t)
  PROVE  IdsOnce' /\ Rooted' /\ ForkIsSeen' /\ SerialCalls' /\ SerialChain'
<1>1. /\ UNCHANGED <<entries, used, alone>>
      /\ \A u \in Threads : pc'[u] # "idle" => pc[u] # "idle"
      /\ \A u \in Threads : pc'[u] = "sealed" => pc[u] = "sealed" /\ local'[u] = local[u]
  BY DEF ReadBalance, WriteBalance, IInv, LedgerTypeOK
<1> USE DEF IInv
<1>2. IdsOnce'
  BY <1>1 DEF IdsOnce
<1>3. Rooted'
  BY <1>1 DEF Rooted
<1>4. ForkIsSeen' /\ SerialChain'
  BY <1>1, Zenon DEF ForkIsSeen, SerialChain, VerifyChain, Link
<1>5. SerialCalls'
  BY <1>1 DEF SerialCalls, LastHash
<1> QED BY <1>2, <1>3, <1>4, <1>5

LEMMA NextInv == IInv /\ [LedgerNext]_ledgerVars => IInv'
<1>1. IInv /\ UNCHANGED ledgerVars =>
        IdsOnce' /\ Rooted' /\ ForkIsSeen' /\ SerialCalls' /\ SerialChain'
  BY DEF ledgerVars, IInv, IdsOnce, Rooted, ForkIsSeen, SerialCalls, SerialChain,
         VerifyChain, Link, LastHash
<1>2. IInv /\ [LedgerNext]_ledgerVars =>
        IdsOnce' /\ Rooted' /\ ForkIsSeen' /\ SerialCalls' /\ SerialChain'
  BY <1>1, SealInv, PushInv, BalanceInv DEF LedgerNext
<1> QED BY <1>2, NextType DEF IInv

(* Under every interleaving of appends, and with what the serial ones add, *)
(* the parts of IInv hold together.                                        *)
THEOREM Inductive == LedgerSpec => []IInv
  BY InitInv, NextInv, PTL DEF LedgerSpec

-----------------------------------------------------------------------------
(* Balances.  The sums are compared call by call: an append that overlaps  *)
(* no other adds its delta to the ledger when it pushes, to the balance    *)
(* when it writes, and is the one unsettled call in between.               *)

UnderWay(p, l, a) ==
  LET under == {t \in Threads : p[t] \in {"pushed", "read"} /\ l[t].agent = a}
  IN  SumFunctionOnSet([t \in under |-> l[t].delta], under)

LEMMA UnsettledOfOne ==
  ASSUME NEW p, NEW l, NEW a, NEW t \in Threads,
         \A u \in Threads : u # t => p[u] \notin {"pushed", "read"},
         p[t] \in {"pushed", "read"} => l[t].delta \in Int
  PROVE  UnderWay(p, l, a) =
           IF p[t] \in {"pushed", "read"} /\ l[t].agent = a THEN l[t].delta ELSE 0
<1> DEFINE under == {u \in Threads : p[u] \in {"pushed", "read"} /\ l[u].agent = a}
           f == [u \in under |-> l[u].delta]
<1>1. under \subseteq {t} /\ (t \in under => f[t] = l[t].delta /\ f[t] \in Int)
  OBVIOUS
<1>2. t \in under <=> p[t] \in {"pushed", "read"} /\ l[t].agent = a
  OBVIOUS
<1>3. SumFunctionOnSet(f, under) = IF t \in under THEN f[t] ELSE 0
  <2> HIDE DEF under, f
  <2> QED BY <1>1, SumOfOne
<1> HIDE DEF f
<1>4. SumFunctionOnSet(f, under) = IF t \in under THEN l[t].delta ELSE 0
  BY <1>1, <1>3
<1> QED BY <1>2, <1>4 DEF f, UnderWay

(* Pushing an entry adds its delta to what its author has recorded.        *)
LEMMA RecordedPush ==
  ASSUME entries \in Seq(Entry), NEW e \in Entry, entries' = Append(entries, e),
         NEW a \in Agents
  PROVE  /\ Recorded(a) \in Int
         /\ e.delta \in Int
         /\ Recorded(a)' = Recorded(a) + IF e.agent = a THEN e.delta ELSE 0
<1> DEFINE n == Len(entries)
           own == {i \in DOMAIN entries : entries[i].agent = a}
           f == [i \in own |-> entries[i].delta]
           new == {i \in DOMAIN entries' : entries'[i].agent = a}
           g == [i \in new |-> entries'[i].delta]
<1>1. /\ n \in Nat /\ DOMAIN entries = 1..n /\ DOMAIN entries' = 1..(n + 1)
      /\ entries'[n + 1] = e
      /\ \A i \in 1..n : entries'[i] = entries[i]
  BY AppendEntry
<1>2. e.delta \in Int /\ \A i \in 1..n : entries[i].delta \in Int
  <2>1. \A i \in 1..n : entries[i] \in Entry
    BY <1>1
  <2> QED BY <2>1, LedgerAssumption DEF Entry
<1>3. /\ own \subseteq 1..n
      /\ new = IF e.agent = a THEN own \cup {n + 1} ELSE own
      /\ \A i \in own : f[i] \in Int /\ g[i] = f[i]
      /\ e.agent = a => g[n + 1] = e.delta
  <2>1. ASSUME NEW i
        PROVE  i \in new <=> i \in own \/ (i = n + 1 /\ e.agent = a)
    BY <1>1
  <2>2. \A i \in own : i \in new /\ entries'[i] = entries[i] /\ entries[i].delta \in Int
    BY <1>1, <1>2, <2>1
  <2> QED BY <1>1, <2>1, <2>2
<1>4. Recorded(a) = SumFunctionOnSet(f, own) /\ Recorded(a)' = SumFunctionOnSet(g, new)
  BY DEF Recorded
<1>5. IsFiniteSet(own)
  <2>1. IsFiniteSet(1..n)
    BY <1>1, FS_Interval
  <2> QED BY <1>3, <2>1, FS_Subset
<1>6. n + 1 \notin own /\ (n + 1 \in new <=> e.agent = a)
  BY <1>1, <1>3
<1> HIDE DEF n, own, f, new, g
<1>7. SumFunctionOnSet(g, own) = SumFunctionOnSet(f, own)
  BY <1>3, <1>5, SumSame
<1>8. SumFunctionOnSet(f, own) \in Int
  BY <1>3, <1>5, SumInt
<1>9. CASE e.agent = a
  <2>1. \A i \in own \cup {n + 1} : g[i] \in Int
    BY <1>2, <1>3, <1>9
  <2>2. SumFunctionOnSet(g, own \cup {n + 1}) = g[n + 1] + SumFunctionOnSet(g, own)
    BY <1>5, <1>6, <2>1, SumAddElement
  <2> QED BY <1>2, <1>3, <1>4, <1>7, <1>8, <1>9, <2>2
<1>10. CASE e.agent # a
  BY <1>2, <1>3, <1>4, <1>7, <1>8, <1>10
<1> QED BY <1>9, <1>10

LEMMA InitBalances == LedgerInit => BalancesInv
<1> SUFFICES ASSUME LedgerInit, NEW a \in Agents
             PROVE  balances[a] + Unsettled(a) = Recorded(a)
  BY DEF LedgerInit, BalancesInv, SerialReads, SerialBalances
<1>1. Recorded(a) = 0
  <2>1. {i \in DOMAIN entries : entries[i].agent = a} = {}
    BY DEF LedgerInit
  <2> QED BY <2>1, SumEmpty DEF Recorded
<1>2. Unsettled(a) = 0
  <2>1. {t \in Threads : pc[t] \in {"pushed", "read"} /\ local[t].agent = a} = {}
    BY DEF LedgerInit
  <2> QED BY <2>1, SumEmpty DEF Unsettled
<1> QED BY <1>1, <1>2 DEF LedgerInit

(* A step of thread t, alone in append before and after it.                *)
LEMMA OneThread ==
  ASSUME LedgerTypeOK, LedgerTypeOK', NEW t \in Threads, NEW a \in Agents,
         \A u \in Threads : u # t => pc[u] = "idle" /\ pc'[u] = "idle"
  PROVE  /\ Unsettled(a) = IF pc[t] \in {"pushed", "read"} /\ local[t].agent = a
                             THEN local[t].delta ELSE 0
         /\ Unsettled(a)' = IF pc'[t] \in {"pushed", "read"} /\ local'[t].agent = a
                              THEN local'[t].delta ELSE 0
<1>1. /\ pc[t] # "idle" => local[t].delta \in Int
      /\ pc'[t] # "idle" => local'[t].delta \in Int
  BY LedgerAssumption DEF LedgerTypeOK, Entry
<1>2. /\ Unsettled(a) = UnderWay(pc, local, a)
      /\ Unsettled(a)' = UnderWay(pc', local', a)
  BY DEF Unsettled, UnderWay
<1>3. UnderWay(pc, local, a) =
        IF pc[t] \in {"pushed", "read"} /\ local[t].agent = a THEN local[t].delta ELSE 0
  BY <1>1, UnsettledOfOne
<1>4. UnderWay(pc', local', a) =
        IF pc'[t] \in {"pushed", "read"} /\ local'[t].agent = a THEN local'[t].delta ELSE 0
  BY <1>1, UnsettledOfOne
<1> QED BY <1>2, <1>3, <1>4

LEMMA NextBalances == IInv /\ IInv' /\ BalancesInv /\ [LedgerNext]_ledgerVars => BalancesInv'
<1> SUFFICES ASSUME IInv, IInv', BalancesInv, [LedgerNext]_ledgerVars, alone'
             PROVE  /\ \A t \in Threads : pc'[t] = "read" =>
                          read'[t] = balances'[local'[t].agent]
                    /\ \A a \in Agents : balances'[a] + Unsettled(a)' = Recorded(a)'
  BY DEF BalancesInv, SerialReads, SerialBalances
<1> USE DEF IInv
<1>1. CASE UNCHANGED ledgerVars
  <2>1. alone /\ \A a \in Agents : Unsettled(a)' = Unsettled(a) /\ Recorded(a)' = Recorded(a)
    BY <1>1 DEF ledgerVars, Unsettled, Recorded
  <2> QED BY <1>1, <2>1 DEF ledgerVars, BalancesInv, SerialReads, SerialBalances
<1>2. ASSUME NEW t \in Threads,
             \/ \E i \in Ids, a \in Agents, d \in Deltas : Seal(t, i, a, d)
             \/ Push(t)
             \/ ReadBalance(t)
             \/ WriteBalance(t)
      PROVE  /\ \A u \in Threads : pc'[u] = "read" =>
                   read'[u] = balances'[local'[u].agent]
             /\ \A a \in Agents : balances'[a] + Unsettled(a)' = Recorded(a)'
  <2>1. /\ alone
        /\ \A u \in Threads : u # t => pc[u] = "idle" /\ pc'[u] = "idle"
    BY <1>2 DEF Seal, Push, ReadBalance, WriteBalance, NoneInside, SerialCalls, LedgerTypeOK
  <2>2. \A a \in Agents :
          /\ balances[a] + Unsettled(a) = Recorded(a)
          /\ Unsettled(a) = IF pc[t] \in {"pushed", "read"} /\ local[t].agent = a
                              THEN local[t].delta ELSE 0
          /\ Unsettled(a)' = IF pc'[t] \in {"pushed", "read"} /\ local'[t].agent = a
                               THEN local'[t].delta ELSE 0
    BY <2>1, OneThread DEF BalancesInv, SerialBalances
  <2>3. pc[t] = "read" => read[t] = balances[local[t].agent]
    BY <2>1 DEF BalancesInv, SerialReads
  <2>4. /\ \A a \in Agents : balances[a] \in Int /\ balances'[a] \in Int
        /\ pc[t] # "idle" => local[t] \in Entry
        /\ local[t] \in Entry => local[t].delta \in Int /\ local[t].agent \in Agents
    BY LedgerAssumption DEF LedgerTypeOK, Entry
  <2>5. UNCHANGED entries => \A a \in Agents : Recorded(a)' = Recorded(a)
    BY DEF Recorded
  <2>6. CASE \E i \in Ids, a \in Agents, d \in Deltas : Seal(t, i, a, d)
    <3>1. /\ pc[t] = "idle" /\ pc'[t] = "sealed" /\ UNCHANGED <<entries, balances>>
      BY <2>6 DEF Seal, LedgerTypeOK
    <3> QED BY <2>1, <2>2, <2>5, <3>1
  <2>7. CASE Push(t)
    <3>1. /\ pc[t] = "sealed" /\ pc'[t] = "pushed" /\ UNCHANGED <<balances, local>>
          /\ entries' = Append(entries, local[t])
      BY <2>7 DEF Push, LedgerTypeOK
    <3>2. \A a \in Agents :
            Recorded(a)' = Recorded(a) + IF local[t].agent = a THEN local[t].delta ELSE 0
      BY <2>4, <3>1, RecordedPush DEF LedgerTypeOK
    <3> QED BY <2>1, <2>2, <2>4, <3>1, <3>2
  <2>8. CASE ReadBalance(t)
    <3>1. /\ pc[t] = "pushed" /\ pc'[t] = "read" /\ UNCHANGED <<entries, balances, local>>
          /\ read'[t] = balances[local[t].agent]
      BY <2>8 DEF ReadBalance, LedgerTypeOK
    <3> QED BY <2>1, <2>2, <2>5, <3>1
  <2>9. CASE WriteBalance(t)
    <3>1. /\ pc[t] = "read" /\ pc'[t] = "idle" /\ UNCHANGED entries
          /\ \A a \in Agents :
               balances'[a] = IF a = local[t].agent THEN read[t] + local[t].delta
                                                   ELSE balances[a]
      BY <2>9 DEF WriteBalance, LedgerTypeOK
    <3> QED BY <2>1, <2>2, <2>3, <2>4, <2>5, <3>1
  <2> QED BY <1>2, <2>6, <2>7, <2>8, <2>9
<1> QED BY <1>1, <1>2 DEF LedgerNext

(* As long as no two appends overlap, an agent's balance is the sum of the *)
(* deltas of its entries, short of the call under way.                     *)
THEOREM SerialBalancesHolds == LedgerSpec => []SerialBalances
<1>1. LedgerInit => BalancesInv
  BY InitBalances
<1>2. IInv /\ IInv' /\ BalancesInv /\ [LedgerNext]_ledgerVars => BalancesInv'
  BY NextBalances
<1>3. BalancesInv => SerialBalances
  BY DEF BalancesInv
<1> QED BY <1>1, <1>2, <1>3, Inductive, PTL DEF LedgerSpec

(* No interleaving of appends builds on an entry that is not there.        *)
THEOREM RootedHolds == LedgerSpec => []Rooted
<1>1. IInv => Rooted
  BY DEF IInv
<1> QED BY <1>1, Inductive, PTL

(* verify_chain reports every fork and nothing but forks.                  *)
THEOREM ForkIsSeenHolds == LedgerSpec => []ForkIsSeen
<1>1. IInv => ForkIsSeen
  BY DEF IInv
<1> QED BY <1>1, Inductive, PTL

(* A ledger whose appends never overlapped verifies.                       *)
THEOREM SerialChainHolds == LedgerSpec => []SerialChain
<1>1. IInv => SerialChain
  BY DEF IInv
<1> QED BY <1>1, Inductive, PTL
=============================================================================
