------------------------------- MODULE Ledger -------------------------------
(***************************************************************************)
(* The Responsibility Ledger: entries chained by hash, and the credit      *)
(* balances kept beside them.  Code: core/ledger.py.                       *)
(*                                                                         *)
(* Nothing in the code serialises calls: the endpoints of api/app.py run   *)
(* on a pool of threads over one Firm without a lock.  ResponsibilityLedger *)
(* .append is therefore cut where a thread switch can be seen: it reads    *)
(* the last hash and seals its entry, pushes it, reads the agent's         *)
(* balance, and writes it back.  Each of these touches shared state once.  *)
(*                                                                         *)
(* An entry's hash is as good as its identity: ids are fresh, the hash     *)
(* covers the id, and the ledger has no operation that edits an entry.     *)
(***************************************************************************)
EXTENDS Integers, Sequences, Functions

CONSTANTS
  Agents,     \* authors of entries
  Threads,    \* threads that call append
  Ids,        \* entry identifiers; their number bounds the ledger
  Genesis,    \* GENESIS_HASH
  Deltas      \* credit_delta of the calls

ASSUME LedgerAssumption ==
  /\ Genesis \notin Ids
  /\ Deltas \subseteq Int

VARIABLES
  entries,    \* ResponsibilityLedger._entries
  balances,   \* ResponsibilityLedger._credit_balances, 0 when missing
  used,       \* identifiers handed out by uuid4
  pc,         \* where each thread stands in append
  local,      \* the entry a thread is appending
  read,       \* the balance a thread has read
  alone       \* auxiliary: no two calls of append have overlapped

ledgerVars == <<entries, balances, used, pc, local, read, alone>>

Entry == [id : Ids, agent : Agents, delta : Deltas, prev : Ids \cup {Genesis}]
Pc == {"idle", "sealed", "pushed", "read"}

NoneInside == \A t \in Threads : pc[t] = "idle"

LedgerTypeOK ==
  /\ entries \in Seq(Entry)
  /\ balances \in [Agents -> Int]
  /\ used \subseteq Ids
  /\ pc \in [Threads -> Pc]
  /\ local \in [Threads -> Entry \cup {<< >>}]
  /\ \A t \in Threads : pc[t] # "idle" => local[t] \in Entry
  /\ read \in [Threads -> Int]
  /\ alone \in BOOLEAN

LedgerInit ==
  /\ entries = << >>
  /\ balances = [a \in Agents |-> 0]
  /\ used = {}
  /\ pc = [t \in Threads |-> "idle"]
  /\ local = [t \in Threads |-> << >>]
  /\ read = [t \in Threads |-> 0]
  /\ alone = TRUE

-----------------------------------------------------------------------------
(* ResponsibilityLedger.last_hash                                          *)
LastHash_First == IF entries = << >> THEN Genesis ELSE entries[1].id

LastHash_Unsealed == IF entries = << >> THEN Genesis ELSE ""

LastHash == IF entries = << >> THEN Genesis ELSE entries[Len(entries)].id

(* Build the entry on the last hash and seal it.                           *)
Seal(t, i, a, d) ==
  /\ pc[t] = "idle"
  /\ i \notin used
  /\ used' = used \cup {i}
  /\ local' = [local EXCEPT ![t] =
                 [id |-> i, agent |-> a, delta |-> d, prev |-> LastHash]]
  /\ pc' = [pc EXCEPT ![t] = "sealed"]
  /\ alone' = (alone /\ NoneInside)
  /\ UNCHANGED <<entries, balances, read>>

Push_Insert(t) ==
  /\ pc[t] = "sealed"
  /\ entries' = <<local[t]>> \o entries
  /\ pc' = [pc EXCEPT ![t] = "pushed"]
  /\ UNCHANGED <<balances, used, local, read, alone>>

(* self._entries.append(entry)                                             *)
Push(t) ==
  /\ pc[t] = "sealed"
  /\ entries' = Append(entries, local[t])
  /\ pc' = [pc EXCEPT ![t] = "pushed"]
  /\ UNCHANGED <<balances, used, local, read, alone>>

ReadBalance(t) ==
  /\ pc[t] = "pushed"
  /\ read' = [read EXCEPT ![t] = balances[local[t].agent]]
  /\ pc' = [pc EXCEPT ![t] = "read"]
  /\ UNCHANGED <<entries, balances, used, local, alone>>

WriteBalance_Replace(t) ==
  /\ pc[t] = "read"
  /\ balances' = [balances EXCEPT ![local[t].agent] = local[t].delta]
  /\ pc' = [pc EXCEPT ![t] = "idle"]
  /\ local' = [local EXCEPT ![t] = << >>]
  /\ read' = [read EXCEPT ![t] = 0]
  /\ UNCHANGED <<entries, used, alone>>

WriteBalance(t) ==
  /\ pc[t] = "read"
  /\ balances' = [balances EXCEPT ![local[t].agent] = read[t] + local[t].delta]
  /\ pc' = [pc EXCEPT ![t] = "idle"]
  /\ local' = [local EXCEPT ![t] = << >>]
  /\ read' = [read EXCEPT ![t] = 0]
  /\ UNCHANGED <<entries, used, alone>>

(* ResponsibilityLedger.verify_chain                                       *)
Link_Any(i) == entries[i].prev \in {entries[j].id : j \in 1..i} \cup {Genesis}

Link(i) == entries[i].prev = IF i = 1 THEN Genesis ELSE entries[i - 1].id

VerifyChain == \A i \in DOMAIN entries : Link(i)

-----------------------------------------------------------------------------
LedgerNext ==
  \E t \in Threads :
    \/ \E i \in Ids, a \in Agents, d \in Deltas : Seal(t, i, a, d)
    \/ Push(t)
    \/ ReadBalance(t)
    \/ WriteBalance(t)

LedgerSpec == LedgerInit /\ [][LedgerNext]_ledgerVars

-----------------------------------------------------------------------------
(* Properties.                                                             *)

(* Whatever the threads do, the ledger never points forward or into the    *)
(* void: each entry, those about to be pushed included, is built on the    *)
(* genesis hash or on an entry that is in the ledger before it.            *)
Rooted ==
  /\ \A i \in DOMAIN entries :
       \/ entries[i].prev = Genesis
       \/ \E j \in 1..(i - 1) : entries[j].id = entries[i].prev
  /\ \A t \in Threads : pc[t] = "sealed" =>
       \/ local[t].prev = Genesis
       \/ \E j \in DOMAIN entries : entries[j].id = local[t].prev

(* verify_chain reports a broken link exactly when the ledger has forked,  *)
(* that is when two entries were built on the same one.                    *)
ForkIsSeen ==
  VerifyChain <=> \A i, j \in DOMAIN entries :
                    entries[i].prev = entries[j].prev => i = j

(* "The chain can be verified end-to-end at any time" (README.md), as long *)
(* as no two calls of append overlap.                                      *)
SerialChain == alone => VerifyChain

(* And the balance of an agent is then what its entries add up to, short   *)
(* of the call under way.                                                  *)
Recorded(a) ==
  LET own == {i \in DOMAIN entries : entries[i].agent = a}
  IN  SumFunctionOnSet([i \in own |-> entries[i].delta], own)

Unsettled(a) ==
  LET under == {t \in Threads : pc[t] \in {"pushed", "read"} /\ local[t].agent = a}
  IN  SumFunctionOnSet([t \in under |-> local[t].delta], under)

SerialBalances ==
  alone => \A a \in Agents : balances[a] + Unsettled(a) = Recorded(a)

(* "The chain can be verified end-to-end at any time", without the proviso. *)
ChainAlwaysValid == VerifyChain
=============================================================================
