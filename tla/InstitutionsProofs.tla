------------------------- MODULE InstitutionsProofs -------------------------
(* Theorems of module Institutions and the modules it is made of, for any  *)
(* agents, roles, amendments, peers and memories: first what each of the   *)
(* others keeps by itself, then what they keep together.  What they count  *)
(* is in AccountsProofs.                                                   *)
EXTENDS Institutions, AccountsProofs

-----------------------------------------------------------------------------
(* Federation: nothing is left at a peer that is revoked, and nothing gets *)
(* there.                                                                  *)

FederationInv ==
  /\ FederationTypeOK
  /\ \A p \in Peers : peers[p] = "revoked" => ~Hosts(p)

LEMMA FederationInvInit == FederationInit => FederationInv
  BY DEF FederationInit, FederationInv, FederationTypeOK, NoTrust, Enough

(* What a step does to a revoked peer.                                     *)
Apart ==
  \A p \in Peers : peers[p] = "revoked" =>
    peers'[p] = "revoked" /\ (p \in messaged' => p \in messaged)

LEMMA FederationStep ==
  ASSUME FederationInv, FederationNext \/ UNCHANGED ownFederation
  PROVE  FederationInv' /\ Apart
<1> USE DEF FederationInv, FederationTypeOK, PeerStatus, NoTrust, Low, Enough, Apart
<1>1. ASSUME NEW p \in Peers, NEW x \in Levels, RegisterPeer(x, p)
      PROVE  FederationInv' /\ Apart
  BY <1>1 DEF RegisterPeer, Hosts
<1>2. ASSUME NEW p \in Peers, SuspendPeer(p) \/ ReactivatePeer(p)
      PROVE  FederationInv' /\ Apart
  BY <1>2 DEF SuspendPeer, ReactivatePeer, Hosts
<1>3. ASSUME NEW p \in Peers, RevokePeer(p)
      PROVE  FederationInv' /\ Apart
  <2>1. secondments' \in [Secondments -> Secondment \cup {Unused}]
    BY <1>3 DEF RevokePeer, Recalled, Secondment, Unused
  <2>2. ~Hosts(p)'
    BY <1>3 DEF RevokePeer, Recalled, Hosts, Secondment, Unused
  <2>3. \A q \in Peers : Hosts(q)' => Hosts(q)
    BY <1>3 DEF RevokePeer, Recalled, Hosts, Secondment, Unused
  <2> QED BY <1>3, <2>1, <2>2, <2>3 DEF RevokePeer
<1>4. ASSUME NEW p \in Peers, NEW success \in BOOLEAN, UpdateTrust(p, success)
      PROVE  FederationInv' /\ Apart
  BY <1>4 DEF UpdateTrust, Hosts
<1>5. ASSUME NEW below \in SUBSET Peers, DecayTrust(below)
      PROVE  FederationInv' /\ Apart
  BY <1>5 DEF DecayTrust, Hosts
<1>6. ASSUME NEW p \in Peers, NEW x \in Levels, SendMessage(x, p)
      PROVE  FederationInv' /\ Apart
  BY <1>6 DEF SendMessage, Hosts
<1>7. ASSUME NEW p \in Peers, NEW x \in Levels, NEW a \in Agents, NEW s \in Secondments,
             SecondAgent(x, a, p, s)
      PROVE  FederationInv' /\ Apart
  <2>1. secondments' \in [Secondments -> Secondment \cup {Unused}]
    BY <1>7 DEF SecondAgent, Secondment, Unused
  <2>2. \A q \in Peers \ {p} : Hosts(q)' => Hosts(q)
    BY <1>7 DEF SecondAgent, Hosts
  <2> QED BY <1>7, <2>1, <2>2 DEF SecondAgent
<1>8. ASSUME NEW s \in Secondments, EndSecondment(s) \/ SecondmentTimePasses(s)
      PROVE  FederationInv' /\ Apart
  <2>1. secondments[s] \in Secondment
    BY <1>8 DEF EndSecondment, SecondmentTimePasses, Unused
  <2>2. secondments' \in [Secondments -> Secondment \cup {Unused}]
    BY <1>8, <2>1 DEF EndSecondment, SecondmentTimePasses, Secondment, Unused
  <2>3. \A q \in Peers : Hosts(q)' => Hosts(q)
    BY <1>8, <2>1 DEF EndSecondment, SecondmentTimePasses, Hosts, Secondment, Unused
  <2> QED BY <1>8, <2>2, <2>3 DEF EndSecondment, SecondmentTimePasses
<1>9. ASSUME ExpireSecondments
      PROVE  FederationInv' /\ Apart
  <2>1. secondments' \in [Secondments -> Secondment \cup {Unused}]
    BY <1>9 DEF ExpireSecondments, Secondment, Unused
  <2>2. \A q \in Peers : Hosts(q)' => Hosts(q)
    BY <1>9 DEF ExpireSecondments, Hosts, Secondment, Unused
  <2> QED BY <1>9, <2>1, <2>2 DEF ExpireSecondments
<1>10. CASE UNCHANGED ownFederation
  BY <1>10 DEF ownFederation, Hosts
<1> QED BY <1>1, <1>2, <1>3, <1>4, <1>5, <1>6, <1>7, <1>8, <1>9, <1>10 DEF FederationNext

(* What RevokedForGood says of a step.                                     *)
RevokedStep ==
  \A p \in Peers : peers[p] = "revoked" =>
    /\ peers'[p] = "revoked"
    /\ ~Hosts(p) /\ ~Hosts(p)'
    /\ p \in messaged' => p \in messaged

(* For any number of peers, secondments and agents, and however the trust  *)
(* in a peer moves after it: a revocation is for good.                     *)
THEOREM RevocationIsForGood == Spec => RevokedForGood
<1>1. Init => FederationInv
  BY FederationInvInit DEF Init
<1>2. FederationInv /\ [Next]_vars => FederationInv'
  BY FederationStep, Steps
<1>3. FederationInv /\ [Next]_vars => [RevokedStep]_federationVars
  BY FederationStep, Steps DEF RevokedStep, Apart, FederationInv
<1>4. Spec => [][RevokedStep]_federationVars
  BY <1>1, <1>2, <1>3, PTL DEF Spec
<1> QED BY <1>4 DEF RevokedForGood, RevokedStep

-----------------------------------------------------------------------------
(* Memory: the index and the entries.                                      *)

MemoryInv == MemoryTypeOK /\ IndexAgrees

LEMMA MemoryInvInit == MemoryInit => MemoryInv
  BY DEF MemoryInit, MemoryInv, MemoryTypeOK, IndexAgrees, Present, Missing

LEMMA RemoveInv ==
  ASSUME MemoryInv, NEW gone \in SUBSET Entries, Remove(gone),
         conflicts' \subseteq [a : Entries, b : Entries, resolved : BOOLEAN]
  PROVE  MemoryInv'
<1>1. MemoryTypeOK'
  BY DEF MemoryInv, MemoryTypeOK, Remove, Unindexed
<1>2. ASSUME NEW t \in Tags
      PROVE  tagIndex'[t] = {e \in Entries : t \in memories'[e].tags}
  <2>1. tagIndex'[t] = tagIndex[t] \ gone
    BY DEF Remove, Unindexed
  <2>2. \A e \in Entries : memories'[e] = IF e \in gone THEN Missing ELSE memories[e]
    BY DEF Remove
  <2>3. Missing.tags = {}
    BY DEF Missing
  <2>4. tagIndex[t] = {e \in Entries : t \in memories[e].tags}
    BY DEF MemoryInv, IndexAgrees
  <2> QED BY <2>1, <2>2, <2>3, <2>4
<1>3. ASSUME NEW e \in Entries, Present(e)'
      PROVE  memories'[e].reinforced \cap memories'[e].challenged = {}
  BY <1>3 DEF Remove, Present, MemoryInv, IndexAgrees
<1> QED BY <1>1, <1>2, <1>3 DEF MemoryInv, IndexAgrees

(* An entry that changes and keeps its tags.                               *)
LEMMA OpinionInv ==
  ASSUME MemoryInv, NEW e \in Entries, Present(e), memories'[e] \in Entry,
         \A d \in Entries \ {e} : memories'[d] = memories[d],
         memories' \in [Entries -> Entry \cup {Missing}],
         memories'[e].tags = memories[e].tags,
         memories'[e].reinforced \cap memories'[e].challenged = {},
         UNCHANGED <<tagIndex, conflicts, forgotten>>
  PROVE  MemoryInv'
<1>1. MemoryTypeOK'
  BY DEF MemoryInv, MemoryTypeOK
<1>2. \A d \in Entries : memories'[d].tags = memories[d].tags
  OBVIOUS
<1>3. \A t \in Tags : tagIndex'[t] = {d \in Entries : t \in memories'[d].tags}
  BY <1>2 DEF MemoryInv, IndexAgrees
<1>4. \A d \in Entries : Present(d)' => memories'[d].reinforced \cap memories'[d].challenged = {}
  BY DEF MemoryInv, IndexAgrees, Present
<1> QED BY <1>1, <1>3, <1>4 DEF MemoryInv, IndexAgrees

LEMMA MemoryInvStep ==
  ASSUME MemoryInv, MemoryNext \/ UNCHANGED ownMemory
  PROVE  MemoryInv'
<1>1. ASSUME NEW a \in Agents, NEW e \in Entries, NEW tags \in SUBSET Tags,
             NEW faint \in BOOLEAN, ContributeMemory(a, e, tags, faint)
      PROVE  MemoryInv'
  <2>1. /\ memories'[e] = [tags |-> tags, faint |-> faint, reinforced |-> {}, challenged |-> {}]
        /\ \A d \in Entries \ {e} : memories'[d] = memories[d]
        /\ memories[e].tags = {}
    BY <1>1 DEF ContributeMemory, Present, Missing, MemoryInv, MemoryTypeOK
  <2>2. MemoryTypeOK'
    <3>1. [tags |-> tags, faint |-> faint, reinforced |-> {}, challenged |-> {}] \in Entry
      BY DEF Entry
    <3>2. memories' \in [Entries -> Entry \cup {Missing}]
      BY <1>1, <3>1 DEF ContributeMemory, MemoryInv, MemoryTypeOK
    <3>3. tagIndex' \in [Tags -> SUBSET Entries]
      BY <1>1 DEF ContributeMemory, MemoryInv, MemoryTypeOK
    <3>4. {[a |-> o, b |-> e, resolved |-> FALSE] : o \in {x \in Entries : Similar(tags, x)}}
            \subseteq [a : Entries, b : Entries, resolved : BOOLEAN]
      <4>1. \A o \in Entries : [a |-> o, b |-> e, resolved |-> FALSE]
              \in [a : Entries, b : Entries, resolved : BOOLEAN]
        BY <1>1
      <4> QED BY <4>1
    <3>5. conflicts' \subseteq [a : Entries, b : Entries, resolved : BOOLEAN]
      BY <1>1, <3>4 DEF ContributeMemory, MemoryInv, MemoryTypeOK
    <3> QED BY <1>1, <3>2, <3>3, <3>5 DEF ContributeMemory, MemoryInv, MemoryTypeOK
  <2>3. ASSUME NEW t \in Tags
        PROVE  tagIndex'[t] = {d \in Entries : t \in memories'[d].tags}
    <3>1. tagIndex[t] = {d \in Entries : t \in memories[d].tags}
      BY DEF MemoryInv, IndexAgrees
    <3>2. tagIndex'[t] = IF t \in tags THEN tagIndex[t] \cup {e} ELSE tagIndex[t]
      BY <1>1 DEF ContributeMemory
    <3> QED BY <2>1, <3>1, <3>2
  <2>4. \A d \in Entries : Present(d)' => memories'[d].reinforced \cap memories'[d].challenged = {}
    BY <2>1 DEF MemoryInv, IndexAgrees, Present
  <2> QED BY <2>2, <2>3, <2>4 DEF MemoryInv, IndexAgrees
<1>2. ASSUME NEW a \in Agents, NEW e \in Entries, ReinforceMemory(a, e)
      PROVE  MemoryInv'
  <2>1. memories[e] \in Entry
    BY <1>2 DEF ReinforceMemory, Present, MemoryInv, MemoryTypeOK
  <2>2. PICK faint \in {memories[e].faint, FALSE} :
          /\ memories'[e] = [memories[e] EXCEPT !.reinforced = memories[e].reinforced \cup {a},
                                                !.challenged = memories[e].challenged \ {a},
                                                !.faint = faint]
          /\ \A d \in Entries \ {e} : memories'[d] = memories[d]
          /\ DOMAIN memories' = Entries
    BY <1>2 DEF ReinforceMemory, MemoryInv, MemoryTypeOK
  <2>3. memories[e].reinforced \cap memories[e].challenged = {}
    BY <1>2 DEF ReinforceMemory, MemoryInv, IndexAgrees
  <2>4. /\ memories'[e] \in Entry
        /\ memories'[e].tags = memories[e].tags
        /\ memories'[e].reinforced \cap memories'[e].challenged = {}
    <3>1. faint \in BOOLEAN
      BY <2>1, <2>2 DEF Entry
    <3>2. memories'[e] \in Entry
      <4>1. memories'[e] = [tags |-> memories[e].tags, faint |-> faint,
                            reinforced |-> memories[e].reinforced \cup {a},
                            challenged |-> memories[e].challenged \ {a}]
        BY <2>1, <2>2 DEF Entry
      <4>2. /\ memories[e].tags \in SUBSET Tags
            /\ memories[e].reinforced \cup {a} \in SUBSET Agents
            /\ memories[e].challenged \ {a} \in SUBSET Agents
        BY <2>1, <1>2 DEF Entry
      <4> HIDE <2>2
      <4> QED BY <4>1, <4>2, <3>1 DEF Entry
    <3>3. memories'[e].tags = memories[e].tags
      BY <2>1, <2>2 DEF Entry
    <3>4. /\ memories'[e].reinforced = memories[e].reinforced \cup {a}
          /\ memories'[e].challenged = memories[e].challenged \ {a}
      BY <2>1, <2>2 DEF Entry
    <3> QED BY <2>3, <3>2, <3>3, <3>4
  <2>5. memories' \in [Entries -> Entry \cup {Missing}]
    BY <1>2, <2>2, <2>4 DEF ReinforceMemory, MemoryInv, MemoryTypeOK
  <2> QED BY <1>2, <2>2, <2>4, <2>5, OpinionInv DEF ReinforceMemory
<1>3. ASSUME NEW a \in Agents, NEW e \in Entries, ChallengeMemory(a, e)
      PROVE  MemoryInv'
  <2>1. memories[e] \in Entry
    BY <1>3 DEF ChallengeMemory, Present, MemoryInv, MemoryTypeOK
  <2>2. memories[e].reinforced \cap memories[e].challenged = {}
    BY <1>3 DEF ChallengeMemory, MemoryInv, IndexAgrees
  <2>3. /\ Challenged(e, a) \in Entry
        /\ Challenged(e, a).tags = memories[e].tags
        /\ Challenged(e, a).reinforced \cap Challenged(e, a).challenged = {}
    BY <2>1, <2>2 DEF Challenged, Entry
  <2>4. /\ memories'[e] = Challenged(e, a)
        /\ \A d \in Entries \ {e} : memories'[d] = memories[d]
        /\ memories' \in [Entries -> Entry \cup {Missing}]
    BY <1>3, <2>3 DEF ChallengeMemory, MemoryInv, MemoryTypeOK
  <2> QED BY <1>3, <2>3, <2>4, OpinionInv DEF ChallengeMemory
<1>4. ASSUME NEW gone \in SUBSET Entries, ApplyDecay(gone)
      PROVE  MemoryInv'
  BY <1>4, RemoveInv DEF ApplyDecay, MemoryInv, MemoryTypeOK
<1>5. ASSUME NEW c \in conflicts, NEW resolution \in Resolution, ResolveConflict(c, resolution)
      PROVE  MemoryInv'
  <2>1. c \in [a : Entries, b : Entries, resolved : BOOLEAN]
    BY DEF MemoryInv, MemoryTypeOK
  <2>2. conflicts' \subseteq [a : Entries, b : Entries, resolved : BOOLEAN]
    BY <1>5, <2>1 DEF ResolveConflict, MemoryInv, MemoryTypeOK
  <2>3. PICK gone \in SUBSET Entries : Remove(gone)
    BY <1>5, <2>1 DEF ResolveConflict, Resolution
  <2> QED BY <2>2, <2>3, RemoveInv
<1>6. CASE UNCHANGED ownMemory
  BY <1>6 DEF ownMemory, MemoryInv, MemoryTypeOK, IndexAgrees, Present
<1> QED BY <1>1, <1>2, <1>3, <1>4, <1>5, <1>6 DEF MemoryNext

(* For any entries, tags and agents: the tag index leads to what is there, *)
(* and nobody is counted on both sides.                                    *)
THEOREM IndexIsRight == Spec => []IndexAgrees
<1>1. Init => MemoryInv
  BY MemoryInvInit DEF Init
<1>2. MemoryInv /\ [Next]_vars => MemoryInv'
  BY MemoryInvStep, Steps
<1>3. MemoryInv => IndexAgrees
  BY DEF MemoryInv
<1> QED BY <1>1, <1>2, <1>3, PTL DEF Spec

-----------------------------------------------------------------------------
(* Roles: the list of assignments and the roles that are held match, for   *)
(* each agent and role apart.                                              *)

On(list, i, a, r) == list[i] # Free /\ list[i].agent = a /\ list[i].role = r

Match(list, held, a, r) ==
  /\ \A i \in AssignmentIds : On(list, i, a, r) => r \in held[a]
  /\ r \in held[a] => \E i \in AssignmentIds : On(list, i, a, r)
  /\ \A i, j \in AssignmentIds : On(list, i, a, r) /\ On(list, j, a, r) => i = j

Lists == [AssignmentIds -> Assignment \cup {Free}]
Helds == [Agents -> SUBSET RoleNames]

AllMatch(list, held, out) ==
  /\ list \in Lists
  /\ held \in Helds
  /\ \A a \in Agents, r \in RoleNames : <<a, r>> \notin out => Match(list, held, a, r)

RolesInv == AllMatch(assignments, roles, outside)

LEMMA RolesInvInit == MembersInit /\ RolesInit => RolesInv
  BY DEF MembersInit, RolesInit, RolesInv, AllMatch, Match, On, Lists, Helds

LEMMA AssignedMatch ==
  ASSUME NEW list, NEW held, NEW out, AllMatch(list, held, out),
         NEW a \in Agents, NEW r \in RoleNames,
         r \notin held[a], Assigned(list, held, a, r)
  PROVE  AllMatch(assignments', roles', out)
<1>1. PICK i \in AssignmentIds :
        /\ list[i] = Free
        /\ assignments' = [list EXCEPT ![i] = [agent |-> a, role |-> r, expired |-> FALSE]]
  BY DEF Assigned
<1>2. [agent |-> a, role |-> r, expired |-> FALSE] \in Assignment
  BY DEF Assignment
<1>3. assignments' \in Lists
  BY <1>1, <1>2 DEF AllMatch, Lists
<1>4. roles' \in Helds
  BY DEF Assigned, AllMatch, Helds
<1>5. /\ assignments'[i].agent = a /\ assignments'[i].role = r
      /\ assignments'[i] # Free
      /\ \A j \in AssignmentIds \ {i} : assignments'[j] = list[j]
  <2>1. /\ assignments'[i] = [agent |-> a, role |-> r, expired |-> FALSE]
        /\ \A j \in AssignmentIds \ {i} : assignments'[j] = list[j]
    BY <1>1 DEF AllMatch, Lists
  <2>2. [agent |-> a, role |-> r, expired |-> FALSE] # Free
    BY DEF Free
  <2> QED BY <2>1, <2>2
<1>6. \A b \in Agents, q \in RoleNames :
        /\ q \in roles'[b] <=> (q \in held[b] \/ (b = a /\ q = r))
        /\ \A j \in AssignmentIds \ {i} : On(assignments', j, b, q) <=> On(list, j, b, q)
        /\ On(assignments', i, b, q) <=> (b = a /\ q = r)
        /\ ~On(list, i, b, q)
  BY <1>1, <1>5 DEF Assigned, AllMatch, Helds, On
<1>7. ASSUME NEW b \in Agents, NEW q \in RoleNames, <<b, q>> \notin out
      PROVE  Match(assignments', roles', b, q)
  <2>1. Match(list, held, b, q)
    BY <1>7 DEF AllMatch
  <2> HIDE DEF On
  <2> QED BY <2>1, <1>6 DEF Match
<1> QED BY <1>3, <1>4, <1>7 DEF AllMatch

LEMMA RevokedMatch ==
  ASSUME RolesInv, NEW a \in Agents, NEW r \in RoleNames
  PROVE  AllMatch(Unassigned(a, r), Deprived(a, r), outside \ {<<a, r>>})
<1> DEFINE list == Unassigned(a, r)
           held == Deprived(a, r)
<1>1. list \in Lists /\ held \in Helds
  BY DEF RolesInv, AllMatch, Unassigned, Without, Deprived, Lists, Helds
<1>2. \A b \in Agents, q \in RoleNames :
        /\ q \in held[b] <=> (q \in roles[b] /\ ~(b = a /\ q = r))
        /\ \A i \in AssignmentIds :
             On(list, i, b, q) <=> (On(assignments, i, b, q) /\ ~(b = a /\ q = r))
  BY DEF RolesInv, AllMatch, Helds, Unassigned, Without, Deprived, Of, On
<1> HIDE DEF list, held
<1>3. ASSUME NEW b \in Agents, NEW q \in RoleNames, <<b, q>> \notin outside \ {<<a, r>>}
      PROVE  Match(list, held, b, q)
  <2>1. CASE b = a /\ q = r
    BY <1>2, <2>1 DEF Match
  <2>2. CASE ~(b = a /\ q = r)
    <3>1. <<b, q>> \notin outside
      BY <1>3, <2>2
    <3>2. Match(assignments, roles, b, q)
      BY <3>1 DEF RolesInv, AllMatch
    <3> QED BY <3>2, <1>2, <2>2 DEF Match
  <2> QED BY <2>1, <2>2
<1>4. AllMatch(list, held, outside \ {<<a, r>>})
  BY <1>1, <1>3 DEF AllMatch
<1> QED BY <1>4 DEF list, held

(* Who touches a role past the engine answers for that role alone.         *)
LEMMA OutsideMatch ==
  ASSUME RolesInv, NEW a \in Agents, NEW r \in RoleNames,
         roles' \in Helds, \A b \in Agents : roles'[b] \ {r} = roles[b] \ {r},
         \A b \in Agents \ {a} : roles'[b] = roles[b],
         outside' = outside \cup {<<a, r>>}, assignments' = assignments
  PROVE  RolesInv'
<1>1. ASSUME NEW b \in Agents, NEW q \in RoleNames, <<b, q>> \notin outside'
      PROVE  Match(assignments', roles', b, q)
  <2>1. Match(assignments, roles, b, q)
    BY <1>1 DEF RolesInv, AllMatch
  <2>2. q \in roles'[b] <=> q \in roles[b]
    BY <1>1
  <2> QED BY <2>1, <2>2 DEF Match
<1> QED BY <1>1 DEF RolesInv, AllMatch

LEMMA ExpiredMatch ==
  ASSUME RolesInv, ExpireRoles
  PROVE  RolesInv'
<1>1. assignments' \in Lists /\ roles' \in Helds
  BY DEF RolesInv, AllMatch, ExpireRoles, Without, Lists, Helds
<1>2. \A b \in Agents, q \in RoleNames :
        q \in roles'[b] <=>
          (q \in roles[b] /\ ~\E i \in AssignmentIds : On(assignments, i, b, q) /\ i \in Expired)
  BY DEF RolesInv, AllMatch, Helds, ExpireRoles, Lost, Expired, On
<1>3. \A i \in AssignmentIds, b \in Agents, q \in RoleNames :
        On(assignments', i, b, q) <=> (On(assignments, i, b, q) /\ i \notin Expired)
  BY DEF ExpireRoles, Without, On
<1>4. outside' = outside
  BY DEF ExpireRoles
<1>5. ASSUME NEW b \in Agents, NEW q \in RoleNames, <<b, q>> \notin outside
      PROVE  Match(assignments', roles', b, q)
  <2>1. Match(assignments, roles, b, q)
    BY <1>5 DEF RolesInv, AllMatch
  <2> QED BY <2>1, <1>2, <1>3 DEF Match
<1> QED BY <1>1, <1>4, <1>5 DEF RolesInv, AllMatch

LEMMA TimeMatch ==
  ASSUME RolesInv, NEW i \in AssignmentIds, TimePasses(i)
  PROVE  RolesInv'
<1>1. assignments[i] \in Assignment
  BY DEF TimePasses, RolesInv, AllMatch, Lists
<1>2. /\ assignments'[i] = [assignments[i] EXCEPT !.expired = TRUE]
      /\ \A j \in AssignmentIds \ {i} : assignments'[j] = assignments[j]
      /\ DOMAIN assignments' = AssignmentIds
  BY DEF TimePasses, RolesInv, AllMatch, Lists
<1>3. /\ assignments'[i] \in Assignment
      /\ assignments'[i] # Free
      /\ assignments'[i].agent = assignments[i].agent
      /\ assignments'[i].role = assignments[i].role
  BY <1>1, <1>2 DEF Assignment, Free
<1>4. assignments' \in Lists
  BY <1>2, <1>3 DEF TimePasses, RolesInv, AllMatch, Lists
<1>5. \A j \in AssignmentIds, b \in Agents, q \in RoleNames :
        On(assignments', j, b, q) <=> On(assignments, j, b, q)
  BY <1>2, <1>3 DEF TimePasses, On
<1>6. UNCHANGED <<roles, outside>>
  BY DEF TimePasses, memberVars
<1>7. ASSUME NEW b \in Agents, NEW q \in RoleNames, <<b, q>> \notin outside
      PROVE  Match(assignments', roles', b, q)
  <2>1. Match(assignments, roles, b, q)
    BY <1>7 DEF RolesInv, AllMatch
  <2> QED BY <2>1, <1>5, <1>6 DEF Match
<1> QED BY <1>4, <1>6, <1>7 DEF RolesInv, AllMatch

LEMMA RolesInvStep ==
  ASSUME RolesInv, [RolesNext]_rolesVars
  PROVE  RolesInv'
<1>1. ASSUME NEW a \in Agents, NEW r \in RoleNames, AssignRole(a, r)
      PROVE  RolesInv'
  <2>1. AllMatch(assignments, roles, outside) /\ outside' = outside
    BY <1>1 DEF RolesInv, AssignRole
  <2>2. r \notin roles[a] /\ Assigned(assignments, roles, a, r)
    BY <1>1 DEF AssignRole, Assignable
  <2>3. AllMatch(assignments', roles', outside)
    BY <2>1, <2>2, AssignedMatch
  <2> QED BY <2>1, <2>3 DEF RolesInv
<1>2. ASSUME NEW a \in Agents, NEW r \in RoleNames, RevokeRole(a, r)
      PROVE  RolesInv'
  BY <1>2, RevokedMatch DEF RolesInv, RevokeRole
<1>3. ASSUME NEW a \in Agents, NEW b \in Agents, NEW r \in RoleNames, TransferRole(a, b, r)
      PROVE  RolesInv'
  <2> DEFINE list == Unassigned(a, r)
             held == Deprived(a, r)
             out == outside \ {<<a, r>>}
  <2>1. AllMatch(list, held, out)
    BY RevokedMatch
  <2>2. outside' = out
    BY <1>3 DEF TransferRole
  <2>3. \/ r \notin held[b] /\ Assigned(list, held, b, r)
        \/ roles' = held /\ assignments' = list
    BY <1>3 DEF TransferRole, Assignable
  <2> HIDE DEF list, held, out
  <2>4. AllMatch(assignments', roles', out)
    BY <2>1, <2>3, AssignedMatch
  <2> QED BY <2>2, <2>4 DEF RolesInv
<1>4. ASSUME NEW a \in Agents, NEW r \in RoleNames, GrantRole(a, r)
      PROVE  RolesInv'
  <2>1. roles' = [roles EXCEPT ![a] = roles[a] \cup {r}] /\ roles \in Helds
    BY <1>4 DEF GrantRole, RolesInv, AllMatch
  <2>2. /\ roles' \in Helds
        /\ \A b \in Agents : roles'[b] \ {r} = roles[b] \ {r}
        /\ \A b \in Agents \ {a} : roles'[b] = roles[b]
    BY <2>1 DEF Helds
  <2> QED BY <1>4, <2>2, OutsideMatch DEF GrantRole
<1>5. ASSUME NEW a \in Agents, NEW r \in RoleNames, ForceRevokeRole(a, r)
      PROVE  RolesInv'
  <2>1. roles' = [roles EXCEPT ![a] = roles[a] \ {r}] /\ roles \in Helds
    BY <1>5 DEF ForceRevokeRole, Deprived, RolesInv, AllMatch
  <2>2. /\ roles' \in Helds
        /\ \A b \in Agents : roles'[b] \ {r} = roles[b] \ {r}
        /\ \A b \in Agents \ {a} : roles'[b] = roles[b]
    BY <2>1 DEF Helds
  <2> QED BY <1>5, <2>2, OutsideMatch DEF ForceRevokeRole
<1>6. CASE UNCHANGED <<roles, assignments, outside>>
  BY <1>6 DEF RolesInv, AllMatch, Match, On
<1>7. ASSUME NEW r \in RoleNames, NEW d \in Definitions, DefineRole(r, d)
      PROVE  UNCHANGED <<roles, assignments, outside>>
  BY <1>7 DEF DefineRole, memberVars
<1>8. ASSUME NEW a \in Agents, AuthorityMoves(a) \/ \E s \in AgentStatus : StatusMoves(a, s),
             UNCHANGED ownRoles
      PROVE  UNCHANGED <<roles, assignments, outside>>
  BY <1>8 DEF AuthorityMoves, StatusMoves, ownRoles
<1>9. UNCHANGED rolesVars => UNCHANGED <<roles, assignments, outside>>
  BY DEF rolesVars, ownRoles, memberVars
<1> QED BY <1>1, <1>2, <1>3, <1>4, <1>5, <1>6, <1>7, <1>8, <1>9, ExpiredMatch, TimeMatch
        DEF RolesNext

(* What matches is counted right, whether or not there are finitely many   *)
(* assignments.                                                            *)
LEMMA MatchCounts ==
  ASSUME RolesInv
  PROVE  AssignmentsBack
<1> SUFFICES ASSUME NEW a \in Agents, NEW r \in RoleNames, <<a, r>> \notin outside
             PROVE  Cardinality(Of(assignments, a, r)) = IF r \in roles[a] THEN 1 ELSE 0
  BY DEF AssignmentsBack
<1>1. Match(assignments, roles, a, r)
  BY DEF RolesInv, AllMatch
<1>2. \A i : i \in Of(assignments, a, r) <=> i \in AssignmentIds /\ On(assignments, i, a, r)
  BY DEF Of, On
<1>3. CASE r \in roles[a]
  <2>1. PICK i \in AssignmentIds : Of(assignments, a, r) = {i}
    BY <1>1, <1>2, <1>3 DEF Match
  <2> QED BY <2>1, <1>3, FS_Singleton
<1>4. CASE r \notin roles[a]
  <2>1. Of(assignments, a, r) = {}
    BY <1>1, <1>2, <1>4 DEF Match
  <2> QED BY <2>1, <1>4, FS_EmptySet
<1> QED BY <1>3, <1>4

(* For any agents, roles and assignments: what only the engine has touched *)
(* is held by exactly one assignment, or is not held and has none.         *)
THEOREM RolesAreAssigned == Spec => []RolesAssigned
<1> DEFINE Inv == focus = "roles" => RolesInv
<1>1. Init => Inv
  BY RolesInvInit DEF Init
<1>2. Inv /\ [Next]_vars => Inv'
  BY RolesInvStep, Steps
<1>3. Inv => RolesAssigned
  BY MatchCounts DEF RolesAssigned
<1> HIDE DEF Inv
<1> QED BY <1>1, <1>2, <1>3, PTL DEF Spec

LEMMA RolesTypeInit == RolesInit => RolesTypeOK
  BY DEF RolesInit, RolesTypeOK

(* An assignment that is taken, dropped or runs out.                       *)
LEMMA AssignedType ==
  ASSUME NEW list \in Lists, NEW held \in Helds, NEW a \in Agents, NEW r \in RoleNames,
         Assigned(list, held, a, r)
  PROVE  assignments' \in Lists /\ roles' \in Helds
<1>1. PICK i \in AssignmentIds :
        assignments' = [list EXCEPT ![i] = [agent |-> a, role |-> r, expired |-> FALSE]]
  BY DEF Assigned
<1>2. [agent |-> a, role |-> r, expired |-> FALSE] \in Assignment
  BY DEF Assignment
<1>3. roles' = [held EXCEPT ![a] = held[a] \cup {r}]
  BY DEF Assigned
<1> QED BY <1>1, <1>2, <1>3 DEF Lists, Helds

LEMMA RevokedType ==
  ASSUME assignments \in Lists, roles \in Helds, NEW a \in Agents, NEW r \in RoleNames
  PROVE  Unassigned(a, r) \in Lists /\ Deprived(a, r) \in Helds
<1>1. Unassigned(a, r) \in Lists
  BY DEF Unassigned, Without, Lists
<1>2. Deprived(a, r) \in Helds
  BY DEF Deprived, Helds
<1> QED BY <1>1, <1>2

LEMMA RolesTypeStep ==
  ASSUME MembersTypeOK, RolesTypeOK, RolesNext
  PROVE  /\ MembersTypeOK' /\ RolesTypeOK'
         /\ \A a \in Agents : Registered(a)' <=> Registered(a)
<1>1. assignments \in Lists /\ roles \in Helds
  BY DEF MembersTypeOK, RolesTypeOK, Lists, Helds
<1>2. ASSUME UNCHANGED <<authority, status, credits>>, roles' \in Helds,
             assignments' \in Lists, outside' \subseteq Agents \X RoleNames,
             defined' \in [RoleNames -> [min : 0..100, holders : Nat] \cup {Undefined}]
      PROVE  /\ MembersTypeOK' /\ RolesTypeOK'
             /\ \A a \in Agents : Registered(a)' <=> Registered(a)
  BY <1>2 DEF MembersTypeOK, RolesTypeOK, Lists, Helds, Registered
<1>3. ASSUME NEW r \in RoleNames, NEW d \in Definitions, DefineRole(r, d)
      PROVE  /\ MembersTypeOK' /\ RolesTypeOK'
             /\ \A a \in Agents : Registered(a)' <=> Registered(a)
  <2>1. Blueprint(d) \in [min : 0..100, holders : Nat]
    BY RolesAssumption DEF Blueprint
  <2> QED BY <1>1, <1>2, <1>3, <2>1 DEF DefineRole, RolesTypeOK, memberVars
<1>4. ASSUME NEW a \in Agents, NEW r \in RoleNames, AssignRole(a, r)
      PROVE  /\ MembersTypeOK' /\ RolesTypeOK'
             /\ \A b \in Agents : Registered(b)' <=> Registered(b)
  BY <1>1, <1>2, <1>4, AssignedType DEF AssignRole, RolesTypeOK
<1>5. ASSUME NEW a \in Agents, NEW r \in RoleNames,
             RevokeRole(a, r) \/ ForceRevokeRole(a, r) \/ GrantRole(a, r)
      PROVE  /\ MembersTypeOK' /\ RolesTypeOK'
             /\ \A b \in Agents : Registered(b)' <=> Registered(b)
  <2>1. roles' \in Helds
    BY <1>1, <1>5, RevokedType DEF RevokeRole, ForceRevokeRole, GrantRole, Helds
  <2> QED BY <1>1, <1>2, <1>5, <2>1, RevokedType
          DEF RevokeRole, ForceRevokeRole, GrantRole, RolesTypeOK
<1>6. ASSUME NEW a \in Agents, NEW b \in Agents, NEW r \in RoleNames, TransferRole(a, b, r)
      PROVE  /\ MembersTypeOK' /\ RolesTypeOK'
             /\ \A c \in Agents : Registered(c)' <=> Registered(c)
  <2>1. Unassigned(a, r) \in Lists /\ Deprived(a, r) \in Helds
    BY <1>1, RevokedType
  <2>2. assignments' \in Lists /\ roles' \in Helds
    BY <1>6, <2>1, AssignedType DEF TransferRole
  <2> QED BY <1>2, <1>6, <2>2 DEF TransferRole, RolesTypeOK
<1>7. ASSUME ExpireRoles
      PROVE  /\ MembersTypeOK' /\ RolesTypeOK'
             /\ \A c \in Agents : Registered(c)' <=> Registered(c)
  <2>1. assignments' \in Lists /\ roles' \in Helds
    BY <1>1, <1>7 DEF ExpireRoles, Without, Lists, Helds
  <2> QED BY <1>2, <1>7, <2>1 DEF ExpireRoles, RolesTypeOK
<1>8. ASSUME NEW i \in AssignmentIds, TimePasses(i)
      PROVE  /\ MembersTypeOK' /\ RolesTypeOK'
             /\ \A c \in Agents : Registered(c)' <=> Registered(c)
  <2>1. assignments' \in Lists
    BY <1>1, <1>8 DEF TimePasses, Lists, Assignment
  <2> QED BY <1>1, <1>2, <1>8, <2>1 DEF TimePasses, RolesTypeOK, memberVars
<1>9. ASSUME NEW a \in Agents, AuthorityMoves(a) \/ \E s \in AgentStatus : StatusMoves(a, s),
             UNCHANGED ownRoles
      PROVE  /\ MembersTypeOK' /\ RolesTypeOK'
             /\ \A c \in Agents : Registered(c)' <=> Registered(c)
  BY <1>9, MovesType, MovesRegister DEF RolesTypeOK, ownRoles
<1> QED BY <1>3, <1>4, <1>5, <1>6, <1>7, <1>8, <1>9 DEF RolesNext

-----------------------------------------------------------------------------
(* Amendments.                                                             *)

(* What can be cast: authorities are numbers.                              *)
Typed == authority \in [Agents -> 0..100] /\ AmendmentsTypeOK

Open(x) == amendments[x].status \in {"proposed", "voting"}

LEMMA OpenIsPending ==
  ASSUME AmendmentsTypeOK, NEW x \in AmendmentIds, Open(x)
  PROVE  amendments[x] \in Pending
  BY DEF AmendmentsTypeOK, Amendment, Open, AppliedAs, Refused, Unproposed

LEMMA RewordedInvariant ==
  ASSUME AmendmentsTypeOK, NEW x \in AmendmentIds, Open(x), NEW inv \in constitution
  PROVE  /\ Reworded(x, inv) \in [id : InvariantIds, keywords : SUBSET Words, since : Nat]
         /\ Reworded(x, inv).id = inv.id
         /\ Reworded(x, inv).since = inv.since
         /\ inv.id # amendments[x].target => Reworded(x, inv) = inv
         /\ amendments[x].kind = "add_keywords" =>
              inv.keywords \subseteq Reworded(x, inv).keywords
<1>1. inv \in [id : InvariantIds, keywords : SUBSET Words, since : Nat]
  BY DEF AmendmentsTypeOK
<1>2. amendments[x].words \subseteq Words
  BY OpenIsPending DEF Pending
<1> QED BY <1>1, <1>2 DEF Reworded

LEMMA AmendedType ==
  ASSUME AmendmentsTypeOK, NEW x \in AmendmentIds, Open(x)
  PROVE  Amended(x) \subseteq [id : InvariantIds, keywords : SUBSET Words, since : Nat]
<1>1. amendments[x] \in Pending
  BY OpenIsPending
<1>2. CASE amendments[x].kind = "add_invariant"
  BY <1>1, <1>2 DEF Amended, AmendmentsTypeOK, Pending
<1>3. CASE amendments[x].kind = "remove_invariant"
  BY <1>3 DEF Amended, AmendmentsTypeOK
<1>4. CASE amendments[x].kind \in {"add_keywords", "remove_keywords"}
  BY <1>4, RewordedInvariant DEF Amended
<1> QED BY <1>1, <1>2, <1>3, <1>4 DEF Pending, Kind

LEMMA AmendmentsTypeInit == AmendmentsInit => AmendmentsTypeOK
  BY AmendmentsAssumption DEF AmendmentsInit, AmendmentsTypeOK, InvariantIds, Amendment

LEMMA AmendmentsTypeStep ==
  ASSUME Typed, AmendmentsNext \/ UNCHANGED ownAmendments
  PROVE  AmendmentsTypeOK'
<1> USE DEF Typed
<1>1. ASSUME NEW a \in Agents, NEW x \in AmendmentIds, NEW kind \in Kind,
             NEW id \in InvariantIds, NEW words \in SUBSET Words, NEW text \in Texts,
             ProposeAmendment(a, x, kind, id, words, text)
      PROVE  AmendmentsTypeOK'
  <2>1. [status |-> "proposed", kind |-> kind, target |-> id, words |-> words,
         text |-> text, for |-> 0, against |-> 0, voters |-> {}] \in Amendment
    BY AmendmentsAssumption DEF Amendment, Pending
  <2> QED BY <1>1, <2>1 DEF ProposeAmendment, AmendmentsTypeOK
<1>2. ASSUME NEW x \in AmendmentIds, ReviewAmendment(x)
      PROVE  AmendmentsTypeOK'
  <2>1. amendments[x] \in Pending
    BY <1>2, OpenIsPending DEF ReviewAmendment, Open
  <2>2. {Refused, [amendments[x] EXCEPT !.status = "voting"]} \subseteq Amendment
    BY <2>1 DEF Amendment, Pending
  <2> QED BY <1>2, <2>2 DEF ReviewAmendment, AmendmentsTypeOK
<1>3. ASSUME NEW a \in Agents, NEW x \in AmendmentIds, NEW approve \in BOOLEAN,
             VoteAmendment(a, x, approve)
      PROVE  AmendmentsTypeOK'
  <2>1. amendments[x] \in Pending
    BY <1>3, OpenIsPending DEF VoteAmendment, Open
  <2>2. amendments'[x] \in Pending
    BY <1>3, <2>1 DEF VoteAmendment, AmendmentsTypeOK, Pending
  <2>3. amendments' = [amendments EXCEPT ![x] = amendments'[x]]
    BY <1>3 DEF VoteAmendment, AmendmentsTypeOK
  <2> QED BY <1>3, <2>2, <2>3 DEF VoteAmendment, AmendmentsTypeOK, Amendment
<1>4. ASSUME NEW x \in AmendmentIds, ApplyAmendment(x)
      PROVE  AmendmentsTypeOK'
  <2>1. Open(x) /\ amendments[x] \in Pending
    BY <1>4, OpenIsPending DEF ApplyAmendment, Open
  <2>2. AppliedAs(amendments[x].kind) \in Amendment /\ Refused \in Amendment
    BY <2>1 DEF Amendment, Pending
  <2> QED BY <1>4, <2>1, <2>2, AmendedType DEF ApplyAmendment, AmendmentsTypeOK
<1>5. ASSUME NEW a \in Agents, AuthorityMoves(a), UNCHANGED ownAmendments
      PROVE  AmendmentsTypeOK'
  BY <1>5 DEF ownAmendments, AmendmentsTypeOK
<1>6. CASE UNCHANGED ownAmendments
  BY <1>6 DEF ownAmendments, AmendmentsTypeOK
<1> QED BY <1>1, <1>2, <1>3, <1>4, <1>5, <1>6 DEF AmendmentsNext

(* No amendment that is still to be decided would take anything from INV-1 *)
(* or INV-2: it was proposed when they were in the constitution, and they  *)
(* are there for ever.                                                     *)
Lawful ==
  \A x \in AmendmentIds :
    Open(x) /\ amendments[x].kind \in {"remove_invariant", "remove_keywords"} =>
      amendments[x].target \notin ImmutableIds

LEMMA AmendedFoundations ==
  ASSUME AmendmentsTypeOK, Lawful, FoundationsStand, NEW x \in AmendmentIds, Open(x),
         NEW id \in {"INV-1", "INV-2"}
  PROVE  \E inv \in Amended(x) : inv.id = id /\ Foundation[id] \subseteq inv.keywords
<1>1. PICK inv \in constitution : inv.id = id /\ Foundation[id] \subseteq inv.keywords
  BY DEF FoundationsStand
<1>2. CASE amendments[x].kind = "add_invariant"
  BY <1>1, <1>2 DEF Amended
<1>3. CASE amendments[x].kind = "remove_invariant"
  BY <1>1, <1>3 DEF Amended, Lawful, ImmutableIds
<1>4. CASE amendments[x].kind \in {"add_keywords", "remove_keywords"}
  <2>1. Reworded(x, inv) \in Amended(x)
    BY <1>4, <1>1 DEF Amended
  <2>2. inv.keywords \subseteq Reworded(x, inv).keywords
    BY <1>1, <1>4, RewordedInvariant DEF Lawful, ImmutableIds
  <2> QED BY <1>1, <2>1, <2>2, RewordedInvariant
<1> QED BY <1>2, <1>3, <1>4, OpenIsPending DEF Pending, Kind

LEMMA LawfulInit ==
  ASSUME AmendmentsInit
  PROVE  Lawful /\ FoundationsStand
<1>1. Lawful
  BY DEF AmendmentsInit, Lawful, Open, Unproposed
<1>2. ASSUME NEW id \in {"INV-1", "INV-2"}
      PROVE  \E inv \in constitution : inv.id = id /\ Foundation[id] \subseteq inv.keywords
  <2>1. [id |-> id, keywords |-> Foundation[id], since |-> 0] \in constitution
    BY DEF AmendmentsInit
  <2> QED BY <2>1
<1> QED BY <1>1, <1>2 DEF FoundationsStand

LEMMA LawfulStep ==
  ASSUME Typed, Lawful, FoundationsStand, AmendmentsNext \/ UNCHANGED ownAmendments
  PROVE  Lawful' /\ FoundationsStand'
<1> USE DEF Typed
<1>1. ASSUME NEW a \in Agents, NEW x \in AmendmentIds, NEW kind \in Kind,
             NEW id \in InvariantIds, NEW words \in SUBSET Words, NEW text \in Texts,
             ProposeAmendment(a, x, kind, id, words, text)
      PROVE  Lawful' /\ FoundationsStand'
  <2>1. kind \in {"remove_invariant", "remove_keywords"} => id \notin ImmutableIds
    BY <1>1 DEF ProposeAmendment, MayPropose
  <2> QED BY <1>1, <2>1 DEF ProposeAmendment, AmendmentsTypeOK, Lawful, Open, FoundationsStand
<1>2. ASSUME NEW x \in AmendmentIds, ReviewAmendment(x)
      PROVE  Lawful' /\ FoundationsStand'
  <2>1. Open(x) /\ amendments[x] \in Pending
    BY <1>2, OpenIsPending DEF ReviewAmendment, Open
  <2> QED BY <1>2, <2>1
          DEF ReviewAmendment, AmendmentsTypeOK, Lawful, Open, Pending, Refused, FoundationsStand
<1>3. ASSUME NEW a \in Agents, NEW x \in AmendmentIds, NEW approve \in BOOLEAN,
             VoteAmendment(a, x, approve)
      PROVE  Lawful' /\ FoundationsStand'
  <2>1. Open(x) /\ amendments[x] \in Pending
    BY <1>3, OpenIsPending DEF VoteAmendment, Open
  <2> QED BY <1>3, <2>1
          DEF VoteAmendment, AmendmentsTypeOK, Lawful, Open, Pending, FoundationsStand
<1>4. ASSUME NEW x \in AmendmentIds, ApplyAmendment(x)
      PROVE  Lawful' /\ FoundationsStand'
  <2>1. Open(x)
    BY <1>4 DEF ApplyAmendment, Open
  <2>2. constitution' \in {constitution, Amended(x)}
    BY <1>4 DEF ApplyAmendment
  <2>3. FoundationsStand'
    BY <2>1, <2>2, AmendedFoundations DEF FoundationsStand
  <2> QED BY <1>4, <2>3 DEF ApplyAmendment, AmendmentsTypeOK, Lawful, Open, AppliedAs, Refused
<1>5. ASSUME NEW a \in Agents, AuthorityMoves(a), UNCHANGED ownAmendments
      PROVE  Lawful' /\ FoundationsStand'
  BY <1>5 DEF ownAmendments, Lawful, Open, FoundationsStand
<1>6. CASE UNCHANGED ownAmendments
  BY <1>6 DEF ownAmendments, Lawful, Open, FoundationsStand
<1> QED BY <1>1, <1>2, <1>3, <1>4, <1>5, <1>6 DEF AmendmentsNext

(* While no invariant has been removed as a whole, the review never lets   *)
(* an amendment to remove keywords through: among them is one in force.    *)
NoneRemoved == \A x \in Applied : amendments[x].kind # "remove_invariant"

Vetoable ==
  NoneRemoved =>
    \A x \in AmendmentIds : amendments[x].kind = "remove_keywords" =>
      /\ amendments[x].status # "voting"
      /\ amendments[x].status = "proposed" =>
           \E inv \in constitution : inv.keywords \cap amendments[x].words # {}

(* A step after which no invariant has been removed only adds keywords.    *)
LEMMA KeywordsGrow ==
  ASSUME Typed, Vetoable, NEW x \in AmendmentIds, ApplyAmendment(x), NoneRemoved,
         NEW inv \in constitution
  PROVE  \/ \E new \in constitution' :
              /\ new.id = inv.id /\ new.since = inv.since
              /\ inv.keywords \subseteq new.keywords
         \/ /\ amendments'[x] = AppliedAs("remove_invariant")
            /\ \A new \in constitution' : new.id # inv.id
<1>1. Open(x) /\ amendments[x] \in Pending
  BY OpenIsPending DEF ApplyAmendment, Open, Typed
<1>2. CASE constitution' = constitution
  BY <1>2
<1>3. CASE constitution' = Amended(x) /\ amendments'[x] = AppliedAs(amendments[x].kind)
  <2>1. CASE amendments[x].kind = "add_invariant"
    BY <1>3, <2>1 DEF Amended
  <2>2. CASE amendments[x].kind = "remove_invariant"
    <3>1. CASE inv.id = amendments[x].target
      BY <1>3, <2>2, <3>1 DEF Amended
    <3>2. CASE inv.id # amendments[x].target
      BY <1>3, <2>2, <3>2 DEF Amended
    <3> QED BY <3>1, <3>2
  <2>3. CASE amendments[x].kind = "add_keywords"
    <3>1. Reworded(x, inv) \in constitution'
      BY <1>3, <2>3 DEF Amended
    <3> QED BY <1>1, <2>3, <3>1, RewordedInvariant DEF Typed
  <2>4. amendments[x].kind # "remove_keywords"
    BY DEF Vetoable, ApplyAmendment
  <2> QED BY <1>1, <2>1, <2>2, <2>3, <2>4 DEF Pending, Kind
<1> QED BY <1>2, <1>3 DEF ApplyAmendment, Typed, AmendmentsTypeOK

LEMMA VetoableInit ==
  ASSUME AmendmentsInit
  PROVE  Vetoable
  BY DEF AmendmentsInit, Vetoable, Unproposed

LEMMA VetoableStep ==
  ASSUME Typed, Vetoable, AmendmentsNext \/ UNCHANGED ownAmendments
  PROVE  Vetoable'
<1> USE DEF Typed
<1>1. ASSUME NEW a \in Agents, NEW x \in AmendmentIds, NEW kind \in Kind,
             NEW id \in InvariantIds, NEW words \in SUBSET Words, NEW text \in Texts,
             ProposeAmendment(a, x, kind, id, words, text)
      PROVE  Vetoable'
  <2>1. NoneRemoved' => NoneRemoved
    BY <1>1 DEF ProposeAmendment, NoneRemoved, Applied, Unproposed, AmendmentsTypeOK
  <2>2. kind = "remove_keywords" =>
          \E inv \in constitution : inv.keywords \cap words # {}
    <3>1. SUFFICES ASSUME kind = "remove_keywords"
                   PROVE  \E inv \in constitution : inv.keywords \cap words # {}
      OBVIOUS
    <3>2. PICK inv \in First(id) : words \subseteq inv.keywords /\ words # inv.keywords
      BY <1>1, <3>1 DEF ProposeAmendment, MayPropose
    <3> QED BY <1>1, <3>1, <3>2 DEF ProposeAmendment, MayPropose, First
  <2> QED BY <1>1, <2>1, <2>2 DEF ProposeAmendment, Vetoable, AmendmentsTypeOK
<1>2. ASSUME NEW x \in AmendmentIds, ReviewAmendment(x)
      PROVE  Vetoable'
  <2>1. Open(x) /\ amendments[x] \in Pending
    BY <1>2, OpenIsPending DEF ReviewAmendment, Open
  <2>2. NoneRemoved' => NoneRemoved
    BY <1>2 DEF ReviewAmendment, NoneRemoved, Applied, AmendmentsTypeOK
  <2>3. CASE Violated(ReviewText(x)) # {}
    BY <1>2, <2>2, <2>3 DEF ReviewAmendment, Vetoable, Refused, AmendmentsTypeOK
  <2>4. CASE Violated(ReviewText(x)) = {}
    <3>1. NoneRemoved => amendments[x].kind # "remove_keywords"
      BY <1>2, <2>4 DEF ReviewAmendment, Vetoable, Violated, ReviewText
    <3> QED BY <1>2, <2>1, <2>2, <2>4, <3>1
            DEF ReviewAmendment, Vetoable, AmendmentsTypeOK, Pending
  <2> QED BY <2>3, <2>4
<1>3. ASSUME NEW a \in Agents, NEW x \in AmendmentIds, NEW approve \in BOOLEAN,
             VoteAmendment(a, x, approve)
      PROVE  Vetoable'
  <2>1. Open(x) /\ amendments[x] \in Pending
    BY <1>3, OpenIsPending DEF VoteAmendment, Open
  <2>2. \A y \in AmendmentIds : /\ amendments'[y].status = amendments[y].status
                               /\ amendments'[y].kind = amendments[y].kind
                               /\ amendments'[y].words = amendments[y].words
    BY <1>3, <2>1 DEF VoteAmendment, AmendmentsTypeOK, Pending
  <2>3. UNCHANGED constitution
    BY <1>3 DEF VoteAmendment
  <2>4. NoneRemoved' => NoneRemoved
    BY <2>2 DEF NoneRemoved, Applied
  <2> QED BY <2>2, <2>3, <2>4 DEF Vetoable
<1>4. ASSUME NEW x \in AmendmentIds, ApplyAmendment(x)
      PROVE  Vetoable'
  <2>1. SUFFICES ASSUME NoneRemoved'
                 PROVE  \A y \in AmendmentIds : amendments'[y].kind = "remove_keywords" =>
                          /\ amendments'[y].status # "voting"
                          /\ amendments'[y].status = "proposed" =>
                               \E inv \in constitution' :
                                 inv.keywords \cap amendments'[y].words # {}
    BY DEF Vetoable
  <2>2. amendments'[x] \in {AppliedAs(amendments[x].kind), Refused}
        /\ \A y \in AmendmentIds \ {x} : amendments'[y] = amendments[y]
    BY <1>4 DEF ApplyAmendment, AmendmentsTypeOK
  <2>3. NoneRemoved /\ amendments'[x] # AppliedAs("remove_invariant")
    BY <1>4, <2>1, <2>2 DEF NoneRemoved, Applied, ApplyAmendment, AppliedAs
  <2>4. TAKE y \in AmendmentIds
  <2>5. CASE y = x
    BY <2>2, <2>5 DEF AppliedAs, Refused
  <2>6. CASE y # x
    <3>1. amendments[y].kind = "remove_keywords" /\ amendments[y].status = "proposed" =>
            \E inv \in constitution : inv.keywords \cap amendments[y].words # {}
      BY <2>3 DEF Vetoable
    <3>2. \A inv \in constitution : \E new \in constitution' : inv.keywords \subseteq new.keywords
      BY <1>4, <2>3, KeywordsGrow
    <3> QED BY <2>2, <2>3, <2>6, <3>1, <3>2 DEF Vetoable
  <2> QED BY <2>5, <2>6
<1>5. ASSUME NEW a \in Agents, AuthorityMoves(a), UNCHANGED ownAmendments
      PROVE  Vetoable'
  BY <1>5 DEF ownAmendments, Vetoable, NoneRemoved, Applied
<1>6. CASE UNCHANGED ownAmendments
  BY <1>6 DEF ownAmendments, Vetoable, NoneRemoved, Applied
<1> QED BY <1>1, <1>2, <1>3, <1>4, <1>5, <1>6 DEF AmendmentsNext

(* What one step does to the keywords.                                     *)
KeywordsStep ==
  NoneRemoved =>
    \A inv \in constitution :
      \/ \E new \in constitution' :
           /\ new.id = inv.id /\ new.since = inv.since
           /\ inv.keywords \subseteq new.keywords
      \/ \A new \in constitution' : new.id # inv.id

LEMMA KeywordsStayStep ==
  ASSUME Typed, Vetoable, AmendmentsNext
  PROVE  KeywordsStep
<1>1. CASE UNCHANGED constitution
  BY <1>1 DEF KeywordsStep
<1>2. ASSUME NEW x \in AmendmentIds, ApplyAmendment(x)
      PROVE  KeywordsStep
  BY <1>2, KeywordsGrow DEF KeywordsStep
<1>3. ASSUME NEW a \in Agents, NEW x \in AmendmentIds, NEW approve \in BOOLEAN,
             VoteAmendment(a, x, approve)
      PROVE  UNCHANGED constitution
  BY <1>3 DEF VoteAmendment
<1>4. ASSUME NEW x \in AmendmentIds, ReviewAmendment(x)
      PROVE  UNCHANGED constitution
  BY <1>4 DEF ReviewAmendment
<1> QED BY <1>1, <1>2, <1>3, <1>4 DEF AmendmentsNext, ProposeAmendment, ownAmendments

-----------------------------------------------------------------------------
(* All institutions together: the types of each rest on the agents, whose  *)
(* own types and number each of them keeps.                                *)

SoundInv ==
  /\ PredictionTypes          \* with the agents
  /\ LifecycleInv
  /\ RolesTypeOK
  /\ AmendmentsTypeOK
  /\ FederationInv
  /\ ReputationInv
  /\ MemoryInv

LEMMA SoundInit == Init => SoundInv
<1> SUFFICES ASSUME Init PROVE SoundInv
  OBVIOUS
<1>1. PredictionTypes /\ MembersTypeOK
  BY PredictionTypesInit, MembersTypeInit DEF Init
<1>2. LifecycleInv
  <2>1. LifecycleTypeOK
    <3>1. PICK h \in [Founders -> Histories] :
            /\ actions = [a \in Agents |-> IF a \in Founders THEN h[a][1] ELSE 0]
            /\ successes = [a \in Agents |-> IF a \in Founders THEN h[a][2] ELSE 0]
      BY DEF Init, LifecycleInit
    <3>2. \A a \in Founders : h[a][1] \in Nat /\ h[a][2] \in Nat
      BY LifecycleAssumption
    <3> QED BY <3>1, <3>2 DEF LifecycleTypeOK
  <2>2. Members = Founders
    BY MembersAssumption DEF Init, MembersInit, Members, Registered
  <2> QED BY <1>1, <2>1, <2>2, MembersAssumption DEF LifecycleInv, LifecycleTypes
<1>3. RolesTypeOK /\ AmendmentsTypeOK /\ FederationInv /\ ReputationInv /\ MemoryInv
  BY RolesTypeInit, AmendmentsTypeInit, FederationInvInit, ReputationInvInit, MemoryInvInit
  DEF Init
<1> QED BY <1>1, <1>2, <1>3 DEF SoundInv

(* What the institutions that count nothing do to the agents.              *)
LEMMA OthersMove ==
  ASSUME AmendmentsNext \/ FederationNext \/ ReputationNext \/ MemoryNext
  PROVE  \/ UNCHANGED memberVars
         \/ \E a \in Agents : AuthorityMoves(a) \/ \E s \in AgentStatus : StatusMoves(a, s)
<1>1. CASE AmendmentsNext
  <2>1. ASSUME NEW x \in AmendmentIds, NEW a \in Agents, NEW kind \in Kind,
               NEW id \in InvariantIds, NEW words \in SUBSET Words, NEW text \in Texts,
               ProposeAmendment(a, x, kind, id, words, text)
        PROVE  UNCHANGED memberVars
    BY <2>1 DEF ProposeAmendment
  <2>2. ASSUME NEW x \in AmendmentIds, ReviewAmendment(x) \/ ApplyAmendment(x)
        PROVE  UNCHANGED memberVars
    BY <2>2 DEF ReviewAmendment, ApplyAmendment
  <2>3. ASSUME NEW x \in AmendmentIds, NEW a \in Agents, NEW approve \in BOOLEAN,
               VoteAmendment(a, x, approve)
        PROVE  UNCHANGED memberVars
    BY <2>3 DEF VoteAmendment
  <2> QED BY <1>1, <2>1, <2>2, <2>3 DEF AmendmentsNext
<1>2. CASE FederationNext
  BY <1>2 DEF FederationNext, RegisterPeer, SendMessage, SecondAgent, SuspendPeer,
              ReactivatePeer, RevokePeer, UpdateTrust, DecayTrust, EndSecondment,
              SecondmentTimePasses, ExpireSecondments
<1>3. CASE ReputationNext
  BY <1>3 DEF ReputationNext, IssueReputation, ImportReputation, RevokeAttestation,
              DecayImports
<1>4. CASE MemoryNext
  BY <1>4 DEF MemoryNext, ContributeMemory, ReinforceMemory, ChallengeMemory, ApplyDecay,
              ResolveConflict
<1> QED BY <1>1, <1>2, <1>3, <1>4

LEMMA OthersType ==
  ASSUME MembersTypeOK, AmendmentsNext \/ FederationNext \/ ReputationNext \/ MemoryNext
                          \/ UNCHANGED memberVars
  PROVE  MembersTypeOK' /\ \A b \in Agents : Registered(b)' <=> Registered(b)
<1>1. CASE UNCHANGED memberVars
  BY <1>1 DEF MembersTypeOK, Registered, memberVars
<1>2. CASE \E a \in Agents : AuthorityMoves(a) \/ \E s \in AgentStatus : StatusMoves(a, s)
  BY <1>2, MovesType, MovesRegister
<1> QED BY <1>1, <1>2, OthersMove

(* Only births bring agents.                                               *)
LEMMA PredictionRegister ==
  ASSUME MembersTypeOK, PredictionNext
  PROVE  \A b \in Agents : Registered(b)' <=> Registered(b)
<1>1. CASE UNCHANGED status
  BY <1>1 DEF Registered
<1>2. CASE \E a \in Agents, s \in AgentStatus : StatusMoves(a, s)
  BY <1>2, MovesRegister
<1> QED BY <1>1, <1>2 DEF PredictionNext, CreateMarket, Predict, CloseMarket, Resolve,
        CancelMarket, CloseExpiredMarkets, memberVars

LEMMA SameMembers ==
  ASSUME \A b \in Agents : Registered(b)' <=> Registered(b)
  PROVE  Members' = Members
  BY DEF Members

(* What a step of the lifecycle does.                                      *)
LEMMA LifecycleStep ==
  ASSUME LifecycleInv, LifecycleNext
  PROVE  /\ LifecycleInv'
         /\ \/ \A b \in Agents : Registered(b)' <=> Registered(b)
            \/ \E new \in SUBSET Agents :
                 /\ Born(new)
                 /\ \/ Wealth' = Wealth
                    \/ \A c \in new : \E a, b \in Agents :
                         Merge(a, b, c) /\ ~(Active(a) /\ Active(b))
<1>0. LifecycleTypes' /\ MembersTypeOK
  BY LifecycleTypesStep DEF LifecycleInv, LifecycleTypes
<1> DEFINE Effect(new) ==
      /\ Born(new)
      /\ \/ Wealth' = Wealth
         \/ \A c \in new : \E a, b \in Agents : Merge(a, b, c) /\ ~(Active(a) /\ Active(b))
<1>1. ASSUME NEW a \in Agents, AuthorityMoves(a) \/ StatusMoves(a, "active")
      PROVE  \A b \in Agents : Registered(b)' <=> Registered(b)
  BY <1>0, <1>1, MovesRegister DEF AgentStatus
<1>2. ASSUME NEW a \in Agents, NEW c \in Agents, NEW names \in SUBSET RoleNames, Spawn(a, c, names)
      PROVE  Effect({c})
  BY <1>2, SpawnBirth
<1>3. ASSUME NEW a \in Agents, NEW b \in Agents, NEW c \in Agents, Merge(a, b, c)
      PROVE  Effect({c})
  BY <1>3, MergeBirth
<1>4. ASSUME NEW a \in Agents, NEW c \in Agents, NEW d \in Agents, NEW ratio \in Ratios,
             Split(a, c, d, ratio)
      PROVE  Effect({c, d})
  BY <1>4, SplitBirth
<1> HIDE DEF Effect
<1>5. \/ \A b \in Agents : Registered(b)' <=> Registered(b)
      \/ \E new \in SUBSET Agents : Effect(new)
  <2>1. \A c, d \in Agents : {c} \in SUBSET Agents /\ {c, d} \in SUBSET Agents
    OBVIOUS
  <2>2. (\E a, c \in Agents : \E names \in SUBSET RoleNames : Spawn(a, c, names))
          => \E c \in Agents : Effect({c})
    BY <1>2
  <2>3. (\E a, b, c \in Agents : Merge(a, b, c)) => \E c \in Agents : Effect({c})
    BY <1>3
  <2>4. (\E a, c, d \in Agents : \E ratio \in Ratios : Split(a, c, d, ratio))
          => \E c, d \in Agents : Effect({c, d})
    BY <1>4
  <2>5. (\E c \in Agents : Effect({c})) \/ (\E c, d \in Agents : Effect({c, d}))
          => \E new \in SUBSET Agents : Effect(new)
    BY <2>1
  <2> HIDE <2>1
  <2> QED BY <1>1, <2>2, <2>3, <2>4, <2>5 DEF LifecycleNext
<1>6. IsFiniteSet(Members')
  BY <1>5, SameMembers DEF Effect, Born, LifecycleInv
<1> QED BY <1>0, <1>5, <1>6 DEF LifecycleInv, Effect

(* Who can change an agent in a step.                                      *)
LEMMA SoundMembers ==
  ASSUME SoundInv, [Next]_vars
  PROVE  /\ PredictionTypes'
         /\ LifecycleInv'
         /\ LifecycleNext \/ \A b \in Agents : Registered(b)' <=> Registered(b)
<1>0. /\ PredictionTypes /\ LifecycleInv /\ LifecycleTypeOK /\ MembersTypeOK
      /\ PredictionTypeOK /\ FinitelyHeld /\ RolesTypeOK
      /\ IsFiniteSet(Members)
  BY DEF SoundInv, PredictionTypes, LifecycleInv, LifecycleTypes
<1>1. ASSUME MembersTypeOK', UNCHANGED ownLifecycle,
             \A b \in Agents : Registered(b)' <=> Registered(b)
      PROVE  LifecycleInv'
  BY <1>0, <1>1, SameMembers DEF LifecycleInv, LifecycleTypes, LifecycleTypeOK, ownLifecycle
<1>2. ASSUME MembersTypeOK', UNCHANGED ownPrediction
      PROVE  PredictionTypes'
  BY <1>0, <1>2, PredictionTypesStutter DEF PredictionTypes
<1>3. CASE PredictionNext /\ UNCHANGED ownLifecycle
  <2>1. MembersTypeOK' /\ PredictionTypes'
    BY <1>0, <1>3, PredictionTypesStep DEF PredictionTypes
  <2> QED BY <1>0, <1>1, <1>3, <2>1, PredictionRegister
<1>4. CASE LifecycleNext /\ UNCHANGED ownPrediction
  <2>1. LifecycleInv' /\ MembersTypeOK'
    BY <1>0, <1>4, LifecycleStep DEF LifecycleInv, LifecycleTypes
  <2> QED BY <1>2, <1>4, <2>1
<1>5. CASE RolesNext /\ UNCHANGED <<ownPrediction, ownLifecycle>>
  BY <1>0, <1>1, <1>2, <1>5, RolesTypeStep
<1>6. CASE /\ AmendmentsNext \/ FederationNext \/ ReputationNext \/ MemoryNext
              \/ UNCHANGED memberVars
           /\ UNCHANGED <<ownPrediction, ownLifecycle>>
  BY <1>0, <1>1, <1>2, <1>6, OthersType
<1>7. CASE UNCHANGED vars
  BY <1>6, <1>7 DEF vars
<1> QED BY <1>3, <1>4, <1>5, <1>6, <1>7 DEF Next, Still

LEMMA SoundStep ==
  ASSUME SoundInv, [Next]_vars
  PROVE  SoundInv'
<1>1. PredictionTypes' /\ LifecycleInv'
  BY SoundMembers
<1>2. RolesTypeOK'
  <2>1. MembersTypeOK /\ RolesTypeOK
    BY DEF SoundInv, PredictionTypes
  <2> QED BY <2>1, RolesTypeStep, Steps DEF RolesTypeOK, ownRoles
<1>3. AmendmentsTypeOK'
  <2>1. Typed
    BY DEF SoundInv, PredictionTypes, MembersTypeOK, Typed
  <2> QED BY <2>1, AmendmentsTypeStep, Steps
<1>4. FederationInv' /\ ReputationInv' /\ MemoryInv'
  BY FederationStep, ReputationInvStep, MemoryInvStep, Steps DEF SoundInv
<1> QED BY <1>1, <1>2, <1>3, <1>4 DEF SoundInv

(* The institutions keep their types, and what these rest on, together,    *)
(* whatever the agents they share do between two calls of any of them.     *)
THEOREM Sound == Spec => []SoundInv
  BY SoundInit, SoundStep, PTL DEF Spec

(* For any agents, markets, roles, amendments, peers, attestations and     *)
(* memories: every institution stays well formed, whichever of them is     *)
(* called and whatever the agents do in between.                           *)
THEOREM InstitutionsTypeCorrect == Spec => []InstitutionsTypeOK
<1>1. SoundInv => InstitutionsTypeOK
  BY DEF SoundInv, InstitutionsTypeOK, PredictionTypes, LifecycleInv, LifecycleTypes,
         FederationInv, ReputationInv, MemoryInv
<1> QED BY <1>1, Sound, PTL

(* What a step does to newcomers and wealth.                               *)
BirthsStep ==
  \A c \in Agents : ~Registered(c) /\ Registered(c)' =>
    /\ \E p \in Agents : Registered(p) /\ authority'[c] <= authority[p]
    /\ \/ Wealth' = Wealth
       \/ \E a, b \in Agents : Merge(a, b, c) /\ ~(Active(a) /\ Active(b))

(* For any founders, ratios and shares, in whatever order agents spawn,    *)
(* merge and split: credits only move among the active, unless a merge     *)
(* takes somebody terminated, and authority never grows by being born.     *)
THEOREM BirthsAddNothing == Spec => BirthsCreateNothing
<1>1. SoundInv /\ [Next]_vars => [BirthsStep]_lifecycleVars
  <2> SUFFICES ASSUME SoundInv, [Next]_vars, NEW c \in Agents, ~Registered(c), Registered(c)'
               PROVE  /\ \E p \in Agents : Registered(p) /\ authority'[c] <= authority[p]
                      /\ \/ Wealth' = Wealth
                         \/ \E a, b \in Agents : Merge(a, b, c) /\ ~(Active(a) /\ Active(b))
    BY DEF BirthsStep
  <2>1. LifecycleInv /\ LifecycleNext
    BY SoundMembers DEF SoundInv
  <2>2. PICK new \in SUBSET Agents :
          /\ Born(new)
          /\ \/ Wealth' = Wealth
             \/ \A d \in new : \E a, b \in Agents :
                  Merge(a, b, d) /\ ~(Active(a) /\ Active(b))
    BY <2>1, LifecycleStep
  <2>3. c \in new
    BY <2>2 DEF Born
  <2> QED BY <2>2, <2>3 DEF Born
<1>2. Spec => [][BirthsStep]_lifecycleVars
  BY <1>1, Sound, PTL DEF Spec
<1> QED BY <1>2 DEF BirthsCreateNothing, BirthsStep

(* Whatever is proposed, voted and applied in whatever order, INV-1 and    *)
(* INV-2 keep every keyword of the source.                                 *)
THEOREM FoundationsAreKept == Spec => []FoundationsStand
<1> DEFINE Inv == Lawful /\ FoundationsStand
<1>1. Init => Inv
  BY LawfulInit DEF Init
<1>2. SoundInv /\ Inv /\ [Next]_vars => Inv'
  <2>1. SoundInv => Typed
    BY DEF SoundInv, PredictionTypes, MembersTypeOK, Typed
  <2> QED BY <2>1, LawfulStep, Steps
<1>3. Inv => FoundationsStand
  OBVIOUS
<1> HIDE DEF Inv
<1> QED BY <1>1, <1>2, <1>3, Sound, PTL DEF Spec

(* Whatever is proposed, reviewed, voted and applied in whatever order, no *)
(* invariant loses a keyword before one has been removed as a whole: the   *)
(* review reads the keywords to be removed and finds them violated.        *)
THEOREM KeywordsAreKept == Spec => KeywordsStay
<1>1. Init => Vetoable
  BY VetoableInit DEF Init
<1>2. SoundInv => Typed
  BY DEF SoundInv, PredictionTypes, MembersTypeOK, Typed
<1>3. SoundInv /\ Vetoable /\ [Next]_vars => Vetoable'
  BY <1>2, VetoableStep, Steps
<1>4. SoundInv /\ Vetoable /\ [Next]_vars => [KeywordsStep]_amendmentsVars
  <2>1. UNCHANGED ownAmendments => KeywordsStep
    BY DEF KeywordsStep, ownAmendments
  <2> QED BY <1>2, <2>1, KeywordsStayStep, Steps
<1>5. Spec => [][KeywordsStep]_amendmentsVars
  BY <1>1, <1>3, <1>4, Sound, PTL DEF Spec
<1> QED BY <1>5 DEF KeywordsStay, KeywordsStep, NoneRemoved

=============================================================================
