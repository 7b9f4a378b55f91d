----------------------------- MODULE Federation -----------------------------
(***************************************************************************)
(* The federation: peer FIRMs are registered, suspended, reactivated and   *)
(* revoked, messages are sent to them and agents lent to them, while the   *)
(* trust in them moves with every interaction.                             *)
(* Code: core/federation.py, Firm.register_peer, send_federation_message,  *)
(* second_agent and recall_secondment in runtime.py.                       *)
(*                                                                         *)
(* Trust is one of three: None at all, below MIN_TRUST_TO_SECOND, and      *)
(* Enough for that.  The authority of the agent that acts is an input, for *)
(* it is whatever it has come to.                                          *)
(***************************************************************************)
EXTENDS Members, FiniteSets

CONSTANTS
  Peers,          \* identifiers of other FIRMs
  Secondments,    \* identifiers a secondment can get
  FederateMin,    \* MIN_AUTHORITY_TO_FEDERATE, 70
  SendMin,        \* MIN_AUTHORITY_TO_SEND, 50
  SecondMin       \* MIN_AUTHORITY_TO_SECOND, 80

ASSUME FederationAssumption == {FederateMin, SendMin, SecondMin} \subseteq 0..100

VARIABLES
  peers,        \* FederationEngine._peers: the status of each
  trust,        \* PeerFirm.trust
  messaged,     \* FederationEngine._messages: the peers they went to
  secondments   \* FederationEngine._secondments

ownFederation == <<peers, trust, messaged, secondments>>

federationVars == <<memberVars, ownFederation>>

PeerStatus == {"active", "suspended", "revoked"}

NoTrust == 0
Low == 1
Enough == 2

(* An active secondment whose time is up is "overdue" until somebody calls *)
(* expire_secondments.  The completed, recalled and expired have "ended".  *)
Secondment == [agent : Agents, host : Peers, status : {"active", "overdue", "ended"}]

Unused == [status |-> "unused"]

FederationTypeOK ==
  /\ peers \in [Peers -> PeerStatus \cup {"absent"}]
  /\ trust \in [Peers -> NoTrust..Enough]
  /\ messaged \subseteq Peers
  /\ secondments \in [Secondments -> Secondment \cup {Unused}]

FederationInit ==
  /\ peers = [p \in Peers |-> "absent"]
  /\ trust = [p \in Peers |-> NoTrust]
  /\ messaged = {}
  /\ secondments = [s \in Secondments |-> Unused]

-----------------------------------------------------------------------------
(* Firm.register_peer: never twice, not even a peer that was revoked.      *)
RegisterPeer(x, p) ==
  /\ x >= FederateMin
  /\ peers[p] = "absent"
  /\ peers' = [peers EXCEPT ![p] = "active"]
  /\ trust' = [trust EXCEPT ![p] = Low]
  /\ UNCHANGED <<memberVars, messaged, secondments>>

(* FederationEngine.suspend_peer                                           *)
SuspendPeer(p) ==
  /\ peers[p] = "active"
  /\ peers' = [peers EXCEPT ![p] = "suspended"]
  /\ UNCHANGED <<memberVars, trust, messaged, secondments>>

(* FederationEngine.reactivate_peer                                        *)
ReactivatePeer(p) ==
  /\ peers[p] = "suspended"
  /\ peers' = [peers EXCEPT ![p] = "active"]
  /\ UNCHANGED <<memberVars, trust, messaged, secondments>>

Recalled_RunningOnly(p) ==
  {s \in Secondments : secondments[s].status = "active" /\ secondments[s].host = p}

(* What a revocation recalls: the overdue too.                             *)
Recalled(p) ==
  {s \in Secondments :
     secondments[s].status \in {"active", "overdue"} /\ secondments[s].host = p}

(* FederationEngine.revoke_peer, of any peer.                              *)
RevokePeer(p) ==
  /\ peers[p] # "absent"
  /\ peers' = [peers EXCEPT ![p] = "revoked"]
  /\ trust' = [trust EXCEPT ![p] = NoTrust]
  /\ secondments' = [s \in Secondments |->
       IF s \in Recalled(p) THEN [secondments[s] EXCEPT !.status = "ended"]
                            ELSE secondments[s]]
  /\ UNCHANGED <<memberVars, messaged>>

(* FederationEngine.update_trust, of any peer: the weight of the           *)
(* interaction may be any, and a revoked peer is trusted again in time.    *)
UpdateTrust(p, success) ==
  /\ peers[p] # "absent"
  /\ \E t \in NoTrust..Enough :
       /\ IF success THEN t >= trust[p] ELSE t <= trust[p]
       /\ trust' = [trust EXCEPT ![p] = t]
  /\ UNCHANGED <<memberVars, peers, messaged, secondments>>

(* FederationEngine.apply_trust_decay: a hundredth off the trust in each   *)
(* active peer, which may take it below the threshold and never to zero.   *)
DecayTrust(below) ==
  /\ \A p \in below : peers[p] = "active" /\ trust[p] = Enough
  /\ trust' = [p \in Peers |-> IF p \in below THEN Low ELSE trust[p]]
  /\ UNCHANGED <<memberVars, peers, messaged, secondments>>

(* Firm.send_federation_message                                            *)
SendMessage(x, p) ==
  /\ x >= SendMin
  /\ peers[p] = "active"
  /\ messaged' = messaged \cup {p}
  /\ UNCHANGED <<memberVars, peers, trust, secondments>>

(* Firm.second_agent: an overdue secondment does not keep the agent from a *)
(* second one.                                                             *)
SecondAgent(x, a, p, s) ==
  /\ x >= SecondMin
  /\ Active(a)
  /\ peers[p] = "active"
  /\ trust[p] = Enough
  /\ ~ \E t \in Secondments : secondments[t].status = "active" /\ secondments[t].agent = a
  /\ secondments[s] = Unused
  /\ secondments' = [secondments EXCEPT ![s] = [agent |-> a, host |-> p, status |-> "active"]]
  /\ UNCHANGED <<memberVars, peers, trust, messaged>>

(* Firm.recall_secondment and FederationEngine.complete_secondment         *)
EndSecondment(s) ==
  /\ secondments[s].status \in {"active", "overdue"}
  /\ secondments' = [secondments EXCEPT ![s].status = "ended"]
  /\ UNCHANGED <<memberVars, peers, trust, messaged>>

(* FederationEngine.expire_secondments                                     *)
ExpireSecondments ==
  /\ secondments' = [s \in Secondments |->
       IF secondments[s].status = "overdue" THEN [secondments[s] EXCEPT !.status = "ended"]
                                            ELSE secondments[s]]
  /\ UNCHANGED <<memberVars, peers, trust, messaged>>

SecondmentTimePasses(s) ==
  /\ secondments[s].status = "active"
  /\ secondments' = [secondments EXCEPT ![s].status = "overdue"]
  /\ UNCHANGED <<memberVars, peers, trust, messaged>>

-----------------------------------------------------------------------------
FederationNext ==
  \/ \E p \in Peers :
       \/ \E x \in Levels :
            \/ RegisterPeer(x, p)
            \/ SendMessage(x, p)
            \/ \E a \in Agents, s \in Secondments : SecondAgent(x, a, p, s)
       \/ SuspendPeer(p)
       \/ ReactivatePeer(p)
       \/ RevokePeer(p)
       \/ \E success \in BOOLEAN : UpdateTrust(p, success)
  \/ \E below \in SUBSET Peers : DecayTrust(below)
  \/ \E s \in Secondments : EndSecondment(s) \/ SecondmentTimePasses(s)
  \/ ExpireSecondments
  \/ \E a \in Agents, s \in AgentStatus : StatusMoves(a, s) /\ UNCHANGED ownFederation

FederationSpec == MembersInit /\ FederationInit /\ [][FederationNext]_federationVars

-----------------------------------------------------------------------------
(* Properties.                                                             *)

Hosts(p) ==
  \E s \in Secondments :
    secondments[s].status \in {"active", "overdue"} /\ secondments[s].host = p

(* Revocation is for good: a revoked peer hosts no agent, neither one      *)
(* whose time was up but not yet expired nor one lent after that, gets no  *)
(* message and never becomes anything else, though its trust goes on       *)
(* moving and may pass every threshold again.                              *)
RevokedForGood ==
  [][\A p \in Peers : peers[p] = "revoked" =>
       /\ peers'[p] = "revoked"
       /\ ~Hosts(p) /\ ~Hosts(p)'
       /\ p \in messaged' => p \in messaged
    ]_federationVars

=============================================================================
