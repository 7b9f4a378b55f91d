----------------------------- MODULE Reputation -----------------------------
(***************************************************************************)
(* The reputation bridge: attestations about own agents are issued and     *)
(* revoked, those of other FIRMs are imported at a discount that the trust *)
(* in their source sets, and what was imported decays.                     *)
(* Code: ReputationBridge in core/reputation.py, Firm.issue_reputation and *)
(* import_reputation in runtime.py.                                        *)
(*                                                                         *)
(* Authority, trust and discounts are in hundredths, products of them are  *)
(* rounded down.  The weight of an import falls by one of DecaySteps with  *)
(* every decay.  The trust in the source, whatever the status of that peer *)
(* is, and what the attestation says are inputs.                           *)
(***************************************************************************)
EXTENDS Members, Functions

CONSTANTS
  Attestations,   \* identifiers of attestations, own and foreign
  Attested,       \* authorities attestations of others claim, of 0..100
  Trusts,         \* trust in the source of an attestation, of 0..100
  ImportMin,      \* MIN_TRUST_TO_IMPORT, 40
  Boost,          \* MAX_IMPORTED_AUTHORITY_BOOST, 30
  DecaySteps      \* 1 / FOREIGN_REPUTATION_DECAY, 20

ASSUME ReputationAssumption ==
  /\ Attested \subseteq 0..100
  /\ Trusts \subseteq 0..100
  /\ ImportMin \in 0..100
  /\ Boost \in Nat
  /\ DecaySteps \in Nat \ {0}

VARIABLES
  issued,   \* ReputationBridge._issued: the status of each attestation
  imports   \* ReputationBridge._imports, by the attestation imported

ownReputation == <<issued, imports>>

reputationVars == <<memberVars, ownReputation>>

Import == [agent : Agents, effective : Nat, weight : 0..DecaySteps]

NotImported == [agent |-> "none"]

ReputationTypeOK ==
  /\ issued \in [Attestations -> {"absent", "valid", "revoked"}]
  /\ imports \in [Attestations -> Import \cup {NotImported}]

ReputationInit ==
  /\ issued = [i \in Attestations |-> "absent"]
  /\ imports = [i \in Attestations |-> NotImported]

(* The imports that speak for an agent.                                    *)
ImportsFor(a) ==
  {i \in Attestations : imports[i] # NotImported /\ imports[i].agent = a}

(* ReputationBridge._get_agent_imported_authority, times DecaySteps.       *)
ImportedAuthority(a) ==
  SumFunctionOnSet([i \in ImportsFor(a) |-> imports[i].effective * imports[i].weight],
                   ImportsFor(a))

-----------------------------------------------------------------------------
(* Firm.issue_reputation                                                   *)
IssueReputation(a, i) ==
  /\ Registered(a)
  /\ issued[i] = "absent" /\ imports[i] = NotImported
  /\ issued' = [issued EXCEPT ![i] = "valid"]
  /\ UNCHANGED <<memberVars, imports>>

(* ReputationBridge.revoke_attestation                                     *)
RevokeAttestation(i) ==
  /\ issued[i] = "valid"
  /\ issued' = [issued EXCEPT ![i] = "revoked"]
  /\ UNCHANGED <<memberVars, imports>>

Clamped(x) == IF x < 10 THEN 10 ELSE IF x > 70 THEN 70 ELSE x

(* The discount that a trust of t gives.                                   *)
Discount(t) == 10 + (60 * t) \div 100

Effective_Unspent(a, claim, discount) ==
  LET raw == (claim * Clamped(discount)) \div 100
  IN IF raw > Boost THEN Boost ELSE raw

(* What an import adds: no more than its agent's imports leave of Boost,   *)
(* each at the weight it has come to.                                      *)
Effective(a, claim, discount) ==
  LET raw == (claim * Clamped(discount)) \div 100
      left == Boost * DecaySteps - ImportedAuthority(a)
  IN IF raw * DecaySteps <= left THEN raw
     ELSE IF left > 0 THEN left \div DecaySteps ELSE 0

(* Firm.import_reputation, called for some agent: of an attestation that   *)
(* is sealed, valid and fresh, about whatever agent it names.  The source  *)
(* must be a peer, which this FIRM is not itself.  The discount is the     *)
(* caller's or comes of the trust.                                         *)
ImportReputation(a, i, claim, t, discount) ==
  /\ \E b \in Agents : Registered(b)
  /\ t >= ImportMin
  /\ issued[i] = "absent" /\ imports[i] = NotImported
  /\ imports' = [imports EXCEPT ![i] =
       [agent |-> a, effective |-> Effective(a, claim, discount), weight |-> DecaySteps]]
  /\ UNCHANGED <<memberVars, issued>>

(* ReputationBridge.apply_decay                                            *)
DecayImports ==
  /\ imports' = [i \in Attestations |->
       IF imports[i] # NotImported /\ imports[i].weight > 0
       THEN [imports[i] EXCEPT !.weight = @ - 1]
       ELSE imports[i]]
  /\ UNCHANGED <<memberVars, issued>>

-----------------------------------------------------------------------------
ReputationNext ==
  \/ \E a \in Agents, i \in Attestations :
       \/ IssueReputation(a, i)
       \/ \E claim \in Attested, t \in Trusts : \E discount \in {Discount(t), 0, 100} :
            ImportReputation(a, i, claim, t, discount)
  \/ \E i \in Attestations : RevokeAttestation(i)
  \/ DecayImports

ReputationSpec == MembersInit /\ ReputationInit /\ [][ReputationNext]_reputationVars

-----------------------------------------------------------------------------
(* Properties.                                                             *)

(* However many attestations other FIRMs write about an agent, and however *)
(* imports and decays follow each other, together they never count for     *)
(* more than the boost an agent may import.                                *)
ImportCap == \A a \in Agents : ImportedAuthority(a) <= Boost * DecaySteps

=============================================================================
