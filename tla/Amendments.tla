----------------------------- MODULE Amendments -----------------------------
(***************************************************************************)
(* The meta-constitution: amendments add and remove invariants and their   *)
(* keywords; the Constitutional Agent reviews each, agents vote on it and  *)
(* it is finalized and applied in one call.  INV-1 and INV-2 shall stand   *)
(* whatever is voted.                                                      *)
(* Code: core/meta.py, Invariant.check_text in core/constitution.py,       *)
(* Firm.propose_amendment, review_amendment, vote_amendment and            *)
(* apply_amendment in runtime.py.                                          *)
(*                                                                         *)
(* A text is the set of the keywords that occur in it, in lower case.  The *)
(* status of an agent counts for the quorum only, which a suspended agent  *)
(* leaves like one whose authority has fallen: here only authority moves.  *)
(***************************************************************************)
EXTENDS Members, FiniteSetsExt

CONSTANTS
  AmendmentIds,   \* identifiers an amendment can get
  NewIds,         \* identifiers an invariant can be given
  Words,          \* keywords
  Foundation,     \* keywords of INV-1 and INV-2 in the source
  Texts,          \* what of the rationale and description is a keyword
  AmendMin,       \* MIN_AUTHORITY_TO_AMEND, 90
  EligibleMin,    \* authority that counts for the quorum, 60
  ApprovalRatio,  \* AMENDMENT_APPROVAL_RATIO, 80
  Quorum,         \* 60
  MinVoters       \* MIN_AMENDMENT_VOTERS, 2

ASSUME AmendmentsAssumption ==
  /\ NewIds \cap {"INV-1", "INV-2"} = {}
  /\ Foundation \in [{"INV-1", "INV-2"} -> SUBSET Words]
  /\ Texts \subseteq SUBSET Words
  /\ {AmendMin, EligibleMin, ApprovalRatio, Quorum, MinVoters} \subseteq Nat

VARIABLES
  constitution,  \* ConstitutionalAgent.invariants, whose order is that of
                 \* the revisions they are there since
  amendments,    \* MetaConstitutional._amendments
  revision       \* MetaConstitutional._revision

ownAmendments == <<constitution, amendments, revision>>

amendmentsVars == <<memberVars, ownAmendments>>

ImmutableIds_One == {"INV-1"}

(* IMMUTABLE_INVARIANT_IDS                                                 *)
ImmutableIds == {"INV-1", "INV-2"}

InvariantIds == {"INV-1", "INV-2"} \cup NewIds

Kind == {"add_invariant", "remove_invariant", "add_keywords", "remove_keywords"}

(* Of an amendment that has been decided nothing is read but its status,   *)
(* and the vetoed and the rejected are the same to everyone.               *)
Pending ==
  [status : {"proposed", "voting"}, kind : Kind, target : InvariantIds,
   words : SUBSET Words, text : SUBSET Words, for : Nat, against : Nat,
   voters : SUBSET Agents]

AppliedAs(kind) == [status |-> "applied", kind |-> kind]

Refused == [status |-> "refused"]

Unproposed == [status |-> "absent"]

Amendment == Pending \cup {AppliedAs(kind) : kind \in Kind} \cup {Refused, Unproposed}

AmendmentsTypeOK ==
  /\ constitution \subseteq [id : InvariantIds, keywords : SUBSET Words, since : Nat]
  /\ amendments \in [AmendmentIds -> Amendment]
  /\ revision \in Nat

AmendmentsInit ==
  /\ constitution = {[id |-> id, keywords |-> Foundation[id], since |-> 0] :
                       id \in {"INV-1", "INV-2"}}
  /\ amendments = [x \in AmendmentIds |-> Unproposed]
  /\ revision = 0

Existing == {inv.id : inv \in constitution}

-----------------------------------------------------------------------------
(* What may be proposed: the checks of propose_add_invariant,              *)
(* propose_remove_invariant, propose_add_keywords, propose_remove_keywords *)
(* against the constitution of the moment.  The first of the invariants    *)
(* with the target's identifier is the one that is looked at.              *)

First(id) ==
  {inv \in constitution :
     inv.id = id /\ \A other \in constitution : other.id = id => inv.since <= other.since}

MayPropose(kind, id, words) ==
  CASE kind = "add_invariant" -> id \notin Existing /\ words # {}
    [] kind = "remove_invariant" ->
         id \in Existing \ ImmutableIds /\ words = {}
    [] kind = "add_keywords" -> id \in Existing /\ words # {}
    [] kind = "remove_keywords" ->
         /\ id \in Existing \ ImmutableIds
         /\ words # {}
         /\ \E inv \in First(id) : words \subseteq inv.keywords /\ words # inv.keywords

(* Firm.propose_amendment: authority alone counts, not the status.         *)
ProposeAmendment(a, x, kind, id, words, text) ==
  /\ Registered(a)
  /\ authority[a] >= AmendMin
  /\ amendments[x] = Unproposed
  /\ MayPropose(kind, id, words)
  /\ amendments' = [amendments EXCEPT ![x] =
       [status |-> "proposed", kind |-> kind, target |-> id, words |-> words,
        text |-> text, for |-> 0, against |-> 0, voters |-> {}]]
  /\ UNCHANGED <<memberVars, constitution, revision>>

ReviewText_Additions(x) ==
  amendments[x].text \cup
    IF amendments[x].kind = "remove_keywords" THEN {} ELSE amendments[x].words

(* What the review reads: the keywords to be removed are in it too.        *)
ReviewText(x) == amendments[x].text \cup amendments[x].words

Violated(text) == {inv \in constitution : inv.keywords \cap text # {}}

(* Firm.review_amendment                                                   *)
ReviewAmendment(x) ==
  /\ amendments[x].status = "proposed"
  /\ amendments' = [amendments EXCEPT ![x] =
       IF Violated(ReviewText(x)) # {} THEN Refused ELSE [@ EXCEPT !.status = "voting"]]
  /\ UNCHANGED <<memberVars, constitution, revision>>

(* Firm.vote_amendment: once per agent, with whatever authority and status *)
(* it has.                                                                 *)
VoteAmendment(a, x, approve) ==
  /\ Registered(a)
  /\ amendments[x].status = "voting"
  /\ a \notin amendments[x].voters
  /\ amendments' = [amendments EXCEPT
       ![x].for = IF approve THEN @ + authority[a] ELSE @,
       ![x].against = IF approve THEN @ ELSE @ + authority[a],
       ![x].voters = @ \cup {a}]
  /\ UNCHANGED <<memberVars, constitution, revision>>

-----------------------------------------------------------------------------
(* Firm.apply_amendment.                                                   *)

EligibleWeight ==
  MapThenSumSet(LAMBDA a : authority[a],
                {a \in Agents : Active(a) /\ authority[a] >= EligibleMin})

(* MetaConstitutional.finalize                                             *)
Passes(x, cast) ==
  /\ Cardinality(amendments[x].voters) >= MinVoters
  /\ 100 * cast >= Quorum * EligibleWeight
  /\ cast > 0
  /\ 100 * amendments[x].for >= ApprovalRatio * cast

(* An invariant, once the keywords of x are added to it or removed.        *)
Reworded(x, inv) ==
  IF inv.id # amendments[x].target THEN inv
  ELSE [inv EXCEPT !.keywords = IF amendments[x].kind = "add_keywords"
                                THEN @ \cup amendments[x].words
                                ELSE @ \ amendments[x].words]

(* MetaConstitutional.apply: the constitution with x, as it has become     *)
(* since the proposal: an identifier may be there twice by now, or no      *)
(* longer, and an invariant be left without keywords.  The code looks once *)
(* more whether INV-1 or INV-2 is meant; what is shown here needs no such  *)
(* look.                                                                   *)
Amended(x) ==
  CASE amendments[x].kind = "add_invariant" ->
         constitution \cup {[id |-> amendments[x].target,
                             keywords |-> amendments[x].words, since |-> revision + 1]}
    [] amendments[x].kind = "remove_invariant" ->
         {inv \in constitution : inv.id # amendments[x].target}
    [] OTHER -> {Reworded(x, inv) : inv \in constitution}

(* Finalizes, and applies what passes.                                     *)
ApplyAmendment(x) ==
  /\ amendments[x].status = "voting"
  /\ IF Passes(x, amendments[x].for + amendments[x].against)
     THEN /\ amendments' = [amendments EXCEPT ![x] = AppliedAs(amendments[x].kind)]
          /\ constitution' = Amended(x)
          /\ revision' = revision + 1
     ELSE /\ amendments' = [amendments EXCEPT ![x] = Refused]
          /\ UNCHANGED <<constitution, revision>>
  /\ UNCHANGED memberVars

-----------------------------------------------------------------------------
AmendmentsNext ==
  \/ \E x \in AmendmentIds :
       \/ \E a \in Agents, kind \in Kind, id \in InvariantIds,
             words \in SUBSET Words, text \in Texts :
            ProposeAmendment(a, x, kind, id, words, text)
       \/ ReviewAmendment(x)
       \/ \E a \in Agents, approve \in BOOLEAN : VoteAmendment(a, x, approve)
       \/ ApplyAmendment(x)
  \/ \E a \in Agents : AuthorityMoves(a) /\ UNCHANGED ownAmendments

AmendmentsSpec == MembersInit /\ AmendmentsInit /\ [][AmendmentsNext]_amendmentsVars

-----------------------------------------------------------------------------
(* Properties.                                                             *)

(* INV-1 and INV-2 stand, each with all the keywords it had in the source, *)
(* whatever amendments were checked against one constitution and applied   *)
(* to another.                                                             *)
FoundationsStand ==
  \A id \in {"INV-1", "INV-2"} :
    \E inv \in constitution : inv.id = id /\ Foundation[id] \subseteq inv.keywords

Applied == {x \in AmendmentIds : amendments[x].status = "applied"}

(* An amendment to remove keywords names them, and the review vetoes a     *)
(* text that names a keyword in force: until some invariant as a whole has *)
(* been removed no invariant loses a keyword.                              *)
KeywordsStay ==
  [][(\A x \in Applied : amendments[x].kind # "remove_invariant") =>
       \A inv \in constitution :
         \/ \E new \in constitution' :
              /\ new.id = inv.id /\ new.since = inv.since
              /\ inv.keywords \subseteq new.keywords
         \/ \A new \in constitution' : new.id # inv.id
    ]_amendmentsVars

=============================================================================
