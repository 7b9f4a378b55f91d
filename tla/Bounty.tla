------------------------------- MODULE Bounty --------------------------------
(***************************************************************************)
(* The findings of bug bounty campaigns: each is compared with what is in  *)
(* the database, stored, triaged, submitted and updated by feedback, over  *)
(* sessions that share a database file.                                    *)
(* Code: bounty/campaign.py, bounty/dedup.py, bounty/triage.py, and        *)
(* VulnDatabase in bounty/vulnerability.py.                                *)
(*                                                                         *)
(* Confidence is in tenths.  Phases and statistics of a campaign, which    *)
(* decide nothing about a finding, are left out.                           *)
(***************************************************************************)
EXTENDS Integers, FiniteSets

CONSTANTS
  Findings,    \* Vulnerability.id
  Weaknesses,  \* cwe_id
  Assets,      \* asset
  Points,      \* endpoint and parameter
  Described,   \* what each finding is about, and when it was discovered
  Inside,      \* the pairs of assets of which the first is part of the second,
               \* as one string of another
  SearchLimit, \* rows that DeduplicationEngine.check asks for, 500
  Reactions    \* what process_hackerone_feedback makes of the feedback

Severities == {"critical", "high", "medium", "low", "info"}

ASSUME BountyAssumption ==
  /\ Described \in [Findings -> [cwe : Weaknesses, asset : Assets, point : Points,
                                 severity : Severities, confidence : 0..10, at : Nat]]
  /\ Inside \subseteq Assets \X Assets
  /\ \A x \in Assets : <<x, x>> \in Inside
  /\ SearchLimit \in Nat
  /\ Reactions \subseteq {"triaged", "submitted", "accepted", "duplicate",
                          "informative", "not_applicable", "resolved"}

VARIABLES
  row,      \* VulnDatabase: the status stored for each finding
  seen,     \* DeduplicationEngine._seen_fingerprints
  state,    \* Vulnerability.status, of the object in this session
  kept,     \* Campaign.findings
  readBack  \* the findings whose object was read from the database

bountyVars == <<row, seen, state, kept, readBack>>

Status == {"discovered", "triaged", "submitted", "accepted", "duplicate",
           "informative", "not_applicable", "resolved"}

Fingerprint(f) ==
  <<Described[f].cwe, Described[f].asset, Described[f].point>>

BountyTypeOK ==
  /\ row \in [Findings -> Status \cup {"absent"}]
  /\ seen \subseteq Weaknesses \X Assets \X Points
  /\ state \in [Findings -> Status]
  /\ kept \subseteq Findings
  /\ readBack \subseteq Findings

BountyInit ==
  /\ row = [f \in Findings |-> "absent"]
  /\ seen = {}
  /\ state = [f \in Findings |-> "discovered"]
  /\ kept = {}
  /\ readBack = {}

Stored == {f \in Findings : row[f] # "absent"}

-----------------------------------------------------------------------------

(* The rows whose asset has the name of this one in its name.              *)
Matching(f) == {g \in Stored : <<Described[f].asset, Described[g].asset>> \in Inside}

(* VulnDatabase.search: the latest of them, as many as are asked for.      *)
Answers(f) ==
  IF Cardinality(Matching(f)) <= SearchLimit THEN {Matching(f)}
  ELSE {found \in SUBSET Matching(f) :
          /\ Cardinality(found) = SearchLimit
          /\ \A g \in found, h \in Matching(f) \ found : Described[g].at >= Described[h].at}

Duplicate_SeenOnly(f, found) == Fingerprint(f) \in seen

(* DeduplicationEngine.check: the same fingerprint, in whichever row, or   *)
(* the same weakness in one of the rows found.  A finding that is stored   *)
(* already is a duplicate of itself.                                       *)
Duplicate(f, found) ==
  \/ Fingerprint(f) \in seen
  \/ \E g \in Stored : Fingerprint(g) = Fingerprint(f)
  \/ \E g \in found \ {f} : Described[g].cwe = Described[f].cwe

Evaluated_Decision(f) ==
  IF Described[f].confidence >= 7 THEN "auto_submit" ELSE "human_review"

(* TriagePipeline.evaluate, and what add_finding makes of it.              *)
Evaluated(f) ==
  LET severity == Described[f].severity
      confidence == Described[f].confidence
  IN CASE severity \in {"critical", "high"} -> "discovered"
       [] severity = "info" -> "informative"
       [] severity = "low" /\ confidence < 5 -> "informative"
       [] severity \in {"medium", "low"} /\ confidence >= 7 -> "triaged"
       [] OTHER -> "discovered"

(* Campaign.add_finding.  The row keeps the status from before the triage. *)
(* When the database refuses the row, the fingerprint has been seen all    *)
(* the same.                                                               *)
AddFinding(f, found) ==
  \/ /\ Duplicate(f, found)
     /\ state' = [state EXCEPT ![f] = "duplicate"]
     /\ UNCHANGED <<row, seen, kept, readBack>>
  \/ /\ ~Duplicate(f, found)
     /\ seen' = seen \cup {Fingerprint(f)}
     /\ \/ /\ row' = [row EXCEPT ![f] = state[f]]
           /\ kept' = kept \cup {f}
           /\ state' = [state EXCEPT ![f] =
                IF Evaluated(f) = "discovered" THEN @ ELSE Evaluated(f)]
        \/ UNCHANGED <<row, kept, state>>
     /\ UNCHANGED readBack

(* A finding whose status becomes s, and its row unless the database       *)
(* refuses it.  The severity of an object that was read back is a string,  *)
(* which insert cannot write: it raises.                                   *)
Update(f, s) ==
  /\ state' = [state EXCEPT ![f] = s]
  /\ \/ f \notin readBack /\ row' = [row EXCEPT ![f] = s]
     \/ UNCHANGED row
  /\ UNCHANGED <<seen, kept, readBack>>

(* Campaign.submit_finding, of any finding there is: one that was never    *)
(* added, or turned away as a duplicate, gets its row here.                *)
SubmitFinding(f) == Update(f, "submitted")

(* Campaign.process_feedback, likewise of any finding.                     *)
ProcessFeedback(f, s) == Update(f, s)

(* A new session over the same file: nothing is known but the rows.        *)
Restart ==
  /\ seen' = {}
  /\ kept' = {}
  /\ readBack' = Stored
  /\ state' = [f \in Findings |-> IF f \in Stored THEN row[f] ELSE "discovered"]
  /\ UNCHANGED row

BountyNext ==
  \/ \E f \in Findings :
       \/ \E found \in Answers(f) : AddFinding(f, found)
       \/ SubmitFinding(f)
       \/ \E s \in Reactions : ProcessFeedback(f, s)
  \/ Restart

BountySpec == BountyInit /\ [][BountyNext]_bountyVars

-----------------------------------------------------------------------------
(* Properties.                                                             *)

Twins(f, g) ==
  /\ f # g
  /\ Described[f].cwe = Described[g].cwe
  /\ Described[f].asset = Described[g].asset

(* What campaigns have taken in: the findings of this one, and those that  *)
(* others have stored and nobody has reported since.                       *)
TakenIn == kept \cup {f \in Findings : row[f] = "discovered"}

(* However often sessions end and begin on one database, whatever write it *)
(* refuses and whatever is reported meanwhile, campaigns take in no two    *)
(* findings of one weakness in one asset, unless there were more rows that *)
(* match than the comparison asked for when the second came.               *)
FoundOnce ==
  \A f, g \in TakenIn : Twins(f, g) => Cardinality(Matching(f)) > SearchLimit + 1

=============================================================================
