---------------------------- MODULE Institutions ----------------------------
(***************************************************************************)
(* The institutions of a FIRM over one set of agents: prediction markets,  *)
(* births and mergers of agents, roles, the meta-constitution, the         *)
(* federation, the reputation bridge and the collective memory.            *)
(*                                                                         *)
(* None of them calls another: what one does reaches another only through  *)
(* the agents, and what can happen to the agents between two calls is      *)
(* among the steps of each (AuthorityMoves, StatusMoves, GrantRole).  So a *)
(* behaviour has one of them in `focus', and the others stand still.       *)
(* Code: class Firm in runtime.py, which owns one engine of each kind.     *)
(***************************************************************************)
EXTENDS Prediction, Lifecycle, Roles, Amendments, Federation, Reputation, Memory

VARIABLE focus   \* the institution whose steps are taken

vars == <<memberVars, ownPrediction, ownLifecycle, ownRoles, ownAmendments,
          ownFederation, ownReputation, ownMemory, focus>>

Institution == {"prediction", "lifecycle", "roles", "amendments", "federation",
                "reputation", "memory"}

InstitutionsTypeOK ==
  /\ MembersTypeOK
  /\ PredictionTypeOK
  /\ LifecycleTypeOK
  /\ RolesTypeOK
  /\ AmendmentsTypeOK
  /\ FederationTypeOK
  /\ ReputationTypeOK
  /\ MemoryTypeOK

Init ==
  /\ focus \in Institution
  /\ MembersInit
  /\ PredictionInit
  /\ LifecycleInit
  /\ RolesInit
  /\ AmendmentsInit
  /\ FederationInit
  /\ ReputationInit
  /\ MemoryInit

Still(f) ==
  /\ f # "prediction" => UNCHANGED ownPrediction
  /\ f # "lifecycle" => UNCHANGED ownLifecycle
  /\ f # "roles" => UNCHANGED ownRoles
  /\ f # "amendments" => UNCHANGED ownAmendments
  /\ f # "federation" => UNCHANGED ownFederation
  /\ f # "reputation" => UNCHANGED ownReputation
  /\ f # "memory" => UNCHANGED ownMemory

Next ==
  /\ UNCHANGED focus
  /\ \/ focus = "prediction" /\ PredictionNext
     \/ focus = "lifecycle" /\ LifecycleNext
     \/ focus = "roles" /\ RolesNext
     \/ focus = "amendments" /\ AmendmentsNext
     \/ focus = "federation" /\ FederationNext
     \/ focus = "reputation" /\ ReputationNext
     \/ focus = "memory" /\ MemoryNext
  /\ Still(focus)

Spec == Init /\ [][Next]_vars

-----------------------------------------------------------------------------
(* Properties.                                                             *)

(* NothingTwice of Prediction, where credits move by prediction markets    *)
(* only: no stake is charged, and nothing paid, twice.                     *)
StakesAccounted == focus = "prediction" => NothingTwice

(* AssignmentsBack of Roles, where roles are not inherited by newcomers:   *)
(* the assignments and the roles of the agents say the same.               *)
RolesAssigned == focus = "roles" => AssignmentsBack

=============================================================================
