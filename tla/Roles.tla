------------------------------- MODULE Roles --------------------------------
(***************************************************************************)
(* The role engine: roles are defined, assigned to agents with enough      *)
(* authority while there is room, revoked, transferred, and they expire.   *)
(* Code: core/roles.py, Firm.define_role, assign_role and revoke_role in   *)
(* runtime.py, HumanOverride.force_grant_role and force_revoke_role in     *)
(* core/human.py.                                                          *)
(*                                                                         *)
(* The engine keeps a list of assignments, the agents keep their roles,    *)
(* and others than the engine grant and revoke roles too.  An assignment   *)
(* without a time to live is one that does not happen to expire.           *)
(***************************************************************************)
EXTENDS Members, FiniteSets

CONSTANTS
  AssignmentIds,  \* bound: the assignments there can be at a time
  Definitions,    \* min_authority, is_critical and max_holders of define_role
  CriticalMin     \* MIN_AUTHORITY_FOR_CRITICAL_ROLE, 70

ASSUME RolesAssumption ==
  /\ Definitions \subseteq [min : 0..100, critical : BOOLEAN, holders : Nat]
  /\ CriticalMin \in 0..100

VARIABLES
  defined,      \* RoleEngine._definitions
  assignments,  \* RoleEngine._assignments
  outside       \* history: the agents and roles that somebody else granted or
                \* revoked since the engine last revoked them

ownRoles == <<defined, assignments, outside>>

rolesVars == <<memberVars, ownRoles>>

Assignment == [agent : Agents, role : RoleNames, expired : BOOLEAN]

Free == [agent |-> "none"]

Undefined == [min |-> -1]

RolesTypeOK ==
  /\ defined \in [RoleNames -> [min : 0..100, holders : Nat] \cup {Undefined}]
  /\ assignments \in [AssignmentIds -> Assignment \cup {Free}]
  /\ outside \subseteq Agents \X RoleNames

RolesInit ==
  /\ defined = [r \in RoleNames |-> Undefined]
  /\ assignments = [i \in AssignmentIds |-> Free]
  /\ outside = {}

-----------------------------------------------------------------------------
(* RoleDefinition: a critical role has a higher threshold.                 *)
Blueprint(d) ==
  [min |-> IF d.critical /\ d.min < CriticalMin THEN CriticalMin ELSE d.min,
   holders |-> d.holders]

(* RoleEngine.define_role, over an earlier definition as well.             *)
DefineRole(r, d) ==
  /\ defined' = [defined EXCEPT ![r] = Blueprint(d)]
  /\ UNCHANGED <<memberVars, assignments, outside>>

(* The assignments of an agent to a role in the list `list'.               *)
Of(list, a, r) ==
  {i \in AssignmentIds : list[i] # Free /\ list[i].agent = a /\ list[i].role = r}

(* RoleEngine._count_active_holders                                        *)
ActiveHolders(list, r) ==
  Cardinality({i \in AssignmentIds :
                 list[i] # Free /\ list[i].role = r /\ ~list[i].expired})

(* The checks of RoleEngine.assign, when the agents hold `held'.           *)
Assignable(list, held, a, r) ==
  /\ defined[r] # Undefined
  /\ authority[a] >= defined[r].min
  /\ Active(a)
  /\ defined[r].holders > 0 => ActiveHolders(list, r) < defined[r].holders
  /\ r \notin held[a]

(* The rest of it.                                                         *)
Assigned(list, held, a, r) ==
  /\ roles' = [held EXCEPT ![a] = @ \cup {r}]
  /\ \E i \in AssignmentIds :
       /\ list[i] = Free
       /\ assignments' = [list EXCEPT ![i] = [agent |-> a, role |-> r, expired |-> FALSE]]

Without(list, ids) == [i \in AssignmentIds |-> IF i \in ids THEN Free ELSE list[i]]

(* Firm.assign_role                                                        *)
AssignRole(a, r) ==
  /\ Assignable(assignments, roles, a, r)
  /\ Assigned(assignments, roles, a, r)
  /\ UNCHANGED <<authority, status, credits, defined, outside>>

Unassigned_Everyone(a, r) ==
  Without(assignments, UNION {Of(assignments, b, r) : b \in Agents})

(* RoleEngine.revoke drops all assignments of the agent to the role,       *)
Unassigned(a, r) == Without(assignments, Of(assignments, a, r))

(* and takes the role.                                                     *)
Deprived(a, r) == [roles EXCEPT ![a] = @ \ {r}]

(* Firm.revoke_role                                                        *)
RevokeRole(a, r) ==
  /\ r \in roles[a]
  /\ roles' = Deprived(a, r)
  /\ assignments' = Unassigned(a, r)
  /\ outside' = outside \ {<<a, r>>}
  /\ UNCHANGED <<authority, status, credits, defined>>

(* RoleEngine.transfer revokes before it looks at the agent that shall     *)
(* have the role: when the assignment raises, the role is nobody's.        *)
TransferRole(a, b, r) ==
  /\ r \in roles[a]
  /\ Registered(b)
  /\ \/ /\ Assignable(Unassigned(a, r), Deprived(a, r), b, r)
        /\ Assigned(Unassigned(a, r), Deprived(a, r), b, r)
     \/ /\ ~Assignable(Unassigned(a, r), Deprived(a, r), b, r)
        /\ roles' = Deprived(a, r)
        /\ assignments' = Unassigned(a, r)
  /\ outside' = outside \ {<<a, r>>}
  /\ UNCHANGED <<authority, status, credits, defined>>

Expired == {i \in AssignmentIds : assignments[i] # Free /\ assignments[i].expired}

Lost_Nothing(a) == {}

(* The roles an agent loses to its expired assignments, whatever other     *)
(* assignment to them it has.                                              *)
Lost(a) == {assignments[i].role : i \in {j \in Expired : assignments[j].agent = a}}

(* RoleEngine.expire_roles                                                 *)
ExpireRoles ==
  /\ Expired # {}
  /\ assignments' = Without(assignments, Expired)
  /\ roles' = [a \in Agents |-> roles[a] \ Lost(a)]
  /\ UNCHANGED <<authority, status, credits, defined, outside>>

TimePasses(i) ==
  /\ assignments[i] # Free
  /\ assignments' = [assignments EXCEPT ![i].expired = TRUE]
  /\ UNCHANGED <<memberVars, defined, outside>>

-----------------------------------------------------------------------------
(* Past the engine: HumanOverride.force_grant_role, and the roles agents   *)
(* are given by add_agent and spawn_agent.                                 *)
GrantRole(a, r) ==
  /\ Registered(a)
  /\ r \notin roles[a]
  /\ roles' = [roles EXCEPT ![a] = @ \cup {r}]
  /\ outside' = outside \cup {<<a, r>>}
  /\ UNCHANGED <<authority, status, credits, defined, assignments>>

(* HumanOverride.force_revoke_role                                         *)
ForceRevokeRole(a, r) ==
  /\ r \in roles[a]
  /\ roles' = Deprived(a, r)
  /\ outside' = outside \cup {<<a, r>>}
  /\ UNCHANGED <<authority, status, credits, defined, assignments>>

-----------------------------------------------------------------------------
RolesNext ==
  \/ \E r \in RoleNames :
       \/ \E d \in Definitions : DefineRole(r, d)
       \/ \E a \in Agents :
            \/ AssignRole(a, r)
            \/ RevokeRole(a, r)
            \/ \E b \in Agents : TransferRole(a, b, r)
            \/ GrantRole(a, r)
            \/ ForceRevokeRole(a, r)
  \/ ExpireRoles
  \/ \E i \in AssignmentIds : TimePasses(i)
  \/ \E a \in Agents :
       /\ AuthorityMoves(a) \/ \E s \in AgentStatus : StatusMoves(a, s)
       /\ UNCHANGED ownRoles

RolesSpec == MembersInit /\ RolesInit /\ [][RolesNext]_rolesVars

-----------------------------------------------------------------------------
(* Properties.                                                             *)

(* The list of assignments and the roles of the agents say the same of     *)
(* every agent and role that only the engine has touched since it last     *)
(* revoked them: one assignment for a role that is held and none for one   *)
(* that is not, through refused transfers and expiry, and whatever others  *)
(* did to other agents.  One revocation by the engine repairs the rest.    *)
AssignmentsBack ==
  \A a \in Agents, r \in RoleNames : <<a, r>> \notin outside =>
    Cardinality(Of(assignments, a, r)) = IF r \in roles[a] THEN 1 ELSE 0

=============================================================================
