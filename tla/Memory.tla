------------------------------- MODULE Memory -------------------------------
(***************************************************************************)
(* Collective memory: tagged entries that agents contribute, reinforce and *)
(* challenge, that fade and are collected, and that lose conflicts with    *)
(* others on the same subject.                                             *)
(* Code: MemoryEngine in core/memory.py, Firm.contribute_memory,           *)
(* reinforce_memory and challenge_memory in runtime.py.                    *)
(*                                                                         *)
(* Of the weight of an entry only this is told: whether it is below        *)
(* MIN_MEMORY_WEIGHT, "faint".  An entry that is removed has its           *)
(* identifier for ever.                                                    *)
(***************************************************************************)
EXTENDS Members, FiniteSets

CONSTANTS
  Entries,  \* identifiers an entry can get
  Tags      \* tags, in lower case

VARIABLES
  memories,   \* MemoryEngine._memories
  tagIndex,   \* MemoryEngine._tag_index
  conflicts,  \* MemoryEngine._conflicts
  forgotten   \* history: the entries that were removed

ownMemory == <<memories, tagIndex, conflicts, forgotten>>

memoryVars == <<memberVars, ownMemory>>

Entry == [tags : SUBSET Tags, faint : BOOLEAN,
          reinforced : SUBSET Agents, challenged : SUBSET Agents]

Missing == [tags |-> {}]

Resolution == {"a_wins", "b_wins", "kept"}

MemoryTypeOK ==
  /\ memories \in [Entries -> Entry \cup {Missing}]
  /\ tagIndex \in [Tags -> SUBSET Entries]
  /\ conflicts \subseteq [a : Entries, b : Entries, resolved : BOOLEAN]
  /\ forgotten \subseteq Entries

MemoryInit ==
  /\ memories = [e \in Entries |-> Missing]
  /\ tagIndex = [t \in Tags |-> {}]
  /\ conflicts = {}
  /\ forgotten = {}

Present(e) == memories[e] # Missing

-----------------------------------------------------------------------------
(* MemoryEngine._detect_conflicts: the entries with 30% of all the tags of *)
(* the two in common.                                                      *)
Similar(tags, e) ==
  /\ Present(e)
  /\ 10 * Cardinality(tags \cap memories[e].tags)
       >= 3 * Cardinality(tags \cup memories[e].tags)

(* Firm.contribute_memory: an agent without authority contributes an entry *)
(* that is faint from the start.                                           *)
ContributeMemory(a, e, tags, faint) ==
  /\ Registered(a)
  /\ ~Present(e) /\ e \notin forgotten
  /\ tags # {}
  /\ memories' = [memories EXCEPT ![e] =
       [tags |-> tags, faint |-> faint, reinforced |-> {}, challenged |-> {}]]
  /\ tagIndex' = [t \in Tags |-> IF t \in tags THEN tagIndex[t] \cup {e} ELSE tagIndex[t]]
  /\ conflicts' = conflicts \cup
       {[a |-> o, b |-> e, resolved |-> FALSE] : o \in {x \in Entries : Similar(tags, x)}}
  /\ UNCHANGED <<memberVars, forgotten>>

(* Firm.reinforce_memory, which also takes back a challenge.  A faint      *)
(* entry may become heard by it.                                           *)
ReinforceMemory(a, e) ==
  /\ Registered(a)
  /\ Present(e)
  /\ a \notin memories[e].reinforced
  /\ \E faint \in {memories[e].faint, FALSE} :
       memories' = [memories EXCEPT ![e].reinforced = @ \cup {a},
                                    ![e].challenged = @ \ {a},
                                    ![e].faint = faint]
  /\ UNCHANGED <<memberVars, tagIndex, conflicts, forgotten>>

Challenged_Added(e, a) ==
  [memories[e] EXCEPT !.challenged = @ \cup {a}, !.faint = FALSE]

(* What a challenge makes of an entry: its weight stops at the minimum,    *)
(* and that is more than a faint entry had.                                *)
Challenged(e, a) ==
  [memories[e] EXCEPT !.challenged = @ \cup {a}, !.reinforced = @ \ {a}, !.faint = FALSE]

(* Firm.challenge_memory                                                   *)
ChallengeMemory(a, e) ==
  /\ Registered(a)
  /\ Present(e)
  /\ a \notin memories[e].challenged
  /\ memories' = [memories EXCEPT ![e] = Challenged(e, a)]
  /\ UNCHANGED <<memberVars, tagIndex, conflicts, forgotten>>

Unindexed_First(gone) ==
  [t \in Tags |-> IF \E u \in Tags : u # t /\ tagIndex[u] \cap gone # {}
                  THEN tagIndex[t] ELSE tagIndex[t] \ gone]

(* The index without entries that go.                                      *)
Unindexed(gone) == [t \in Tags |-> tagIndex[t] \ gone]

(* MemoryEngine._remove_memory, of an entry that may be gone already.      *)
Remove(gone) ==
  /\ memories' = [e \in Entries |-> IF e \in gone THEN Missing ELSE memories[e]]
  /\ tagIndex' = Unindexed(gone)
  /\ forgotten' = forgotten \cup gone

(* MemoryEngine.apply_decay collects what is faint, and what became so     *)
(* since it was last recalled.                                             *)
ApplyDecay(gone) ==
  /\ \A e \in gone : Present(e)
  /\ \A e \in Entries : Present(e) /\ memories[e].faint => e \in gone
  /\ gone # {}
  /\ Remove(gone)
  /\ UNCHANGED <<memberVars, conflicts>>

(* MemoryEngine.resolve_conflict, as often as one likes: the loser goes,   *)
(* if it is still there.                                                   *)
ResolveConflict(c, resolution) ==
  /\ c \in conflicts
  /\ conflicts' = (conflicts \ {c}) \cup {[c EXCEPT !.resolved = TRUE]}
  /\ Remove(CASE resolution = "a_wins" -> {c.b}
              [] resolution = "b_wins" -> {c.a}
              [] resolution = "kept" -> {})
  /\ UNCHANGED memberVars

-----------------------------------------------------------------------------
MemoryNext ==
  \/ \E a \in Agents, e \in Entries :
       \/ \E tags \in SUBSET Tags, faint \in BOOLEAN : ContributeMemory(a, e, tags, faint)
       \/ ReinforceMemory(a, e)
       \/ ChallengeMemory(a, e)
  \/ \E gone \in SUBSET Entries : ApplyDecay(gone)
  \/ \E c \in conflicts, resolution \in Resolution : ResolveConflict(c, resolution)

MemorySpec == MembersInit /\ MemoryInit /\ [][MemoryNext]_memoryVars

-----------------------------------------------------------------------------
(* Properties.                                                             *)

(* The tag index leads to every entry under each of its tags and to        *)
(* nothing that was removed, by whatever mixture of collection and         *)
(* conflicts, and no agent is counted on both sides of an entry.           *)
IndexAgrees ==
  /\ \A t \in Tags : tagIndex[t] = {e \in Entries : t \in memories[e].tags}
  /\ \A e \in Entries : Present(e) =>
       memories[e].reinforced \cap memories[e].challenged = {}

=============================================================================
