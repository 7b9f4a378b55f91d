---------------------------- MODULE Persistence -----------------------------
(***************************************************************************)
(* Organisations in files: the command line loads a FIRM from a file,      *)
(* works on it in memory and writes it back, in processes that run one     *)
(* command or read commands until they are told to quit.                   *)
(* Code: core/serialization.py; _load_state, _save_state, the handlers,    *)
(* cmd_repl and main in cli.py.                                            *)
(*                                                                         *)
(* An organisation is the set of its facts: agents, role definitions and   *)
(* memories, which a file keeps, and what it does not keep.  A file that   *)
(* is being written is Torn: it has been truncated and is no JSON yet.  A  *)
(* process may crash at any step.  What two processes write into one file  *)
(* at the same time is Torn, or what the later one wrote.  The files that  *)
(* the command export writes are none of these.                            *)
(***************************************************************************)
EXTENDS Integers

CONSTANTS
  Processes,  \* processes that can run at a time
  Files,      \* paths of state files
  Facts,      \* what a command can add to an organisation
  Sort        \* the sort of each fact

VARIABLES
  file,      \* what is at each path
  process,   \* cli._firm and cli._state_path of each process, and where it is
  reported,  \* history: the facts that commands ended successfully have added
             \* to the organisation in each file
  shared     \* history: the files that two processes were using at once

persistenceVars == <<file, process, reported, shared>>

Sorts == {"agent", "suspended agent", "role", "memory", "proposal", "assignment"}

Nowhere == "nowhere"

ASSUME PersistenceAssumption ==
  /\ Sort \in [Facts -> Sorts]
  /\ Nowhere \notin Files

Nothing == [no |-> "file"]
Torn == [no |-> "JSON"]

(* A process has its organisation, the file this came from or was last     *)
(* saved to (its home), the path it saves to by itself, the target of the  *)
(* save at hand, and the facts added since the last save.                  *)
Process == [at : {"ready", "worked", "writing"}, repl : BOOLEAN, firm : SUBSET Facts,
            home : Files \cup {Nowhere}, path : Files, target : Files,
            added : SUBSET Facts]

Gone == [at |-> "gone"]

PersistenceTypeOK ==
  /\ file \in [Files -> [facts : SUBSET Facts] \cup {Nothing, Torn}]
  /\ process \in [Processes -> Process \cup {Gone}]
  /\ reported \in [Files -> SUBSET Facts]
  /\ shared \subseteq Files

PersistenceInit ==
  /\ file = [f \in Files |-> Nothing]
  /\ process = [p \in Processes |-> Gone]
  /\ reported = [f \in Files |-> {}]
  /\ shared = {}

-----------------------------------------------------------------------------

Extracted_ActiveOnly(firm) == {x \in firm : Sort[x] \in {"agent", "role", "memory"}}

(* _extract_state: of proposals, tasks, evolutions, amendments, role       *)
(* assignments and peers at most statistics are kept.                      *)
Extracted(firm) ==
  {x \in firm : Sort[x] \in {"agent", "suspended agent", "role", "memory"}}

(* _restore_state: assignments are not made anew from the roles that the   *)
(* agents hold.                                                            *)
Restored(facts) ==
  {x \in facts : Sort[x] \in {"agent", "suspended agent", "role", "memory"}}

(* load_firm, where there is something that can be loaded.                 *)
Loadable(f) == file[f] \notin {Nothing, Torn}

(* A process has to do with f, or with the organisation it has from there. *)
Uses(p, f) == process[p] # Gone /\ f \in {process[p].home, process[p].path, process[p].target}

(* The files that p comes to share with another process by using f.        *)
Sharing(p, f) ==
  shared \cup {g \in {f} : \E q \in Processes \ {p} : Uses(q, f)}

(* main with init: a new organisation, whatever the file holds.            *)
Initialise(p, f) ==
  /\ process[p] = Gone
  /\ process' = [process EXCEPT ![p] =
       [at |-> "worked", repl |-> FALSE, firm |-> {}, home |-> Nowhere,
        path |-> f, target |-> f, added |-> {}]]
  /\ shared' = Sharing(p, f)
  /\ UNCHANGED <<file, reported>>

(* main with any other command: _load_state.                               *)
Begin(p, f, repl) ==
  /\ process[p] = Gone
  /\ Loadable(f)
  /\ process' = [process EXCEPT ![p] =
       [at |-> "ready", repl |-> repl, firm |-> Restored(file[f].facts), home |-> f,
        path |-> f, target |-> f, added |-> {}]]
  /\ shared' = Sharing(p, f)
  /\ UNCHANGED <<file, reported>>

(* cmd_repl creates an organisation when there is none it can load.  The   *)
(* other commands exit then (_get_firm).                                   *)
BeginNew(p, f) ==
  /\ process[p] = Gone
  /\ ~Loadable(f)
  /\ process' = [process EXCEPT ![p] =
       [at |-> "worked", repl |-> TRUE, firm |-> {}, home |-> Nowhere,
        path |-> f, target |-> f, added |-> {}]]
  /\ shared' = Sharing(p, f)
  /\ UNCHANGED <<file, reported>>

(* A handler that adds facts to the organisation.  One that adds nothing   *)
(* saves as well, if its family is among _MUTATING_COMMANDS.               *)
Work(p, more) ==
  /\ process[p].at = "ready"
  /\ process' = [process EXCEPT ![p].at = "worked", ![p].firm = @ \cup more,
                                ![p].added = @ \cup more]
  /\ UNCHANGED <<file, reported, shared>>

(* save_firm: the state is extracted before the file is opened for         *)
(* writing, which truncates it.                                            *)
OpenFile(p) ==
  /\ process[p].at = "worked"
  /\ process' = [process EXCEPT ![p].at = "writing"]
  /\ file' = [file EXCEPT ![process[p].target] = Torn]
  /\ UNCHANGED <<reported, shared>>

(* A process that has saved.                                               *)
After(p) ==
  IF process[p].repl
  THEN [process[p] EXCEPT !.at = "ready", !.target = process[p].path, !.added = {},
          !.home = IF process[p].target = process[p].path THEN process[p].path ELSE @]
  ELSE Gone

(* The rest of save_firm.                                                  *)
WriteFile(p) ==
  LET f == process[p].target
  IN /\ process[p].at = "writing"
     /\ \/ file' = [file EXCEPT ![f] = [facts |-> Extracted(process[p].firm)]]
        \/ f \in shared /\ file' = [file EXCEPT ![f] = Torn]
     /\ reported' = [reported EXCEPT ![f] =
          IF process[p].home = f THEN @ \cup process[p].added
                                 ELSE process[p].firm]
     /\ process' = [process EXCEPT ![p] = After(p)]
     /\ UNCHANGED shared

(* An error: a command ends without saving, and so does a repl that cannot *)
(* save what it created; otherwise it tells and goes on.                   *)
Fail(p) ==
  /\ process[p].at \in {"worked", "writing"}
  /\ process' = [process EXCEPT ![p] =
       IF process[p].repl /\ process[p].home # Nowhere
       THEN [@ EXCEPT !.at = "ready", !.target = process[p].path]
       ELSE Gone]
  /\ UNCHANGED <<file, reported, shared>>

(* A crash, and the end of a process that has nothing to save.             *)
Exit(p) ==
  /\ process[p] # Gone
  /\ process' = [process EXCEPT ![p] = Gone]
  /\ UNCHANGED <<file, reported, shared>>

-----------------------------------------------------------------------------
(* Commands of cmd_repl.                                                   *)

(* save: over whatever is at f.                                            *)
SaveAs(p, f) ==
  /\ process[p].at = "ready" /\ process[p].repl
  /\ process' = [process EXCEPT ![p].at = "worked", ![p].target = f]
  /\ shared' = Sharing(p, f)
  /\ UNCHANGED <<file, reported>>

(* load: the path is f from now on, whether or not there was anything to   *)
(* load; the next save then puts the old organisation there.               *)
Load(p, f) ==
  /\ process[p].at = "ready" /\ process[p].repl
  /\ process' = [process EXCEPT ![p] =
       IF Loadable(f)
       THEN [@ EXCEPT !.firm = Restored(file[f].facts), !.home = f, !.path = f,
                      !.target = f, !.added = {}]
       ELSE [@ EXCEPT !.path = f, !.target = f]]
  /\ shared' = Sharing(p, f)
  /\ UNCHANGED <<file, reported>>

PersistenceNext ==
  \E p \in Processes :
    \/ \E f \in Files :
         \/ Initialise(p, f)
         \/ \E repl \in BOOLEAN : Begin(p, f, repl)
         \/ BeginNew(p, f)
         \/ SaveAs(p, f)
         \/ Load(p, f)
    \/ \E more \in {{}} \cup {{x} : x \in Facts} : Work(p, more)
    \/ OpenFile(p)
    \/ WriteFile(p)
    \/ Fail(p)
    \/ Exit(p)

PersistenceSpec == PersistenceInit /\ [][PersistenceNext]_persistenceVars

-----------------------------------------------------------------------------
(* Properties.                                                             *)

(* A file that can be loaded holds every agent, whatever its status, every *)
(* role and every memory that a command has reported and saved there,      *)
(* through any number of loads, failed commands, failed saves and crashes, *)
(* as long as two processes have not used it at once.                      *)
ReportedStays ==
  \A f \in Files, x \in Facts :
    /\ Loadable(f) /\ f \notin shared
    /\ x \in reported[f] /\ Sort[x] \notin {"proposal", "assignment"}
    => x \in file[f].facts

=============================================================================
