----------------------------- MODULE AgentDrive -----------------------------
(***************************************************************************)
(* One account as the two agents that act for its owner see it: the        *)
(* assistant in the chat and the applications connected over MCP.  Each    *)
(* service call they make is one step here; what happens inside such a     *)
(* call is the matter of FileLibrary, ConversionPipeline and               *)
(* WorkspaceExecution.  The owner, the converter and the workspace worker  *)
(* act at the same time.                                                   *)
(***************************************************************************)
EXTENDS Naturals, Sequences, FiniteSets, SequencesExt

CONSTANTS Files, Folders,
          Root,           \* the drive itself, no folder
          Gone,           \* deleted
          Fresh,          \* not made yet
          Name,           \* a folder's name, casefolded
          Extension,      \* a file's format
          Targets,        \* a format's targets in the conversion map
          Readable,       \* files small enough to read, whose text a reader finds
          Jobs,           \* bound: conversions ever started
          Workspaces,     \* bound: workspaces ever created
          MaxWorkspaces,  \* workspaces an account may have
          Executions      \* bound: runs ever submitted

ASSUME DriveAssumption == /\ Root \notin Folders /\ {Gone, Fresh} \cap (Folders \cup {Root}) = {} /\ Gone # Fresh
                          /\ MaxWorkspaces \in Nat /\ Readable \subseteq Files
                          /\ IsFiniteSet(Folders)
                          /\ \A source \in DOMAIN Targets : IsFiniteSet(Targets[source])

VARIABLES place,    \* file -> the folder it is in
          parent,   \* folder -> the folder above it
          job,      \* conversion -> its state and who asked for it
          ws,       \* workspace -> its state
          run       \* run -> its state

driveVars == <<place, parent, job, ws, run>>

Places == Folders \cup {Root}

TypeOKDrive ==
    /\ place \in [Files -> Places \cup {Gone, Fresh}]
    /\ parent \in [Folders -> Places \cup {Gone, Fresh}]
    /\ job \in [Jobs -> [state : {"unused", "active", "completed", "failed"},
                         origin : {"web", "mcp"}]]
    /\ ws \in [Workspaces -> {"unused", "stopped", "running", "deleted"}]
    /\ run \in [Executions -> {"unused", "active", "finished", "cancelled"}]

InitDrive(files, folders, workspaces) ==
    /\ place = [f \in Files |-> files[f]]
    /\ parent = [d \in Folders |-> folders[d]]
    /\ job = [j \in Jobs |-> [state |-> "unused", origin |-> "web"]]
    /\ ws = [w \in Workspaces |-> IF w \in workspaces THEN "stopped" ELSE "unused"]
    /\ run = [e \in Executions |-> "unused"]

----------------------------------------------------------------------------
(* What the services answer                                                *)

get_file(f) == place[f] \in Places
get_folder(d) == parent[d] \in Places
FolderThere(p) == p # Root => get_folder(p)

list_by_parent(p) == {d \in Folders : parent[d] = p}
list_files(p) == {f \in Files : place[f] = p}

(* The folder and all below it, or nothing when the account has it no more.*)
resolve_folder_scope(d) ==
    LET down[n \in 0..Cardinality(Folders)] ==
            IF n = 0 THEN {d} ELSE down[n - 1] \cup UNION {list_by_parent(e) : e \in down[n - 1]}
    IN IF get_folder(d) THEN down[Cardinality(Folders)] ELSE {}

NameConflict(d, p) == p # Root /\ \E e \in list_by_parent(p) \ {d} : Name[e] = Name[d]

is_job_owner(j) == job[j].state # "unused"
Usable(w) == ws[w] \in {"stopped", "running"}
is_terminal(e) == run[e] \in {"finished", "cancelled"}

(* What the services change                                                *)

create_folder(d, p) == parent' = [parent EXCEPT ![d] = p] /\ UNCHANGED <<place, job, ws, run>>

move_file(f, p) == place' = [place EXCEPT ![f] = p] /\ UNCHANGED <<parent, job, ws, run>>

add_file(f, p) == move_file(f, p)

delete_file(f) == move_file(f, Gone)

convert_library_file(j, origin) ==
    /\ job' = [job EXCEPT ![j] = [state |-> "active", origin |-> origin]]
    /\ UNCHANGED <<place, parent, ws, run>>

SetWorkspace(w, state) == ws' = [ws EXCEPT ![w] = state] /\ UNCHANGED <<place, parent, job, run>>
create_workspace(w) == SetWorkspace(w, "stopped")
start_runtime(w) == SetWorkspace(w, "running")
AtWorkspaceLimit == Cardinality({w \in Workspaces : Usable(w)}) >= MaxWorkspaces

SetRun(e, state) == run' = [run EXCEPT ![e] = state] /\ UNCHANGED <<place, parent, job, ws>>
submit(e) == SetRun(e, "active")

(* Cancelling a run that has ended leaves it as it ended.                  *)
cancel(e) == SetRun(e, IF is_terminal(e) THEN run[e] ELSE "cancelled")

NoChange == UNCHANGED driveVars

----------------------------------------------------------------------------
(* The owner in the web client, the converter and the workspace worker     *)

OwnerMovesFile(f) == get_file(f) /\ \E p \in Places \ {place[f]} : FolderThere(p) /\ move_file(f, p)

(* A folder is not moved into itself or below itself.                      *)
OwnerMovesFolder(d) ==
    /\ get_folder(d)
    /\ \E p \in Places \ {parent[d]} :
          /\ FolderThere(p) /\ p \notin resolve_folder_scope(d) /\ ~NameConflict(d, p)
          /\ parent' = [parent EXCEPT ![d] = p]
    /\ UNCHANGED <<place, job, ws, run>>

OwnerDeletesFile(f) == get_file(f) /\ delete_file(f)

(* Everything in the folder goes with it.                                  *)
OwnerDeletesFolder(d) ==
    /\ get_folder(d)
    /\ LET tree == resolve_folder_scope(d)
       IN /\ parent' = [e \in Folders |-> IF e \in tree THEN Gone ELSE parent[e]]
          /\ place' = [f \in Files |-> IF place[f] \in tree THEN Gone ELSE place[f]]
    /\ UNCHANGED <<job, ws, run>>

OwnerDeletesWorkspace(w) == Usable(w) /\ SetWorkspace(w, "deleted")

RuntimeStops(w) == ws[w] = "running" /\ SetWorkspace(w, "stopped")

ConversionEnds(j) ==
    /\ job[j].state = "active"
    /\ \E state \in {"completed", "failed"} : job' = [job EXCEPT ![j].state = state]
    /\ UNCHANGED <<place, parent, ws, run>>

RunEnds(e) == run[e] = "active" /\ SetRun(e, "finished")

OwnerActs ==
    \/ \E f \in Files : OwnerMovesFile(f) \/ OwnerDeletesFile(f)
    \/ \E d \in Folders : OwnerMovesFolder(d) \/ OwnerDeletesFolder(d)
    \/ \E w \in Workspaces : OwnerDeletesWorkspace(w)

BackgroundActs ==
    \/ \E j \in Jobs : ConversionEnds(j)
    \/ \E w \in Workspaces : RuntimeStops(w)
    \/ \E e \in Executions : RunEnds(e)
=============================================================================
