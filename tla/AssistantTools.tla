--------------------------- MODULE AssistantTools ---------------------------
(***************************************************************************)
(* The assistant's tools: what each may change in the account and which    *)
(* artifacts it leaves in the turn's accumulator.  The arguments come from *)
(* the model, so a tool is given any of them; a tool never fails, an error *)
(* is a result without artifacts.                                          *)
(***************************************************************************)
EXTENDS AgentDrive

CONSTANTS Turns,            \* bound: chat turns ever taken
          Conversations,    \* bound: conversations ever created
          NoConversation, NoWorkspace,
          MaxActions,       \* max_actions_per_turn of the owner's plan
          MaxShown          \* _MAX_ARTIFACTS_PER_TOOL

ASSUME ToolAssumption == /\ MaxActions \in Nat /\ MaxShown \in Nat
                         /\ NoWorkspace \notin Workspaces
                         /\ \A S \in {Files, Jobs, Workspaces} : IsFiniteSet(S)

VARIABLE turn               \* turn -> where its handler stands

Artifact == [type : {"file", "folder", "job", "delete", "workspace", "workspace_file", "execution"},
             id : Files \cup Folders \cup Jobs \cup Workspaces \cup Executions,
             state : {"shown", "started", "pending", "deleted", "failed", "cancelled"}]

Shown(type, id) == [type |-> type, id |-> id, state |-> "shown"]
file_artifact(f) == Shown("file", f)
folder_artifact(d) == Shown("folder", d)

(* The tool's artifacts go to the end of the turn's accumulator.           *)
Yield(t, produced) ==
    turn' = [turn EXCEPT ![t].pc = "result", ![t].artifacts = @ \o produced]

Report(t, produced) == Yield(t, produced) /\ NoChange

(* An error, or a result with nothing to show.                             *)
Plain(t) == Report(t, <<>>)

Listed(type, ids) == LET shown == SetToSeq(ids)
                     IN [i \in 1..(IF Len(shown) < MaxShown THEN Len(shown) ELSE MaxShown)
                            |-> Shown(type, shown[i])]

(* Mutant of actions_taken: only conversions count.                        *)
actions_taken_jobs(artifacts) ==
    Cardinality({i \in DOMAIN artifacts : artifacts[i].type = "job" /\ artifacts[i].state = "started"})

(* What the turn has already done or proposed to the owner's data.         *)
actions_taken(artifacts) ==
    Cardinality({i \in DOMAIN artifacts : \/ artifacts[i].type = "job" /\ artifacts[i].state = "started"
                                          \/ artifacts[i].type = "delete" /\ artifacts[i].state = "pending"})

BudgetSpent(t) == actions_taken(turn[t].artifacts) >= MaxActions

----------------------------------------------------------------------------
(* Folders, named by id or by a name only one of them has                  *)

(* Level by level from the root; no folder is cut off from it.             *)
all_folders == {d \in Folders : get_folder(d)}

resolve_folder_id(ref) ==
    IF ref \in Folders /\ get_folder(ref) THEN {ref}
    ELSE LET matches == {d \in all_folders : Name[d] = ref}
         IN IF Cardinality(matches) = 1 THEN matches ELSE {}

(* No argument at all means the root.                                      *)
resolve_optional_folder(ref) == IF ref = Root THEN {Root} ELSE resolve_folder_id(ref)

References == Places \cup {Name[d] : d \in Folders}

----------------------------------------------------------------------------
(* Files and folders                                                       *)

(* In the root or one folder, or, when a name or a format narrows the     *)
(* question, over the whole drive.                                         *)
tool_list_files(t) ==
    \E whole \in BOOLEAN, ref \in References, narrowed \in SUBSET Files :
        LET rows == IF whole THEN {f \in Files : get_file(f)}
                    ELSE UNION {list_files(p) : p \in resolve_optional_folder(ref)}
        IN Report(t, Listed("file", rows \cap narrowed))

tool_list_folders(t) == Plain(t)

tool_get_file_info(t) ==
    \E f \in Files : Report(t, IF get_file(f) THEN <<file_artifact(f)>> ELSE <<>>)

tool_create_folder(t) ==
    \E d \in Folders, ref \in References :
        /\ parent[d] = Fresh
        /\ LET at == {p \in resolve_optional_folder(ref) : ~NameConflict(d, p)}
           IN IF at = {} THEN Plain(t)
              ELSE \E p \in at : create_folder(d, p) /\ Yield(t, <<folder_artifact(d)>>)

tool_move_file(t) ==
    \E f \in Files, ref \in References :
        LET to == resolve_optional_folder(ref)
        IN IF to = {} \/ ~get_file(f) THEN Plain(t)
           ELSE \E p \in to : move_file(f, p) /\ Yield(t, <<file_artifact(f)>>)

(* A proposal: nothing is deleted until the owner confirms it.             *)
tool_delete_file(t) ==
    \E f \in Files :
        Report(t, IF BudgetSpent(t) \/ ~get_file(f) THEN <<>>
                  ELSE <<[type |-> "delete", id |-> f, state |-> "pending"]>>)

----------------------------------------------------------------------------
(* Formats and conversions                                                 *)

tool_list_supported_targets(t) == Plain(t)

tool_start_conversion(t) ==
    \E f \in Files, target \in DOMAIN Targets :
        IF BudgetSpent(t) \/ ~get_file(f) \/ target \notin Targets[Extension[f]] THEN Plain(t)
        ELSE \E j \in Jobs :
                /\ job[j].state = "unused"
                /\ convert_library_file(j, "web")
                /\ Yield(t, <<[type |-> "job", id |-> j, state |-> "started"]>>)

tool_get_conversion_status(t) ==
    \E j \in Jobs : Report(t, IF is_job_owner(j) THEN <<Shown("job", j)>> ELSE <<>>)

tool_list_recent_conversions(t) == Report(t, Listed("job", {j \in Jobs : is_job_owner(j)}))

tool_get_account_overview(t) == Plain(t)

----------------------------------------------------------------------------
(* Documents                                                               *)

read_document(f) == get_file(f) /\ f \in Readable

(* The file is shown even when its text turns out to be empty.             *)
document_text(t) ==
    \E f \in Files : Report(t, IF read_document(f) THEN <<file_artifact(f)>> ELSE <<>>)

tool_read_file_text(t) == document_text(t)

(* The text is summarised by the plan's model, or by its first sentences.  *)
tool_summarize_file(t) == document_text(t)

----------------------------------------------------------------------------
(* Workspaces: the one named, else the one the turn is about               *)

require_workspace_id(t, w) == IF w = NoWorkspace THEN turn[t].ws ELSE w

SomeWorkspace(t, Tool(_)) ==
    \E w \in Workspaces \cup {NoWorkspace} :
        LET chosen == require_workspace_id(t, w)
        IN IF chosen = NoWorkspace THEN Plain(t) ELSE Tool(chosen)

tool_list_workspaces(t) == Report(t, Listed("workspace", {w \in Workspaces : Usable(w)}))

tool_get_workspace(t) ==
    SomeWorkspace(t, LAMBDA w : Report(t, IF Usable(w) THEN <<Shown("workspace", w)>> ELSE <<>>))

tool_create_workspace(t) ==
    \E w \in Workspaces :
        /\ ws[w] = "unused"
        /\ IF AtWorkspaceLimit THEN Plain(t)
           ELSE create_workspace(w) /\ Yield(t, <<Shown("workspace", w)>>)

(* A running runtime is left alone, a stopped one started, which may fail. *)
ensure_runtime(t, w, produced) ==
    \/ Plain(t)
    \/ Usable(w) /\ start_runtime(w) /\ Yield(t, produced)

tool_list_workspace_files(t) ==
    SomeWorkspace(t, LAMBDA w : ensure_runtime(t, w, <<Shown("workspace", w)>>))

tool_read_workspace_file(t) ==
    SomeWorkspace(t, LAMBDA w : ensure_runtime(t, w, <<Shown("workspace_file", w)>>))

tool_write_workspace_file(t) ==
    SomeWorkspace(t, LAMBDA w : ensure_runtime(t, w, <<Shown("workspace_file", w)>>))

(* The run outlives the short wait for its result.                         *)
tool_run_python(t) ==
    SomeWorkspace(t, LAMBDA w :
        \/ Plain(t)
        \/ /\ Usable(w)
           /\ \E e \in Executions : /\ run[e] = "unused"
                                    /\ submit(e) /\ Yield(t, <<Shown("execution", e)>>))

tool_get_execution(t) == Plain(t)

tool_cancel_execution(t) == \E e \in Executions : run[e] # "unused" /\ cancel(e) /\ Yield(t, <<>>)

tool_save_workspace_environment(t) ==
    SomeWorkspace(t, LAMBDA w : Report(t, IF ws[w] = "running" THEN <<Shown("workspace", w)>> ELSE <<>>))

----------------------------------------------------------------------------
(* The tools the model is offered                                          *)

workspace_specs ==
    {"list_workspaces", "get_workspace", "create_workspace", "list_workspace_files",
     "read_workspace_file", "write_workspace_file", "run_python", "get_execution",
     "cancel_execution", "save_workspace_environment"}

workspace_dispatch(t, name) ==
    \/ name = "list_workspaces" /\ tool_list_workspaces(t)
    \/ name = "get_workspace" /\ tool_get_workspace(t)
    \/ name = "create_workspace" /\ tool_create_workspace(t)
    \/ name = "list_workspace_files" /\ tool_list_workspace_files(t)
    \/ name = "read_workspace_file" /\ tool_read_workspace_file(t)
    \/ name = "write_workspace_file" /\ tool_write_workspace_file(t)
    \/ name = "run_python" /\ tool_run_python(t)
    \/ name = "get_execution" /\ tool_get_execution(t)
    \/ name = "cancel_execution" /\ tool_cancel_execution(t)
    \/ name = "save_workspace_environment" /\ tool_save_workspace_environment(t)

dispatch(t, name) ==
    \/ workspace_dispatch(t, name)
    \/ name = "list_files" /\ tool_list_files(t)
    \/ name = "list_folders" /\ tool_list_folders(t)
    \/ name = "get_file_info" /\ tool_get_file_info(t)
    \/ name = "list_supported_targets" /\ tool_list_supported_targets(t)
    \/ name = "read_file_text" /\ tool_read_file_text(t)
    \/ name = "summarize_file" /\ tool_summarize_file(t)
    \/ name = "start_conversion" /\ tool_start_conversion(t)
    \/ name = "get_conversion_status" /\ tool_get_conversion_status(t)
    \/ name = "list_recent_conversions" /\ tool_list_recent_conversions(t)
    \/ name = "create_folder" /\ tool_create_folder(t)
    \/ name = "move_file" /\ tool_move_file(t)
    \/ name = "delete_file" /\ tool_delete_file(t)
    \/ name = "get_account_overview" /\ tool_get_account_overview(t)

(* To look around and to read; to change something and to follow it up.    *)
reading_specs ==
    {"list_files", "list_folders", "get_file_info", "list_supported_targets", "read_file_text",
     "summarize_file"}

working_specs ==
    {"start_conversion", "get_conversion_status", "list_recent_conversions", "create_folder",
     "move_file", "delete_file", "get_account_overview"}

specs == reading_specs \cup working_specs \cup workspace_specs

(* Whatever a tool raises becomes its result.                              *)
execute(t, name) == dispatch(t, name) \/ Plain(t)
=============================================================================
