------------------------------ MODULE McpTools ------------------------------
(***************************************************************************)
(* The tools of an application connected over MCP.  A call loads the       *)
(* grant's binding, is checked against the token's scopes, resolves the    *)
(* folder the grant is confined to, looks its file up and only then acts,  *)
(* so the account may change between any two of these.  Every call is      *)
(* recorded with its outcome.                                              *)
(***************************************************************************)
EXTENDS AgentDrive, Telemetry, ObjectCipher

CONSTANTS Calls,          \* bound: calls under way at once
          MaxDownload,    \* _MAX_DOWNLOAD_BYTES
          Chunk           \* _DOWNLOAD_CHUNK_BYTES

(* The slack has room for the header, the tags and the rest of the chunk   *)
(* of the last byte that is downloaded.                                    *)
ASSUME McpAssumption ==
    /\ MaxDownload \in Nat \ {0} /\ Chunk \in 1..(MaxDownload - 1)
    /\ HeaderLen + Ceiling(MaxDownload, ChunkSize) * TagLen <= Slack /\ ChunkSize <= ChunkSlack

VARIABLES grant,   \* the token's scopes and the grant's binding; Root for no folder
          call,    \* call -> where its handler stands
          size,    \* file -> the size its row records, its real one and how it is stored
          page     \* file -> what the agent has read of it

mcpVars == <<grant, call, size, page>>

READ == "documents.read"
CONVERT == "documents.convert"
WRITE == "documents.write"
DELETE == "documents.delete"
WS_READ == "workspaces.read"
WS_EXECUTE == "workspaces.execute"

Grant == [scopes : SUBSET {READ, CONVERT, WRITE, DELETE, WS_READ, WS_EXECUTE},
          confined : BOOLEAN, folder : Places]

IdleCall == [pc |-> "idle", tool |-> "", confined |-> FALSE, bound |-> Root,
             reach |-> {}, files |-> {}, dest |-> {}, outcome |-> "SUCCESS", stale |-> FALSE]

TypeOKMcp ==
    /\ grant \in Grant
    /\ \A c \in Calls :
          /\ call[c].pc \in {"idle", "gate", "own", "act", "record"}
          /\ call[c].reach \subseteq Places /\ call[c].files \subseteq Files
          /\ call[c].dest \subseteq Places
          /\ call[c].outcome \in {"SUCCESS", "ERROR", "DENIED"}
    /\ \A f \in Files : /\ Len(page[f].got) <= MaxDownload
                       /\ page[f].status \in {"none", "more", "end", "past", "failed"}

InitMcp(g, sizes) ==
    /\ grant = g /\ size = sizes
    /\ call = [c \in Calls |-> IdleCall]
    /\ page = [f \in Files |-> [got |-> <<>>, status |-> "none"]]

----------------------------------------------------------------------------
(* A tool's answer                                                         *)

(* Refused for a scope, failed, or done.                                   *)
classify(c, outcome, files, dest) ==
    call' = [call EXCEPT ![c].pc = "record", ![c].outcome = outcome,
                         ![c].files = @ \cup files, ![c].dest = dest]

Done(c, files, dest) == classify(c, "SUCCESS", files, dest) /\ UNCHANGED page
Answer(c, files) == Done(c, files, {}) /\ NoChange
Refuse(c) == classify(c, "ERROR", {}, {}) /\ NoChange /\ UNCHANGED page

(* An unconfined grant reaches everything, the root included; a confined   *)
(* one the folders of its subtree.                                         *)
allows(c, p) == p \in call[c].reach

(* The folders a call may work in: the one named, which must be in reach;  *)
(* without one the folder of the binding, or the root.                     *)
NamedFolders(c) ==
    {IF p = Root /\ call[c].confined THEN call[c].bound ELSE p :
        p \in {q \in Places : q = Root \/ allows(c, q)}}

(* A folder out of reach is refused.                                       *)
OutOfReach(c) == (\E p \in Places \ {Root} : ~allows(c, p)) /\ Refuse(c)

----------------------------------------------------------------------------
(* Documents                                                               *)

mcp_get_supported_conversions(c) == Answer(c, {})

(* A search goes over all in reach; without a folder an unconfined grant   *)
(* lists the whole drive, a confined one its own folder.                   *)
mcp_list_files(c) ==
    \/ Answer(c, {f \in Files : get_file(f) /\ allows(c, place[f])})
    \/ OutOfReach(c)
    \/ \E p \in NamedFolders(c) :
          IF p = Root THEN Answer(c, {f \in Files : get_file(f)})
          ELSE IF get_folder(p) THEN Answer(c, list_files(p)) ELSE Refuse(c)

mcp_list_folders(c) ==
    \/ OutOfReach(c)
    \/ \E p \in NamedFolders(c) :
          IF FolderThere(p) THEN Done(c, {}, {d \in list_by_parent(p) : allows(c, d)}) /\ NoChange
          ELSE Refuse(c)

mcp_create_folder(c) ==
    \/ OutOfReach(c)
    \/ \E p \in NamedFolders(c), d \in Folders :
          /\ parent[d] = Fresh
          /\ IF FolderThere(p) /\ ~NameConflict(d, p)
             THEN create_folder(d, p) /\ Done(c, {}, {d}) ELSE Refuse(c)

(* The row was read when the file was looked up.                           *)
mcp_get_file(c) == Answer(c, {})

mcp_get_conversion_status(c) ==
    \E j \in Jobs : IF is_job_owner(j) THEN Answer(c, {}) ELSE Refuse(c)

(* The grant's history scope decides which conversions are listed.         *)
mcp_get_conversion_history(c) == Answer(c, {})

mcp_get_credits(c) == Answer(c, {})

Least(a, b) == IF a < b THEN a ELSE b

(* Mutant of read_limit: no extra byte.                                    *)
read_limit_exact(start, chunk) == Least(MaxDownload, start + chunk)

(* One byte more than the page tells whether another page follows.         *)
read_limit(start, chunk) == Least(MaxDownload, start + chunk + 1)

(* A conversion's output is stored under the key of its time, an upload as *)
(* the browser sent it.                                                    *)
StoredObject(f) == LET contents == Contents(size[f].actual)
             IN IF size[f].key = "clear" THEN contents ELSE encrypt_stream(size[f].key, contents)

(* An agent reads a file from the start, and on from where a page ended.   *)
page_start(f) == IF page[f].status = "more" THEN Len(page[f].got) ELSE 0

(* A page that cannot be had.                                              *)
page_error(c, f, status) ==
    classify(c, "ERROR", {}, {}) /\ page' = [page EXCEPT ![f].status = status]

(* A page is turned only when there is one.                                *)
turn_page(c, f, chunk, data) ==
    LET start == page_start(f)
        measured == Len(data)
        window == SubSeq(data, start + 1, Least(measured, start + chunk))
        end == start + Len(window)
        has_more == /\ measured >= read_limit(start, chunk)
                    /\ measured > end \/ size[f].recorded > end
    IN IF start >= measured /\ measured > 0 THEN page_error(c, f, "past")
       ELSE /\ classify(c, "SUCCESS", {}, {})
            /\ page' = [page EXCEPT ![f] = [got |-> SubSeq(@.got, 1, start) \o window,
                                           status |-> IF has_more THEN "more" ELSE "end"]]

mcp_download_file(c) ==
    \E f \in call[c].files, chunk \in 1..Chunk :
        IF size[f].recorded > MaxDownload \/ ~get_file(f) THEN Refuse(c)
        ELSE LET read == read_object(StoredObject(f), read_limit(page_start(f), chunk))
             IN /\ NoChange
                /\ IF read = {} THEN page_error(c, f, "failed")
                   ELSE \E data \in read : turn_page(c, f, chunk, data)

(* The job is made from the row looked up, whatever became of the file.    *)
mcp_convert_file(c) ==
    \E f \in call[c].files, target \in DOMAIN Targets :
        IF target \notin Targets[Extension[f]] THEN Refuse(c)
        ELSE \E j \in Jobs :
                job[j].state = "unused" /\ convert_library_file(j, "mcp") /\ Done(c, {}, {})

(* Quota, type and folder are checked by complete_upload, which may refuse.*)
Store(c, p) ==
    \/ Refuse(c)
    \/ \E f \in Files : /\ place[f] = Fresh /\ FolderThere(p)
                        /\ add_file(f, p) /\ Done(c, {f}, {p})

mcp_save_file(c) ==
    \/ OutOfReach(c)
    \/ \E p \in NamedFolders(c), j \in Jobs :
          IF job[j].state = "completed" THEN Store(c, p) ELSE Refuse(c)

mcp_upload_file(c) == OutOfReach(c) \/ \E p \in NamedFolders(c) : Store(c, p)

(* The service looks the file up again.                                    *)
mcp_delete_file(c) ==
    \E f \in call[c].files : IF get_file(f) THEN delete_file(f) /\ Done(c, {}, {}) ELSE Refuse(c)

----------------------------------------------------------------------------
(* Workspaces, which no folder confines and no tool starts                 *)

(* An expected failure is an answer, not an exception.                     *)
failures_as_values(c) == Refuse(c)

(* The workspaces a call may work with.                                    *)
Mine == {w \in Workspaces : Usable(w)}

mcp_list_workspaces(c) == Answer(c, {})
mcp_get_workspace(c) == failures_as_values(c) \/ (Mine # {} /\ Answer(c, {}))

mcp_create_workspace(c) ==
    \E w \in Workspaces :
        /\ ws[w] = "unused"
        /\ IF AtWorkspaceLimit THEN Refuse(c) ELSE create_workspace(w) /\ Done(c, {}, {})

(* Mutant of mcp_list_workspace_files: the runtime is started for it.      *)
mcp_list_workspace_files_starting(c) ==
    failures_as_values(c) \/ \E w \in Mine : start_runtime(w) /\ Done(c, {}, {})

(* Without a runtime that runs the call fails: none is started for it.     *)
mcp_list_workspace_files(c) == failures_as_values(c) \/ (Mine # {} /\ Answer(c, {}))
mcp_read_workspace_file(c) == failures_as_values(c) \/ (Mine # {} /\ Answer(c, {}))
mcp_write_workspace_file(c) == failures_as_values(c) \/ (Mine # {} /\ Answer(c, {}))

mcp_run_code(c) ==
    \/ failures_as_values(c)
    \/ Mine # {} /\ \E e \in Executions : run[e] = "unused" /\ submit(e) /\ Done(c, {}, {})

mcp_get_execution(c) == \E e \in Executions : IF run[e] = "unused" THEN Refuse(c) ELSE Answer(c, {})

mcp_cancel_execution(c) ==
    \E e \in Executions : IF run[e] = "unused" THEN Refuse(c) ELSE cancel(e) /\ Done(c, {}, {})

mcp_save_workspace_environment(c) ==
    failures_as_values(c) \/ \E w \in Mine : ws[w] = "running" /\ Answer(c, {})

mcp_list_artifacts(c) == failures_as_values(c) \/ (Mine # {} /\ Answer(c, {}))

----------------------------------------------------------------------------
(* What is registered of each tool: the scope it asks for and the hints a  *)
(* client decides by whether to ask the owner first                        *)

ToolAnnotations(scope, read_only, destructive) ==
    [scope |-> scope, read_only |-> read_only, destructive |-> destructive]

register_get_supported_conversions == ToolAnnotations(READ, TRUE, FALSE)
register_list_files == ToolAnnotations(READ, TRUE, FALSE)
register_get_file == ToolAnnotations(READ, TRUE, FALSE)
register_download_file == ToolAnnotations(READ, TRUE, FALSE)
register_list_folders == ToolAnnotations(READ, TRUE, FALSE)
register_create_folder == ToolAnnotations(WRITE, FALSE, FALSE)
register_get_conversion_status == ToolAnnotations(READ, TRUE, FALSE)
register_get_conversion_history == ToolAnnotations(READ, TRUE, FALSE)
register_get_credits == ToolAnnotations(READ, TRUE, FALSE)
register_convert_file == ToolAnnotations(CONVERT, FALSE, FALSE)
register_save_file == ToolAnnotations(WRITE, FALSE, FALSE)
register_upload_file == ToolAnnotations(WRITE, FALSE, FALSE)
register_delete_file == ToolAnnotations(DELETE, FALSE, TRUE)
register_list_workspaces == ToolAnnotations(WS_READ, TRUE, FALSE)
register_get_workspace == ToolAnnotations(WS_READ, TRUE, FALSE)
register_create_workspace == ToolAnnotations(WS_EXECUTE, FALSE, FALSE)
register_list_workspace_files == ToolAnnotations(WS_READ, TRUE, FALSE)
register_read_workspace_file == ToolAnnotations(WS_READ, TRUE, FALSE)
register_write_workspace_file == ToolAnnotations(WS_EXECUTE, FALSE, FALSE)
register_run_code == ToolAnnotations(WS_EXECUTE, FALSE, FALSE)
register_get_execution == ToolAnnotations(WS_READ, TRUE, FALSE)
register_list_artifacts == ToolAnnotations(WS_READ, TRUE, FALSE)
register_cancel_execution == ToolAnnotations(WS_EXECUTE, FALSE, TRUE)
register_save_workspace_environment == ToolAnnotations(WS_EXECUTE, FALSE, FALSE)

DocumentTools ==
    [get_supported_conversions |-> register_get_supported_conversions,
     list_files |-> register_list_files, get_file |-> register_get_file,
     download_file |-> register_download_file, list_folders |-> register_list_folders,
     create_folder |-> register_create_folder,
     get_conversion_status |-> register_get_conversion_status,
     get_conversion_history |-> register_get_conversion_history,
     get_credits |-> register_get_credits, convert_file |-> register_convert_file,
     save_file |-> register_save_file, upload_file |-> register_upload_file,
     delete_file |-> register_delete_file]

WorkspaceTools ==
    [list_workspaces |-> register_list_workspaces, get_workspace |-> register_get_workspace,
     create_workspace |-> register_create_workspace,
     list_workspace_files |-> register_list_workspace_files,
     read_workspace_file |-> register_read_workspace_file,
     write_workspace_file |-> register_write_workspace_file, run_code |-> register_run_code,
     get_execution |-> register_get_execution, list_artifacts |-> register_list_artifacts,
     cancel_execution |-> register_cancel_execution,
     save_workspace_environment |-> register_save_workspace_environment]

McpToolNames == DOMAIN DocumentTools \cup DOMAIN WorkspaceTools
Registered(name) == IF name \in DOMAIN DocumentTools THEN DocumentTools[name] ELSE WorkspaceTools[name]

(* Tools that are given a file.                                            *)
FileTools == {"get_file", "download_file", "convert_file", "delete_file"}

tool_body(c) ==
    LET name == call[c].tool
    IN \/ name = "get_supported_conversions" /\ mcp_get_supported_conversions(c)
       \/ name = "list_files" /\ mcp_list_files(c)
       \/ name = "get_file" /\ mcp_get_file(c)
       \/ name = "download_file" /\ mcp_download_file(c)
       \/ name = "list_folders" /\ mcp_list_folders(c)
       \/ name = "create_folder" /\ mcp_create_folder(c)
       \/ name = "get_conversion_status" /\ mcp_get_conversion_status(c)
       \/ name = "get_conversion_history" /\ mcp_get_conversion_history(c)
       \/ name = "get_credits" /\ mcp_get_credits(c)
       \/ name = "convert_file" /\ mcp_convert_file(c)
       \/ name = "save_file" /\ mcp_save_file(c)
       \/ name = "upload_file" /\ mcp_upload_file(c)
       \/ name = "delete_file" /\ mcp_delete_file(c)
       \/ name = "list_workspaces" /\ mcp_list_workspaces(c)
       \/ name = "get_workspace" /\ mcp_get_workspace(c)
       \/ name = "create_workspace" /\ mcp_create_workspace(c)
       \/ name = "list_workspace_files" /\ mcp_list_workspace_files(c)
       \/ name = "read_workspace_file" /\ mcp_read_workspace_file(c)
       \/ name = "write_workspace_file" /\ mcp_write_workspace_file(c)
       \/ name = "run_code" /\ mcp_run_code(c)
       \/ name = "get_execution" /\ mcp_get_execution(c)
       \/ name = "list_artifacts" /\ mcp_list_artifacts(c)
       \/ name = "cancel_execution" /\ mcp_cancel_execution(c)
       \/ name = "save_workspace_environment" /\ mcp_save_workspace_environment(c)

----------------------------------------------------------------------------
(* A call                                                                  *)

NoTelemetry == UNCHANGED telemetryVars

(* One view of the binding for the whole call.                             *)
open_mcp_scope(c, name) ==
    /\ call[c].pc = "idle"
    /\ call' = [call EXCEPT ![c] = [IdleCall EXCEPT
          !.pc = "gate", !.tool = name, !.confined = grant.confined, !.bound = grant.folder]]
    /\ NoChange /\ NoTelemetry /\ UNCHANGED <<grant, size, page>>

require(c) == Registered(call[c].tool).scope \in grant.scopes

(* Mutant of resolve_folder: a confined grant whose folder is gone reaches *)
(* the whole drive.                                                        *)
resolve_folder_widened(c) ==
    IF call[c].confined /\ call[c].bound # Root THEN resolve_folder_scope(call[c].bound) ELSE Places

(* The folders in reach; none is a refusal.                                *)
resolve_folder(c) ==
    IF ~call[c].confined THEN Places
    ELSE IF call[c].bound = Root THEN {} ELSE resolve_folder_scope(call[c].bound)

Gate(c) ==
    /\ call[c].pc = "gate"
    /\ LET name == call[c].tool
           reach == resolve_folder(c)
       IN IF ~require(c) THEN classify(c, "DENIED", {}, {})
          ELSE IF name \in DOMAIN WorkspaceTools THEN call' = [call EXCEPT ![c].pc = "act"]
          ELSE IF reach = {} THEN classify(c, "ERROR", {}, {})
          ELSE call' = [call EXCEPT ![c].pc = IF name \in FileTools THEN "own" ELSE "act",
                                    ![c].reach = reach]
    /\ NoChange /\ NoTelemetry /\ UNCHANGED <<grant, size, page>>

(* A file out of reach is answered like one that does not exist.           *)
owned_file_in_scope(c, f) ==
    /\ call[c].pc = "own"
    /\ IF get_file(f) /\ allows(c, place[f])
       THEN call' = [call EXCEPT ![c].pc = "act", ![c].files = {f}]
       ELSE classify(c, "ERROR", {}, {})
    /\ NoChange /\ NoTelemetry /\ UNCHANGED <<grant, size, page>>

ToolActs(c) ==
    /\ call[c].pc = "act"
    /\ tool_body(c)
    /\ NoTelemetry /\ UNCHANGED <<grant, size>>

record_invocation(c) ==
    /\ call[c].pc = "record"
    /\ call' = [call EXCEPT ![c] = IdleCall]
    /\ enqueue("invocation")
    /\ NoChange /\ UNCHANGED <<grant, size, page, now, limiterVars, reader>>

(* Something has been moved under the calls that are under way.            *)
Noticed == call' = [c \in Calls |-> [call[c] EXCEPT
              !.stale = @ \/ (call[c].pc # "idle" /\ <<place, parent>>' # <<place, parent>>)]]

(* By the owner or another agent; a deleted folder leaves its grant        *)
(* without one.                                                            *)
Disturbed ==
    /\ Noticed
    /\ grant' = IF grant.folder # Root /\ parent'[grant.folder] = Gone
                THEN [grant EXCEPT !.folder = Root] ELSE grant
    /\ UNCHANGED <<size, page>>

(* The whole drive, a folder of the owner's, or a new one whose name no    *)
(* folder at the root has.                                                 *)
resolve_consent_folder(p) ==
    \/ FolderThere(p) /\ NoChange
    \/ /\ p \in Folders /\ parent[p] = Fresh
       /\ \A e \in list_by_parent(Root) : Name[e] # Name[p]
       /\ create_folder(p, Root)

(* The owner consents again, with another binding.                         *)
Rebind ==
    /\ \E p \in Places :
          /\ resolve_consent_folder(p)
          /\ grant' = [grant EXCEPT !.confined = (p # Root), !.folder = p]
    /\ grant' # grant
    /\ Noticed /\ NoTelemetry /\ UNCHANGED <<size, page>>

----------------------------------------------------------------------------
(* Properties                                                              *)

(* What a call of a confined grant looks up, lists, changes or creates is  *)
(* in the folder it is confined to or below, unless something was moved    *)
(* under the call; a call bound to no folder any more touches nothing      *)
(* (_resolve_folder, _owned_file_in_scope, _FolderResolution.allows).      *)
InFolder ==
    \A c \in Calls :
        LET at == call[c]
            tree == IF at.bound = Root THEN {} ELSE resolve_folder_scope(at.bound)
        IN at.confined /\ ~at.stale /\ at.pc \in {"act", "record"} =>
              /\ \A f \in at.files : place[f] \in tree \cup {Gone}
              /\ at.dest \subseteq tree

(* What the hints and the scopes of a tool promise is kept when it acts: a *)
(* read-only tool changes nothing, one that is not destructive neither     *)
(* removes nor moves anything and stops no run, an agent without a scope   *)
(* to change things changes none, and neither does a call that fails       *)
(* (ToolAnnotations in register_tools).                                    *)
HintsHonest ==
    [][\A c \in Calls : call[c].pc = "act" /\ call'[c].pc = "record" =>
          LET hints == Registered(call[c].tool)
          IN /\ (\/ hints.read_only \/ call'[c].outcome # "SUCCESS"
                 \/ grant.scopes \subseteq {READ, WS_READ}) => UNCHANGED driveVars
             /\ ~hints.destructive =>
                   /\ \A f \in Files : get_file(f) => place'[f] = place[f]
                   /\ \A d \in Folders : get_folder(d) => parent'[d] = parent[d]
                   /\ \A e \in Executions : run[e] = "active" => run'[e] = "active"
                   /\ \A w \in Workspaces : Usable(w) => ws'[w] = ws[w]]_<<driveVars, mcpVars>>

(* The file as the owner's browser downloads it.                           *)
stream_file(f) == iter_decrypted_object(StoredObject(f))

(* An agent that follows the offsets it is given to the end has the whole  *)
(* file, whatever sizes it asks for and whether the recorded size says     *)
(* more or less than the file has, as long as the file is no larger than   *)
(* the limit, and is never sent past the end (download_file).              *)
PagesWhole ==
    \A f \in Files :
        /\ page[f].status # "past"
        /\ page[f].status = "end" => Len(page[f].got) = size[f].actual

(* What the agent is given, page by page, are the bytes that the browser   *)
(* downloads, across the chunks a file is sealed in and wherever the read  *)
(* of its ciphertext is cut; a read fails only for a file whose key is     *)
(* gone, and then the browser's fails too (DecryptingObjectReader,         *)
(* decrypt_prefix, iter_decrypted_object).                                 *)
PagesTrue ==
    \A f \in Files :
        /\ page[f].got # <<>> => \E whole \in stream_file(f) : IsPrefix(page[f].got, whole)
        /\ page[f].status = "failed" => stream_file(f) = {}
=============================================================================
