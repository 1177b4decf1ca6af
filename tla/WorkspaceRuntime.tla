--------------------------- MODULE WorkspaceRuntime ---------------------------
(***************************************************************************)
(* The durable workspace and its disposable runtime.                       *)
(*                                                                         *)
(* One workspace: its row, the single row of its runtime, the container    *)
(* and the volume the provider keeps for it, and its environment           *)
(* snapshots.  WorkspaceService is used by API requests and by workspace   *)
(* workers alike, so both are callers.  Every action is what a caller does *)
(* between two awaits; a caller keeps the entities it has loaded, and      *)
(* every save writes the whole row from such a copy.                       *)
(***************************************************************************)
EXTENDS Naturals, Sequences, FiniteSets

CONSTANTS
    Requests,      \* API requests that can be in progress at a time
    Workers,       \* workspace workers
    Configs,       \* runtime configurations, by fingerprint
    Retention,     \* snapshot_retention
    MaxBoxes,      \* bound on the containers ever created
    MaxRevs,       \* bound on the snapshots ever asked for
    MaxOps,        \* bound on the requests that change something
    MaxFaults      \* bound on provider errors, timeouts and crashes

ASSUME RuntimeAssumption ==
    /\ IsFiniteSet(Requests) /\ Requests # {} /\ Requests \cap Workers = {}
    /\ Retention \in Nat \ {0}
    /\ MaxBoxes \in Nat \ {0} /\ MaxRevs \in Nat /\ MaxOps \in Nat /\ MaxFaults \in Nat

VARIABLES
    ws,       \* the workspace row
    rt,       \* the runtime row
    box,      \* the container with the workspace's name
    made,     \* number of containers created so far
    volume,   \* whether the workspace's volume exists
    revs,     \* the snapshots, oldest first: status, fingerprint, and the
              \* configuration of the container that was committed
    pc,       \* what each caller is doing, with the copies it holds
    ops,      \* number of requests so far
    faults    \* number of faults so far

Callers == Requests \cup Workers
Store == <<ws, rt, box, made, volume, revs>>
runtimeVars == <<ws, rt, box, made, volume, revs, pc, ops, faults>>

NoConfig == "none"
NoRuntime == [state |-> "NONE", ref |-> 0, cfg |-> NoConfig, rev |-> 0]
NoBox == [id |-> 0, up |-> FALSE, cfg |-> NoConfig, rev |-> 0]
Idle == [at |-> "idle", op |-> "none", arg |-> 0, w |-> [state |-> "NONE", cfg |-> NoConfig], r |-> NoRuntime]

WorkspaceStates == {"NONE", "ACTIVE", "ARCHIVED", "DELETING", "GONE"}
RuntimeStates == {"STOPPED", "STARTING", "RUNNING", "STOPPING", "FAILED"}
RevisionStates == {"PENDING", "BUILDING", "READY", "FAILED", "DELETED"}

(***************************************************************************)
(* The transition tables of the entities.                                  *)
(***************************************************************************)
CanMoveRuntime(from, to) ==
    to \in CASE from = "STOPPED"  -> {"STARTING"}
             [] from = "STARTING" -> {"RUNNING", "STOPPING", "FAILED"}
             [] from = "RUNNING"  -> {"STOPPING", "FAILED"}
             [] from = "STOPPING" -> {"STOPPED", "FAILED"}
             [] from = "FAILED"   -> {"STARTING", "STOPPED"}

CanMoveWorkspace(from, to) ==
    to \in CASE from = "ACTIVE"   -> {"ARCHIVED", "DELETING"}
             [] from = "ARCHIVED" -> {"ACTIVE", "DELETING"}
             [] from = "DELETING" -> {"ARCHIVED"}

BusyRuntime == {"STARTING", "RUNNING", "STOPPING"}

(* The transitions of a runtime, each checked against the table.           *)
BeginStart(r) == [r EXCEPT !.state = "STARTING"]
MarkRunning(r, cfg) == [r EXCEPT !.state = "RUNNING", !.cfg = cfg]
BeginStop(r) == [r EXCEPT !.state = "STOPPING"]
MarkStopped(r) == [r EXCEPT !.state = "STOPPED"]
MarkFailed(r) == [r EXCEPT !.state = "FAILED"]

(* What the workspace accepts executions, starts and changes in.           *)
Usable == ws.state = "ACTIVE"

(***************************************************************************)
(* The repositories: an UPDATE of a row that is gone changes nothing.      *)
(***************************************************************************)
HasWorkspace == ws.state \notin {"NONE", "GONE"}
SaveWorkspace(copy) == ws' = IF HasWorkspace THEN copy ELSE ws
InsertRuntime == IF rt.state = "NONE" THEN [NoRuntime EXCEPT !.state = "STOPPED"] ELSE rt
SaveRuntime(copy) == rt' = IF rt.state = "NONE" THEN rt ELSE copy
SaveRevision(v, state) ==
    revs' = IF revs[v].st = "DELETED" THEN revs ELSE [revs EXCEPT ![v].st = state]

(* find_reusable_revision: the newest READY snapshot with the fingerprint  *)
(* of the configuration, 0 if there is none.                               *)
Reusable(cfg) ==
    LET ready == {v \in DOMAIN revs : revs[v].st = "READY" /\ revs[v].cfg = cfg}
    IN  IF ready = {} THEN 0 ELSE CHOOSE v \in ready : \A u \in ready : u <= v

(* What is installed in a container: the environment of the snapshot it    *)
(* was created from, or the base image of its configuration.               *)
Environment(b) == IF b.rev = 0 THEN b.cfg ELSE revs[b.rev].img

(***************************************************************************)
(* Control of a caller.                                                    *)
(***************************************************************************)
Goto(p, step) == pc' = [pc EXCEPT ![p].at = step]
GotoWith(p, step, w, r) == pc' = [pc EXCEPT ![p].at = step, ![p].w = w, ![p].r = r]

(* The end of a call: a request is answered, a worker goes on with its     *)
(* unit of work or leaves it with an exception.                            *)
Return(p, r) == pc' = [pc EXCEPT ![p] = IF p \in Workers THEN [@ EXCEPT !.at = "started", !.r = r] ELSE Idle]
RaiseError(p) == pc' = [pc EXCEPT ![p] = IF p \in Workers THEN [@ EXCEPT !.at = "raised"] ELSE Idle]

Fault == faults < MaxFaults /\ faults' = faults + 1
NoFault == UNCHANGED faults

(* A request of the API begins: which endpoint, with which argument.       *)
Begin(p, op, arg, step) ==
    /\ p \in Requests /\ pc[p].at = "idle" /\ ops < MaxOps
    /\ ops' = ops + 1
    /\ pc' = [pc EXCEPT ![p] = [Idle EXCEPT !.at = step, !.op = op, !.arg = arg]]
    /\ UNCHANGED <<Store, faults>>

(* No workspace yet, or one whose runtime was started and serves.          *)
Init ==
    /\ \/ /\ ws = [state |-> "NONE", cfg |-> NoConfig]
          /\ rt = NoRuntime /\ box = NoBox /\ made = 0 /\ volume = FALSE
       \/ \E cfg \in Configs :
          /\ ws = [state |-> "ACTIVE", cfg |-> cfg]
          /\ rt = [state |-> "RUNNING", ref |-> 1, cfg |-> cfg, rev |-> 0]
          /\ box = [id |-> 1, up |-> TRUE, cfg |-> cfg, rev |-> 0]
          /\ made = 1 /\ volume = TRUE
    /\ revs = <<>>
    /\ pc = [p \in Callers |-> Idle]
    /\ ops = 0 /\ faults = 0

(***************************************************************************)
(* The provider: one named container and one named volume.  A handle that  *)
(* is not the container's finds nothing.                                   *)
(***************************************************************************)
Found(ref) == ref # 0 /\ box.id = ref
ResumeContainer(ref) == box' = IF Found(ref) THEN [box EXCEPT !.up = TRUE] ELSE box
StopContainer(ref) == box' = IF Found(ref) THEN [box EXCEPT !.up = FALSE] ELSE box
DeleteContainer(ref) == box' = IF Found(ref) THEN NoBox ELSE box
DeleteVolume == volume' = FALSE
EnsureVolume == volume' = TRUE

(* create_runtime: whatever has the workspace's name is removed first.     *)
CreateContainer(cfg, rev) ==
    /\ made < MaxBoxes
    /\ made' = made + 1
    /\ box' = [id |-> made + 1, up |-> TRUE, cfg |-> cfg, rev |-> rev]
    /\ EnsureVolume

(***************************************************************************)
(* Creating, reconfiguring and retiring the workspace.                     *)
(***************************************************************************)
InsertWorkspace(cfg) == ws' = [state |-> "ACTIVE", cfg |-> cfg]

CreateWorkspace(cfg) ==
    /\ ws.state = "NONE"
    /\ InsertWorkspace(cfg)
    /\ UNCHANGED <<rt, box, made, volume, revs, pc, ops, faults>>

Reconfigured(copy, cfg) == [copy EXCEPT !.cfg = cfg]

UpdateEndpoint(p, cfg) == Begin(p, "update", cfg, "u_read")

(* update_workspace: the workspace must be usable, and a runtime that is   *)
(* busy keeps its configuration.                                           *)
UpdateRead(p) ==
    /\ pc[p].at = "u_read"
    /\ IF Usable /\ (pc[p].arg = ws.cfg \/ rt.state \notin BusyRuntime)
         THEN GotoWith(p, "w_save", Reconfigured(ws, pc[p].arg), NoRuntime)
         ELSE RaiseError(p)
    /\ UNCHANGED <<Store, ops, faults>>

ArchiveEndpoint(p) == Begin(p, "archive", 0, "a_read")
ReactivateEndpoint(p) == Begin(p, "reactivate", 0, "a_read")

(* archive_workspace and reactivate_workspace.                             *)
RetireRead(p) ==
    /\ pc[p].at = "a_read"
    /\ LET target == IF pc[p].op = "archive" THEN "ARCHIVED" ELSE "ACTIVE" IN
         IF HasWorkspace /\ CanMoveWorkspace(ws.state, target)
           THEN GotoWith(p, "w_save", [ws EXCEPT !.state = target], NoRuntime)
           ELSE RaiseError(p)
    /\ UNCHANGED <<Store, ops, faults>>

(* The last write of a request, from the copy it holds.                    *)
WorkspaceSave(p) ==
    /\ pc[p].at = "w_save"
    /\ SaveWorkspace(pc[p].w)
    /\ Return(p, pc[p].r)
    /\ UNCHANGED <<rt, box, made, volume, revs, ops, faults>>

(***************************************************************************)
(* delete_workspace: mark the row, tear down the container and the volume, *)
(* and remove the rows last, each table in a transaction of its own.       *)
(***************************************************************************)
DeleteEndpoint(p) == Begin(p, "delete", 0, "d_read")

DeleteRead(p) ==
    /\ pc[p].at = "d_read"
    /\ IF HasWorkspace
         THEN GotoWith(p, "d_mark", [ws EXCEPT !.state = "DELETING"], NoRuntime)
         ELSE RaiseError(p)
    /\ UNCHANGED <<Store, ops, faults>>

DeleteMark(p) ==
    /\ pc[p].at = "d_mark"
    /\ SaveWorkspace(pc[p].w)
    /\ Goto(p, "d_runtime")
    /\ UNCHANGED <<rt, box, made, volume, revs, ops, faults>>

(* get_runtime_for_workspace: what is torn down is what the row names now. *)
DeleteLookup(p) ==
    /\ pc[p].at = "d_runtime"
    /\ GotoWith(p, IF rt.ref = 0 THEN "d_volume" ELSE "d_box", pc[p].w, rt)
    /\ UNCHANGED <<Store, ops, faults>>

(* A container the provider has lost is gone already; any other error of   *)
(* the provider ends the request.                                          *)
DeleteBox(p) ==
    /\ pc[p].at = "d_box"
    /\ \/ DeleteContainer(pc[p].r.ref) /\ NoFault /\ Goto(p, "d_volume")
       \/ UNCHANGED box /\ Fault /\ RaiseError(p)
    /\ UNCHANGED <<ws, rt, made, volume, revs, ops>>

(* A provider error on the volume is ignored.                              *)
DeleteState(p) ==
    /\ pc[p].at = "d_volume"
    /\ \/ DeleteVolume /\ NoFault
       \/ UNCHANGED volume /\ Fault
    /\ Goto(p, "d_revs")
    /\ UNCHANGED <<ws, rt, box, made, revs, ops>>

DeleteRevisions == revs' = [v \in DOMAIN revs |-> [revs[v] EXCEPT !.st = "DELETED"]]
DeleteRuntimeRow == rt' = NoRuntime
DeleteWorkspaceRow == ws' = IF HasWorkspace THEN [ws EXCEPT !.state = "GONE"] ELSE ws

DeleteRevisionRows(p) ==
    /\ pc[p].at = "d_revs"
    /\ DeleteRevisions
    /\ Goto(p, "d_execs")
    /\ UNCHANGED <<ws, rt, box, made, volume, ops, faults>>

DeleteSlot(p) ==
    /\ pc[p].at = "d_slot"
    /\ DeleteRuntimeRow
    /\ Goto(p, "d_row")
    /\ UNCHANGED <<ws, box, made, volume, revs, ops, faults>>

(* The workspace row; the foreign keys cascade to whatever was inserted    *)
(* since its tables were emptied.                                          *)
DeleteRows(p) ==
    /\ pc[p].at = "d_row"
    /\ DeleteWorkspaceRow /\ DeleteRuntimeRow /\ DeleteRevisions
    /\ Return(p, NoRuntime)
    /\ UNCHANGED <<box, made, volume, ops, faults>>

(***************************************************************************)
(* start_runtime.                                                          *)
(***************************************************************************)
StartEndpoint(p) == Begin(p, "start", 0, "s_read")

StartRead(p) ==
    /\ pc[p].at = "s_read"
    /\ IF Usable THEN GotoWith(p, "s_slot", ws, pc[p].r) ELSE RaiseError(p)
    /\ UNCHANGED <<Store, ops, faults>>

(* get_or_create_runtime, then the idempotency check: a busy runtime is    *)
(* returned as it is.                                                      *)
StartSlot(p) ==
    /\ pc[p].at = "s_slot"
    /\ LET row == InsertRuntime
       IN  IF ~HasWorkspace THEN RaiseError(p) /\ UNCHANGED rt
           ELSE /\ rt' = row
                /\ IF row.state \in BusyRuntime
                     THEN Return(p, row)
                     ELSE GotoWith(p, "s_save", pc[p].w, BeginStart(row))
    /\ UNCHANGED <<ws, box, made, volume, revs, ops, faults>>

StartSave(p) ==
    /\ pc[p].at = "s_save"
    /\ SaveRuntime(pc[p].r)
    /\ Goto(p, "s_reuse")
    /\ UNCHANGED <<ws, box, made, volume, revs, ops, faults>>

(* Mutant of SameBuild: any container the row names is restarted.          *)
AnyBuild(p) == pc[p].r.ref # 0

(* The container of the copy may be restarted only if it was built for     *)
(* the configuration of the workspace.                                     *)
SameBuild(p) == pc[p].r.ref # 0 /\ pc[p].r.cfg = pc[p].w.cfg

(* _provider_start, first half: discard a container of another             *)
(* configuration; resume or adopt one of the same, unless it is lost or    *)
(* does not come up again, when the start goes on to create one.           *)
StartReuse(p) ==
    /\ pc[p].at = "s_reuse"
    /\ \/ ~SameBuild(p) /\ DeleteContainer(pc[p].r.ref) /\ Goto(p, "s_create")
       \/ SameBuild(p) /\ Found(pc[p].r.ref) /\ ResumeContainer(pc[p].r.ref) /\ Goto(p, "s_run")
       \/ SameBuild(p) /\ ~(Found(pc[p].r.ref) /\ box.up) /\ UNCHANGED box /\ Goto(p, "s_create")
    /\ UNCHANGED <<ws, rt, made, volume, revs, ops, faults>>

(* _provider_start, second half.                                           *)
StartCreate(p) ==
    /\ pc[p].at = "s_create"
    /\ LET cfg == pc[p].w.cfg IN
         /\ CreateContainer(cfg, Reusable(cfg))
         /\ GotoWith(p, "s_run", pc[p].w, [pc[p].r EXCEPT !.ref = made + 1, !.rev = Reusable(cfg)])
    /\ UNCHANGED <<ws, rt, revs, ops, faults>>

(* A provider call fails: the runtime is recorded as FAILED and the error  *)
(* goes to the caller.                                                     *)
StartError(p) ==
    /\ pc[p].at = "s_create" \/ (pc[p].at = "s_reuse" /\ SameBuild(p))
    /\ Fault
    /\ SaveRuntime(MarkFailed(pc[p].r))
    /\ RaiseError(p)
    /\ UNCHANGED <<ws, box, made, volume, revs, ops>>

(* A provider call exceeds its wait_for: TimeoutError is no provider       *)
(* error, and nobody records anything.  The thread of the call may still   *)
(* finish.                                                                 *)
StartTimeout(p) ==
    /\ \/ /\ pc[p].at = "s_create"
          /\ CreateContainer(pc[p].w.cfg, Reusable(pc[p].w.cfg)) \/ UNCHANGED <<box, made, volume>>
       \/ /\ pc[p].at = "s_reuse" /\ SameBuild(p) /\ Found(pc[p].r.ref) /\ ~box.up
          /\ ResumeContainer(pc[p].r.ref) \/ UNCHANGED box
          /\ UNCHANGED <<made, volume>>
    /\ Fault
    /\ RaiseError(p)
    /\ UNCHANGED <<ws, rt, revs, ops>>

(* mark_running, with the fingerprint of the configuration in the          *)
(* metadata; then the workspace is touched.                                *)
StartRunning(p) ==
    /\ pc[p].at = "s_run"
    /\ LET row == MarkRunning(pc[p].r, pc[p].w.cfg)
       IN  SaveRuntime(row) /\ GotoWith(p, "w_save", pc[p].w, row)
    /\ UNCHANGED <<ws, box, made, volume, revs, ops, faults>>

(***************************************************************************)
(* stop_runtime and restart_runtime.  Active says whether executions of    *)
(* the workspace are queued or running.                                    *)
(***************************************************************************)
StopEndpoint(p, force) == Begin(p, "stop", force, "p_read")
RestartEndpoint(p, force) == Begin(p, "restart", force, "p_read")

StopRead(p, active) ==
    /\ pc[p].at = "p_read"
    /\ IF pc[p].op = "restart" /\ rt.state \in {"NONE", "STOPPED"}
         THEN Goto(p, "s_read")
         ELSE IF /\ HasWorkspace /\ rt.state \notin {"NONE", "STOPPED"}
                 /\ pc[p].arg = 1 \/ ~active
                 /\ CanMoveRuntime(rt.state, "STOPPING")
                THEN GotoWith(p, "p_save", ws, BeginStop(rt))
                ELSE RaiseError(p)
    /\ UNCHANGED <<Store, ops, faults>>

StopSave(p) ==
    /\ pc[p].at = "p_save"
    /\ SaveRuntime(pc[p].r)
    /\ Goto(p, "p_stop")
    /\ UNCHANGED <<ws, box, made, volume, revs, ops, faults>>

(* The provider stops the container, or has lost it already.               *)
StopProvider(p) ==
    /\ pc[p].at = "p_stop"
    /\ StopContainer(pc[p].r.ref)
    /\ Goto(p, "p_done")
    /\ UNCHANGED <<ws, rt, made, volume, revs, ops, faults>>

StopError(p) ==
    /\ pc[p].at = "p_stop" /\ pc[p].r.ref # 0
    /\ Fault
    /\ SaveRuntime(MarkFailed(pc[p].r))
    /\ RaiseError(p)
    /\ UNCHANGED <<ws, box, made, volume, revs, ops>>

(* The wait_for around the provider's stop expires: TimeoutError is not a  *)
(* RuntimeProviderError and nothing is recorded.                           *)
StopTimeout(p) ==
    /\ pc[p].at = "p_stop" /\ pc[p].r.ref # 0
    /\ Fault
    /\ RaiseError(p)
    /\ UNCHANGED <<ws, rt, box, made, volume, revs, ops>>

StopDone(p) ==
    /\ pc[p].at = "p_done"
    /\ LET row == MarkStopped(pc[p].r) IN
         /\ SaveRuntime(row)
         /\ GotoWith(p, "p_touch", pc[p].w, row)
    /\ UNCHANGED <<ws, box, made, volume, revs, ops, faults>>

StopTouch(p) ==
    /\ pc[p].at = "p_touch"
    /\ SaveWorkspace(pc[p].w)
    /\ IF pc[p].op = "restart" THEN Goto(p, "s_read") ELSE Return(p, pc[p].r)
    /\ UNCHANGED <<rt, box, made, volume, revs, ops, faults>>

(* The process that serves a request dies.                                 *)
RequestCrash(p) ==
    /\ p \in Requests /\ pc[p].at # "idle"
    /\ Fault
    /\ pc' = [pc EXCEPT ![p] = Idle]
    /\ UNCHANGED <<Store, ops>>

StartSteps(p) ==
    \/ StartRead(p) \/ StartSlot(p) \/ StartSave(p) \/ StartReuse(p) \/ StartCreate(p)
    \/ StartRunning(p) \/ WorkspaceSave(p)
StopSteps(p, active) == StopRead(p, active) \/ StopSave(p) \/ StopProvider(p) \/ StopDone(p) \/ StopTouch(p)
LifecycleSteps(p) ==
    \/ UpdateRead(p) \/ RetireRead(p) \/ DeleteRead(p) \/ DeleteMark(p) \/ DeleteLookup(p)
    \/ DeleteBox(p) \/ DeleteState(p) \/ DeleteSlot(p)
ProviderFaults(p) == StartError(p) \/ StartTimeout(p) \/ StopError(p) \/ StopTimeout(p)

Endpoints(p) ==
    \/ \E cfg \in Configs : UpdateEndpoint(p, cfg)
    \/ ArchiveEndpoint(p) \/ ReactivateEndpoint(p) \/ DeleteEndpoint(p) \/ StartEndpoint(p)
    \/ \E force \in {0, 1} : StopEndpoint(p, force) \/ RestartEndpoint(p, force)

===============================================================================
