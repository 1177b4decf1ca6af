-------------------------- MODULE WorkspaceExecution --------------------------
(***************************************************************************)
(* Executions, environment snapshots and files of a workspace: the API's   *)
(* submit, cancel, save and file requests, the work stream, and the        *)
(* workspace worker that handles its messages on the runtime of            *)
(* WorkspaceRuntime.  The stream is abstracted to what JobStream shows of  *)
(* its kind: undelivered messages in order, and messages that a dead       *)
(* worker left pending until a sweep queues them again.                    *)
(***************************************************************************)
EXTENDS WorkspaceRuntime

CONSTANTS
    Keys,          \* what a submit sends as idempotency key
    NoKey,         \* a submit without a key
    Outcomes,      \* how a program can end by itself
    MaxExecs,      \* bound on the executions ever submitted
    MaxActive,     \* max_active_executions
    Quota          \* disk_quota_bytes, in files of one size

ASSUME ExecutionAssumption ==
    /\ Outcomes \subseteq {"SUCCEEDED", "FAILED", "TIMED_OUT"} /\ Outcomes # {}
    /\ MaxExecs \in Nat /\ MaxActive \in Nat \ {0} /\ Quota \in Nat

VARIABLES
    exs,      \* the executions: status, idempotency key and program starts
    queue,    \* messages not yet delivered
    stale,    \* messages of workers that died, still pending
    dead,     \* the dead-letter stream
    task,     \* the execution or snapshot a caller works on, and its copy
    disk,     \* files on the volume
    blind     \* files that no quota check has seen

workVars == <<exs, queue, stale, dead, task, disk, blind>>
vars == <<ws, rt, box, made, volume, revs, pc, ops, faults, exs, queue, stale, dead, task, disk, blind>>

NoTask == [kind |-> "none", id |-> 0, st |-> "none"]
Terminal == {"SUCCEEDED", "FAILED", "TIMED_OUT", "CANCELLED"}
Active == {"QUEUED", "RUNNING"}
ActiveExecutions == {e \in DOMAIN exs : exs[e].st \in Active}
WithKey(k) == {e \in DOMAIN exs : k # NoKey /\ exs[e].key = k /\ exs[e].st # "DELETED"}

Serving == rt.state = "RUNNING"

(* update_execution: the whole row, whatever its status has become.        *)
SaveExecution(e, state) ==
    exs' = IF exs[e].st = "DELETED" THEN exs ELSE [exs EXCEPT ![e].st = state]

DeleteExecutions == exs' = [e \in DOMAIN exs |-> [exs[e] EXCEPT !.st = "DELETED"]]
InsertExecution(key) == exs' = Append(exs, [st |-> "QUEUED", key |-> key, ran |-> 0])
InsertRevision(cfg) == revs' = Append(revs, [st |-> "PENDING", cfg |-> cfg, img |-> NoConfig])

(* measure_workspace_usage: a container that is not up measures as empty.  *)
Measured(ref) == IF Found(ref) /\ box.up THEN disk ELSE 0

PutFile(ref) == disk' = IF Found(ref) THEN disk + 1 ELSE disk
RemoveFile(ref) == disk' = IF Found(ref) /\ box.up /\ disk > 0 THEN disk - 1 ELSE disk

(* create_snapshot: the container as it is, running or not.                *)
CommitContainer(v) == revs' = [revs EXCEPT ![v].img = Environment(box)]

Message(p) == <<task[p].kind, task[p].id>>
Publish(m) == queue' = Append(queue, m)
WorkGoto(p, step, state) == Goto(p, step) /\ task' = [task EXCEPT ![p].st = state]

(***************************************************************************)
(* submit.                                                                 *)
(***************************************************************************)
SubmitEndpoint(p, key) == Begin(p, "submit", key, "x_read") /\ UNCHANGED workVars

SubmitRead(p) ==
    /\ pc[p].at = "x_read"
    /\ IF Usable THEN GotoWith(p, "x_check", ws, NoRuntime) ELSE RaiseError(p)
    /\ UNCHANGED <<Store, ops, faults, workVars>>

(* The request is not one the service accepts: mode, source, time limit.   *)
SubmitInvalid(p) ==
    /\ pc[p].at = "x_check"
    /\ RaiseError(p)
    /\ UNCHANGED <<Store, ops, faults, workVars>>

(* ensure_capacity, the lookup of the key and the count of active runs.    *)
EnsureCapacity == rt.ref = 0 \/ Measured(rt.ref) <= Quota

(* Mutant of SubmitCheck: the message is sent before the row is inserted.  *)
SubmitCheckEarly(p) ==
    /\ pc[p].at = "x_check"
    /\ IF ~EnsureCapacity \/ WithKey(pc[p].arg) # {} \/ Cardinality(ActiveExecutions) >= MaxActive
         THEN RaiseError(p) /\ UNCHANGED queue
         ELSE Publish(<<"exec", Len(exs) + 1>>) /\ Goto(p, "x_insert")
    /\ UNCHANGED <<Store, ops, faults, exs, stale, dead, task, disk, blind>>

SubmitCheck(p) ==
    /\ pc[p].at = "x_check"
    /\ IF ~EnsureCapacity THEN RaiseError(p)
       ELSE IF WithKey(pc[p].arg) # {} THEN Return(p, NoRuntime)
       ELSE IF Cardinality(ActiveExecutions) >= MaxActive THEN RaiseError(p)
       ELSE Goto(p, "x_insert")
    /\ UNCHANGED <<Store, ops, faults, workVars>>

(* create_execution: the unique index on the key and the foreign key to    *)
(* the workspace decide.                                                   *)
SubmitInsert(p) ==
    /\ pc[p].at = "x_insert"
    /\ IF ~HasWorkspace \/ WithKey(pc[p].arg) # {}
         THEN RaiseError(p) /\ UNCHANGED <<exs, task>>
         ELSE /\ Len(exs) < MaxExecs
              /\ InsertExecution(pc[p].arg)
              /\ task' = [task EXCEPT ![p] = [kind |-> "exec", id |-> Len(exs) + 1, st |-> "QUEUED"]]
              /\ Goto(p, "x_touch")
    /\ UNCHANGED <<Store, ops, faults, queue, stale, disk, blind, dead>>

(* The counter and the time of the last activity, with the rest of the     *)
(* workspace as it was read at the start of the request.                   *)
SubmitTouch(p) ==
    /\ pc[p].at = "x_touch"
    /\ SaveWorkspace(pc[p].w)
    /\ Goto(p, "x_publish")
    /\ UNCHANGED <<rt, box, made, volume, revs, ops, faults, workVars>>

SubmitPublish(p) ==
    /\ pc[p].at = "x_publish"
    /\ \/ Publish(Message(p)) /\ NoFault /\ Return(p, NoRuntime)
       \/ UNCHANGED queue /\ Fault /\ Goto(p, "x_fail")
    /\ UNCHANGED <<Store, ops, exs, stale, task, disk, blind, dead>>

SubmitFail(p) ==
    /\ pc[p].at = "x_fail"
    /\ SaveExecution(task[p].id, "FAILED")
    /\ RaiseError(p)
    /\ UNCHANGED <<Store, ops, faults, queue, stale, task, disk, blind, dead>>

(***************************************************************************)
(* cancel.                                                                 *)
(***************************************************************************)
CancelEndpoint(p, e) == Begin(p, "cancel", e, "c_read") /\ UNCHANGED workVars

CancelRead(p) ==
    /\ pc[p].at = "c_read"
    /\ IF exs[pc[p].arg].st \in Active THEN Goto(p, "c_save") ELSE Return(p, NoRuntime)
    /\ UNCHANGED <<Store, ops, faults, workVars>>

CancelSave(p) ==
    /\ pc[p].at = "c_save"
    /\ SaveExecution(pc[p].arg, "CANCELLED")
    /\ Return(p, NoRuntime)
    /\ UNCHANGED <<Store, ops, faults, queue, stale, task, disk, blind, dead>>

(***************************************************************************)
(* save_environment.                                                       *)
(***************************************************************************)
SaveEnvironmentEndpoint(p) == Begin(p, "save", 0, "e_read") /\ UNCHANGED workVars

SaveEnvironmentRead(p) ==
    /\ pc[p].at = "e_read"
    /\ IF Usable /\ Serving
         THEN GotoWith(p, "e_create", ws, NoRuntime)
         ELSE RaiseError(p)
    /\ UNCHANGED <<Store, ops, faults, workVars>>

SaveEnvironmentCreate(p) ==
    /\ pc[p].at = "e_create"
    /\ IF ~HasWorkspace THEN RaiseError(p) /\ UNCHANGED <<revs, task>>
       ELSE /\ Len(revs) < MaxRevs
            /\ InsertRevision(pc[p].w.cfg)
            /\ task' = [task EXCEPT ![p] = [kind |-> "snap", id |-> Len(revs) + 1, st |-> "PENDING"]]
            /\ Goto(p, "e_publish")
    /\ UNCHANGED <<ws, rt, box, made, volume, ops, faults, exs, queue, stale, disk, blind, dead>>

SaveEnvironmentPublish(p) ==
    /\ pc[p].at = "e_publish"
    /\ \/ Publish(Message(p)) /\ NoFault /\ Return(p, NoRuntime)
       \/ UNCHANGED queue /\ Fault /\ Goto(p, "e_fail")
    /\ UNCHANGED <<Store, ops, exs, stale, task, disk, blind, dead>>

SaveEnvironmentFail(p) ==
    /\ pc[p].at = "e_fail"
    /\ SaveRevision(task[p].id, "FAILED")
    /\ RaiseError(p)
    /\ UNCHANGED <<ws, rt, box, made, volume, ops, faults, workVars>>

(***************************************************************************)
(* Files of the workspace.                                                 *)
(***************************************************************************)
WriteFileEndpoint(p) == Begin(p, "write", 0, "f_check") /\ UNCHANGED workVars
DeleteFileEndpoint(p) == Begin(p, "remove", 0, "f_delete") /\ UNCHANGED workVars

(* Mutant of WithinBudget: the incoming bytes are not counted.             *)
WithinBudgetBefore(ref) == Measured(ref) <= Quota

(* _check_disk_budget of the incoming file.                                *)
WithinBudget(ref) == Measured(ref) + 1 <= Quota

WriteFileCheck(p) ==
    /\ pc[p].at = "f_check"
    /\ IF HasWorkspace /\ rt.ref # 0 /\ WithinBudget(rt.ref)
         THEN /\ GotoWith(p, "f_write", ws, rt)
              /\ blind' = IF Found(rt.ref) /\ box.up THEN blind ELSE blind + 1
         ELSE RaiseError(p) /\ UNCHANGED blind
    /\ UNCHANGED <<Store, ops, faults, exs, queue, stale, task, disk, dead>>

WriteFile(p) ==
    /\ pc[p].at = "f_write"
    /\ PutFile(pc[p].r.ref)
    /\ Return(p, NoRuntime)
    /\ UNCHANGED <<Store, ops, faults, exs, queue, stale, task, blind, dead>>

DeleteFile(p) ==
    /\ pc[p].at = "f_delete"
    /\ IF HasWorkspace THEN RemoveFile(rt.ref) ELSE UNCHANGED disk
    /\ Return(p, NoRuntime)
    /\ UNCHANGED <<Store, ops, faults, exs, queue, stale, task, blind, dead>>

(***************************************************************************)
(* The worker: one message at a time.                                      *)
(***************************************************************************)
Fetch(w) ==
    /\ w \in Workers /\ pc[w].at = "idle" /\ queue # <<>>
    /\ LET m == Head(queue) IN
         /\ task' = [task EXCEPT ![w] = [kind |-> m[1], id |-> m[2], st |-> "none"]]
         /\ pc' = [pc EXCEPT ![w] = [Idle EXCEPT !.at = IF m[1] = "exec" THEN "h_read" ELSE "v_read"]]
    /\ queue' = Tail(queue)
    /\ UNCHANGED <<Store, ops, faults, exs, stale, disk, blind, dead>>

(* The handler returns and its message is acknowledged.                    *)
Acknowledge(w) ==
    /\ w \in Workers /\ pc[w].at = "ack"
    /\ pc' = [pc EXCEPT ![w] = Idle]
    /\ task' = [task EXCEPT ![w] = NoTask]
    /\ UNCHANGED <<Store, ops, faults, exs, queue, stale, disk, blind, dead>>

(* The handler raises: dead letter and acknowledgement, either of which    *)
(* may fail without stopping the other.  The dead letter only names the    *)
(* message; nothing reads it back.                                         *)
HandlerRaised(w) ==
    /\ w \in Workers /\ pc[w].at = "raised"
    /\ \/ dead' = dead \cup {Message(w)} /\ UNCHANGED stale /\ NoFault
       \/ UNCHANGED <<dead, stale>> /\ Fault
       \/ dead' \in {dead, dead \cup {Message(w)}} /\ stale' = stale \cup {Message(w)} /\ Fault
    /\ pc' = [pc EXCEPT ![w] = Idle]
    /\ task' = [task EXCEPT ![w] = NoTask]
    /\ UNCHANGED <<Store, ops, exs, queue, disk, blind>>

(* handle_execution reads the row and the workspace, then starts the       *)
(* runtime.                                                                *)
ExecutionRead(w) ==
    /\ pc[w].at = "h_read"
    /\ LET state == exs[task[w].id].st IN
         IF state \in Active THEN WorkGoto(w, "h_owner", state) ELSE WorkGoto(w, "ack", state)
    /\ UNCHANGED <<Store, ops, faults, exs, queue, stale, disk, blind, dead>>

(* Without a workspace the execution fails.                                *)
ExecutionOwner(w) ==
    /\ pc[w].at = "h_owner"
    /\ IF HasWorkspace THEN WorkGoto(w, "s_read", task[w].st) ELSE WorkGoto(w, "h_save", "FAILED")
    /\ UNCHANGED <<Store, ops, faults, exs, queue, stale, disk, blind, dead>>

(* Mutant of RuntimeStarted: a runtime that does not serve ends the        *)
(* handler without a word in the row.                                      *)
RuntimeStartedSilent(w) ==
    /\ w \in Workers /\ pc[w].at = "started"
    /\ IF pc[w].r.state = "RUNNING" /\ pc[w].r.ref # 0
         THEN WorkGoto(w, "h_claim", task[w].st)
         ELSE WorkGoto(w, "ack", "FAILED")
    /\ UNCHANGED <<Store, ops, faults, exs, queue, stale, disk, blind, dead>>

RuntimeStarted(w) ==
    /\ w \in Workers /\ pc[w].at = "started"
    /\ IF pc[w].r.state = "RUNNING" /\ pc[w].r.ref # 0
         THEN WorkGoto(w, "h_claim", task[w].st)
         ELSE WorkGoto(w, "h_save", "FAILED")
    /\ UNCHANGED <<Store, ops, faults, exs, queue, stale, disk, blind, dead>>

(* Mutant of Claimable: the status read earlier is trusted.                *)
ClaimableActive(e) == exs[e].st \in Active

(* Mutant of Claimable: any row that is there.                             *)
ClaimableRow(e) == exs[e].st # "DELETED"

(* claim_execution: UPDATE ... WHERE status = 'QUEUED'.                    *)
Claimable(e) == exs[e].st = "QUEUED"

ClaimExecution(w) ==
    /\ pc[w].at = "h_claim"
    /\ LET e == task[w].id IN
         IF Claimable(e)
           THEN exs' = [exs EXCEPT ![e].st = "RUNNING"] /\ WorkGoto(w, "h_run", "RUNNING")
           ELSE UNCHANGED exs /\ WorkGoto(w, "ack", task[w].st)
    /\ UNCHANGED <<Store, ops, faults, queue, stale, disk, blind, dead>>

(* The script of the provider: the program runs under its own time limit.  *)
RunProgram(e) == exs' = [exs EXCEPT ![e].ran = @ + 1]

(* execute of the provider: the program runs in the container, which may   *)
(* be stopped or gone by now.  It may leave a file on the volume.          *)
Execute(w) ==
    /\ pc[w].at = "h_run"
    /\ IF Found(pc[w].r.ref) /\ box.up
         THEN /\ RunProgram(task[w].id)
              /\ \E grows \in {0, 1} : disk' = disk + grows /\ blind' = blind + grows
              /\ \E outcome \in Outcomes : WorkGoto(w, "h_check", outcome)
         ELSE WorkGoto(w, "h_save", "FAILED") /\ UNCHANGED <<exs, disk, blind>>
    /\ UNCHANGED <<Store, ops, faults, queue, stale, dead>>

(* The provider fails: an error is recorded without a second look at the   *)
(* row, an expired wait_for is an exception of the handler.                *)
ExecuteError(w) ==
    /\ pc[w].at = "h_run"
    /\ Fault
    /\ \/ WorkGoto(w, "h_save", "FAILED")
       \/ WorkGoto(w, "raised", task[w].st)
    /\ (Found(pc[w].r.ref) /\ box.up /\ RunProgram(task[w].id)) \/ UNCHANGED exs
    /\ UNCHANGED <<Store, ops, queue, stale, disk, blind, dead>>

(* The row is read again; the artifacts are collected before the write.    *)
ExecutionReread(w) ==
    /\ pc[w].at = "h_check"
    /\ IF exs[task[w].id].st \in Terminal THEN Goto(w, "ack") ELSE Goto(w, "h_save")
    /\ UNCHANGED <<Store, ops, faults, workVars>>

ExecutionWrite(w) ==
    /\ pc[w].at = "h_save"
    /\ SaveExecution(task[w].id, task[w].st)
    /\ Goto(w, "ack")
    /\ UNCHANGED <<Store, ops, faults, queue, stale, task, disk, blind, dead>>

(***************************************************************************)
(* handle_snapshot.                                                        *)
(***************************************************************************)
SnapshotRead(w) ==
    /\ pc[w].at = "v_read"
    /\ LET state == revs[task[w].id].st IN
         IF state \notin {"PENDING", "BUILDING"} THEN Goto(w, "ack")
         ELSE IF ~Serving \/ rt.ref = 0 THEN Goto(w, "v_fail")
         ELSE IF state = "BUILDING" THEN Goto(w, "raised")
         ELSE GotoWith(w, "v_build", pc[w].w, rt)
    /\ UNCHANGED <<Store, ops, faults, workVars>>

SnapshotBuilding(w) ==
    /\ pc[w].at = "v_build"
    /\ SaveRevision(task[w].id, "BUILDING")
    /\ Goto(w, "v_commit")
    /\ UNCHANGED <<ws, rt, box, made, volume, ops, faults, workVars>>

(* create_snapshot of the provider commits the container.                  *)
CreateSnapshot(w) ==
    /\ pc[w].at = "v_commit"
    /\ \/ Found(pc[w].r.ref) /\ NoFault /\ CommitContainer(task[w].id) /\ Goto(w, "v_ready")
       \/ ~Found(pc[w].r.ref) /\ NoFault /\ UNCHANGED revs /\ Goto(w, "v_fail")
       \/ Fault /\ UNCHANGED revs /\ Goto(w, "v_fail")
    /\ UNCHANGED <<ws, rt, box, made, volume, ops, workVars>>

SnapshotReady(w) ==
    /\ pc[w].at = "v_ready"
    /\ SaveRevision(task[w].id, "READY")
    /\ Goto(w, "v_prune")
    /\ UNCHANGED <<ws, rt, box, made, volume, ops, faults, workVars>>

SnapshotFailed(w) ==
    /\ pc[w].at = "v_fail"
    /\ SaveRevision(task[w].id, "FAILED")
    /\ Goto(w, "ack")
    /\ UNCHANGED <<ws, rt, box, made, volume, ops, faults, workVars>>

(* _prune_revisions: only the newest READY rows stay.                      *)
ReadyRevisions == {v \in DOMAIN revs : revs[v].st = "READY"}

(* Mutant of Surplus: one row too many is kept.                            *)
SurplusLate == {v \in ReadyRevisions : Cardinality({u \in ReadyRevisions : u > v}) > Retention}

Surplus == {v \in ReadyRevisions : Cardinality({u \in ReadyRevisions : u > v}) >= Retention}

PruneRevisions(w) ==
    /\ pc[w].at = "v_prune"
    /\ \/ revs' = [v \in DOMAIN revs |-> IF v \in Surplus THEN [revs[v] EXCEPT !.st = "DELETED"] ELSE revs[v]]
          /\ NoFault
       \/ UNCHANGED revs /\ Surplus # {} /\ Fault
    /\ Goto(w, "ack")
    /\ UNCHANGED <<ws, rt, box, made, volume, ops, workVars>>

(***************************************************************************)
(* Crashes and the stale sweep.                                            *)
(***************************************************************************)
WorkerCrash(w) ==
    /\ w \in Workers /\ pc[w].at # "idle"
    /\ Fault
    /\ stale' = stale \cup {Message(w)}
    /\ pc' = [pc EXCEPT ![w] = Idle]
    /\ task' = [task EXCEPT ![w] = NoTask]
    /\ UNCHANGED <<Store, ops, exs, queue, disk, blind, dead>>

(* reclaim_stale: queue again, then acknowledge; the acknowledgement may   *)
(* fail.                                                                   *)
Sweep(w) ==
    /\ w \in Workers /\ pc[w].at = "idle" /\ queue = <<>>
    /\ \E m \in stale :
         /\ Publish(m)
         /\ \/ stale' = stale \ {m} /\ NoFault
            \/ UNCHANGED stale /\ Fault
    /\ UNCHANGED <<Store, pc, ops, exs, task, disk, blind, dead>>

(* A live worker exceeds the idle threshold and a peer's sweep queues its  *)
(* message again: start_runtime, snapshots and artifacts are not in the    *)
(* threshold.                                                              *)
Overrun(w) ==
    /\ w \in Workers /\ pc[w].at \notin {"idle", "ack", "raised"} /\ queue = <<>>
    /\ \E u \in Workers \ {w} : pc[u].at = "idle"
    /\ Fault
    /\ Publish(Message(w))
    /\ UNCHANGED <<Store, pc, ops, exs, stale, task, disk, blind, dead>>

(***************************************************************************)
(* The system.                                                             *)
(***************************************************************************)
ExecutionInit ==
    /\ Init
    /\ exs = <<>> /\ queue = <<>> /\ stale = {} /\ dead = {} /\ disk = 0 /\ blind = 0
    /\ task = [p \in Callers |-> NoTask]

(* The executions of a workspace that is deleted, before its row and with  *)
(* it.                                                                     *)
DeleteExecutionRows(p) ==
    /\ pc[p].at = "d_execs"
    /\ DeleteExecutions
    /\ Goto(p, "d_slot")
    /\ UNCHANGED <<Store, ops, faults, queue, stale, task, disk, blind, dead>>

DeleteWorkspaceRows(p) ==
    /\ DeleteRows(p)
    /\ DeleteExecutions
    /\ UNCHANGED <<queue, stale, task, disk, blind, dead>>

DeleteTables(p) == (DeleteRevisionRows(p) /\ UNCHANGED workVars) \/ DeleteExecutionRows(p) \/ DeleteWorkspaceRows(p)

RuntimeSteps(p) ==
    /\ \/ StartSteps(p) \/ StopSteps(p, ActiveExecutions # {}) \/ LifecycleSteps(p)
       \/ ProviderFaults(p) \/ RequestCrash(p) \/ Endpoints(p)
    /\ disk' = IF volume' THEN disk ELSE 0
    /\ UNCHANGED <<exs, queue, stale, task, blind, dead>>

RequestSteps(p) ==
    \/ \E key \in Keys : SubmitEndpoint(p, key)
    \/ SubmitRead(p) \/ SubmitInvalid(p) \/ SubmitCheck(p) \/ SubmitInsert(p) \/ SubmitTouch(p) \/ SubmitPublish(p) \/ SubmitFail(p)
    \/ \E e \in DOMAIN exs : CancelEndpoint(p, e)
    \/ CancelRead(p) \/ CancelSave(p)
    \/ SaveEnvironmentEndpoint(p) \/ SaveEnvironmentRead(p) \/ SaveEnvironmentCreate(p)
    \/ SaveEnvironmentPublish(p) \/ SaveEnvironmentFail(p)
    \/ WriteFileEndpoint(p) \/ WriteFileCheck(p) \/ WriteFile(p) \/ DeleteFileEndpoint(p) \/ DeleteFile(p)

WorkerSteps(w) ==
    \/ Fetch(w) \/ Acknowledge(w) \/ HandlerRaised(w) \/ Sweep(w) \/ Overrun(w) \/ WorkerCrash(w)
    \/ ExecutionRead(w) \/ ExecutionOwner(w) \/ RuntimeStarted(w) \/ ClaimExecution(w) \/ Execute(w) \/ ExecuteError(w)
    \/ ExecutionReread(w) \/ ExecutionWrite(w)
    \/ SnapshotRead(w) \/ SnapshotBuilding(w) \/ CreateSnapshot(w) \/ SnapshotReady(w)
    \/ SnapshotFailed(w) \/ PruneRevisions(w)

Next ==
    \/ \E cfg \in Configs : CreateWorkspace(cfg) /\ UNCHANGED workVars
    \/ \E p \in Callers : RuntimeSteps(p) \/ DeleteTables(p)
    \/ \E p \in Requests : RequestSteps(p)
    \/ \E w \in Workers : WorkerSteps(w)

Spec == ExecutionInit /\ [][Next]_vars

(***************************************************************************)
(* Properties.                                                             *)
(***************************************************************************)
(* The rows, the container and the copies of the callers are well formed,  *)
(* and no message names an execution or snapshot that never existed.       *)
TypeOK ==
    /\ ws.state \in WorkspaceStates /\ rt.state \in RuntimeStates \cup {"NONE"}
    /\ rt.ref \in 0 .. made /\ box.id \in 0 .. made /\ made \in 0 .. MaxBoxes
    /\ \A v \in DOMAIN revs : revs[v].st \in RevisionStates
    /\ \A e \in DOMAIN exs : exs[e].st \in Active \cup Terminal \cup {"DELETED"}
    /\ \A m \in stale \cup dead \cup {queue[i] : i \in DOMAIN queue} :
         m[2] \in IF m[1] = "exec" THEN DOMAIN exs ELSE DOMAIN revs
    /\ \A p \in Callers : task[p].id # 0 => Message(p)[2] \in (IF task[p].kind = "exec" THEN DOMAIN exs ELSE DOMAIN revs)

(* The program of an execution is started at most once, whatever is        *)
(* redelivered, swept while its worker lives, or repeated by a client:     *)
(* the claim of SQLExecutionRepository decides.                            *)
RanOnce == \A e \in DOMAIN exs : exs[e].ran <= 1

(* A cancelled execution is never picked up: the worker's claim cannot     *)
(* turn it into a running one.                                             *)
CancelledNotClaimed ==
    [][\A e \in DOMAIN exs : exs[e].st = "CANCELLED" => exs'[e].st # "RUNNING"]_vars

(* Somebody still has an execution to deal with: a message, a worker, or   *)
(* the request that submitted it.                                          *)
Carried(e) ==
    \/ <<"exec", e>> \in stale \cup {queue[i] : i \in DOMAIN queue}
    \/ \E p \in Callers : Message(p) = <<"exec", e>> /\ pc[p].at # "idle"

(* An execution that is QUEUED or RUNNING is carried by somebody, unless   *)
(* its message was dead-lettered or a process died: no path of the worker  *)
(* or of submit drops it.                                                  *)
NoStuckExecution ==
    \A e \in ActiveExecutions : Carried(e) \/ <<"exec", e>> \in dead \/ faults > 0

(* The runtime row tells the truth about the container it names: the       *)
(* configuration and the snapshot recorded there are what the container    *)
(* was created with, so that restarting it is restarting what was asked    *)
(* for.                                                                    *)
FingerprintTruthful ==
    rt.state = "RUNNING" /\ rt.ref # 0 /\ rt.ref = box.id => rt.cfg = box.cfg /\ rt.rev = box.rev

(* No more READY snapshots than the retention allows, once nobody is about *)
(* to prune and nothing has failed.                                        *)
SnapshotsBounded ==
    Cardinality(ReadyRevisions) > Retention => faults > 0 \/ \E w \in Workers : pc[w].at = "v_prune"

(* The files of a workspace exceed the quota only by what no check could   *)
(* see: files written by programs, writes to a container that is not up,   *)
(* and one file for every other request that wrote at the same time.       *)
QuotaHeld == disk <= Quota + blind + Cardinality(Requests) - 1

(* What the rows say of a workspace is true and within its limits, however *)
(* starts, stops, snapshots, writes and worker messages interleave: the    *)
(* container is what the runtime row records (_provider_start), older      *)
(* snapshots are pruned (delete_revision) and the quota is held            *)
(* (_check_disk_budget).                                                   *)
RuntimeSound == TypeOK /\ FingerprintTruthful /\ SnapshotsBounded /\ QuotaHeld
==============================================================================
