---------------------------- MODULE LibraryJobs ----------------------------
(***************************************************************************)
(* What uses the library's objects besides the library: conversion jobs of *)
(* the account, started from a file, a batch or a saved workflow; jobs of  *)
(* guests; and the cleanup worker, which releases the objects of jobs past *)
(* their retention.  How a job runs is ConversionPipeline's subject: here  *)
(* it reads its input and leaves an output.                                *)
(***************************************************************************)
EXTENDS FileLibrary

CONSTANTS GuestMax,    \* GUEST_MAX_FILE_SIZE
          MaxTargets,  \* bound: target formats of a workflow
          Scenarios    \* bound: how a run starts and what may happen in it

(* A scenario's tree has all parents and no cycle, its files are in it,    *)
(* have a row and an object each, and fit into the quota.                  *)
ScenarioSound(s) ==
    /\ DOMAIN s.tree \subseteq Folders
    /\ \A d \in DOMAIN s.tree : s.tree[d] \in DOMAIN s.tree \cup {Root}
    /\ \A C \in (SUBSET DOMAIN s.tree) \ {{}} : \E d \in C : s.tree[d] \notin C
    /\ s.files \subseteq [file : Files, key : Keys \ Spoofed, folder : DOMAIN s.tree \cup {Root}]
    /\ \A e, f \in s.files : e.file = f.file \/ e.key = f.key => e = f
    /\ IsFiniteSet(s.files) /\ Cardinality(s.files) <= Quota
    /\ s.files # {} => MaxFile >= 1

ASSUME JobsAssumption == /\ GuestMax \in Nat /\ MaxTargets \in Nat \ {0}
                         /\ \A s \in Scenarios : ScenarioSound(s)

VARIABLES job,       \* job -> its row (ConversionJobModel), as far as objects go
          output,    \* jobs whose output object is in the store
          workflow,  \* the saved workflow's distinct target formats, 0 for none
          sweep,     \* what the cleanup worker has selected and still to release
          released,  \* history: keys a sweep removed
          doubled,   \* history: keys two requests handled at the same time
          crossed,   \* history: two moves of folders were under way at once
          left       \* what is left of the scenario's requests and faults

jobVars == <<job, output, workflow, sweep, released>>
vars == <<fileVars, jobVars, doubled, crossed, left>>

JobStates == {"none", "waiting", "active", "failed", "completed"}

NoConversion == [state |-> "none", guest |-> FALSE, token |-> FALSE, key |-> NoKey]

NoSweep == [selected |-> {}, todo |-> {}, keys |-> [j \in Jobs |-> NoKey]]

TypeOKJobs ==
    /\ TypeOKLibrary
    /\ job \in [Jobs -> [state : JobStates, guest : BOOLEAN, token : BOOLEAN,
                         key : Keys \cup {NoKey}]]
    /\ output \subseteq Jobs
    /\ workflow \in 0..MaxTargets
    /\ sweep \in [selected : SUBSET Jobs, todo : SUBSET Jobs,
                  keys : [Jobs -> Keys \cup {NoKey}]]
    /\ released \subseteq Keys

TypeOK == TypeOKJobs /\ doubled \subseteq Keys /\ crossed \in BOOLEAN

(* A run starts with the folders and the stored files of its scenario.     *)
Init ==
    \E s \in Scenarios :
        /\ object = [k \in Keys |-> IF \E f \in s.files : f.key = k THEN 1 ELSE 0]
        /\ parts = [k \in Keys |-> NoParts]
        /\ session = [k \in Keys |->
              IF \E f \in s.files : f.key = k
              THEN [NoSession EXCEPT !.created = TRUE, !.completed = TRUE] ELSE NoSession]
        /\ folder = [d \in Folders |->
              IF d \in DOMAIN s.tree
              THEN [state |-> "live", parent |-> s.tree[d], name |-> CHOOSE n \in Names : TRUE]
              ELSE [state |-> "unused", parent |-> Root, name |-> CHOOSE n \in Names : TRUE]]
        /\ row = [f \in Files |->
              IF \E e \in s.files : e.file = f
              THEN LET e == CHOOSE e \in s.files : e.file = f
                   IN [state |-> "live", key |-> e.key, folder |-> e.folder, size |-> 1,
                       favorite |-> FALSE]
              ELSE NoUserFile]
        /\ reqs = [r \in Requests |-> Idle]
        /\ lock = NoRequest
        /\ leaked = {}
        /\ job = [j \in Jobs |-> NoConversion]
        /\ output = {}
        /\ workflow = 0
        /\ sweep = NoSweep
        /\ released = {}
        /\ doubled = {} /\ crossed = FALSE
        /\ left = s.budget

(* Two verifications of one upload, or one and the deletion of its file,   *)
(* and two moves: the client may send them at once, and nothing in the     *)
(* code keeps them apart.                                                  *)
Overlaps ==
    /\ doubled' = doubled \cup {k \in Keys : \E q, r \in Requests :
                                    q # r /\ reqs'[q].key = k /\ reqs'[r].key = k}
    /\ crossed' = (crossed \/ \E q, r \in Requests :
                                  q # r /\ reqs'[q].op = "move" /\ reqs'[r].op = "move")

Spend(what) == left[what] > 0 /\ left' = [left EXCEPT ![what] = @ - 1] /\ Overlaps
Quiet == UNCHANGED left /\ Overlaps
NoFiles == UNCHANGED fileVars
NoSweeping == UNCHANGED <<sweep, released>>

(* Ids are drawn fresh: one is taken again only when nothing refers to the *)
(* row it named.                                                           *)
Free == {j \in Jobs : /\ job[j].state = "none" /\ j \notin output \cup sweep.selected
                      /\ \A r \in Requests : reqs[r].job # j}

----------------------------------------------------------------------------
(* Starting jobs                                                           *)

NewJob(state, guest, key) == [state |-> state, guest |-> guest, token |-> guest, key |-> key]

(* A job that waits for its upload.                                        *)
create_conversion_job(guest) ==
    /\ \E j \in Free : job' = [job EXCEPT ![j] = NewJob("waiting", guest, NoKey)]
    /\ UNCHANGED <<output, workflow>> /\ NoSweeping /\ NoFiles

(* The guest's job comes with the token its later requests must carry.     *)
guest_conversion_job == create_conversion_job(TRUE)

(* A job for each file: its input is the file's own object.                *)
StartJobs(files, targets) ==
    \E js \in [files \X (1..targets) -> Free] :
        /\ \A x, y \in DOMAIN js : js[x] = js[y] => x = y
        /\ job' = [j \in Jobs |->
              IF \E x \in DOMAIN js : js[x] = j
              THEN NewJob("active", FALSE, row[(CHOOSE x \in DOMAIN js : js[x] = j)[1]].key)
              ELSE job[j]]

convert_library_file(f) == get_file(f) /\ StartJobs({f}, 1)

get_owned_files(asked) == {f \in asked : get_file(f)}

create_batch_conversion(asked) == StartJobs(get_owned_files(asked), 1)

(* A run looks every file up again and drops those its formats exclude.    *)
run_workflow(asked) ==
    /\ workflow > 0
    /\ \E supported \in SUBSET get_owned_files(asked) : StartJobs(supported, workflow)

ConvertFiles ==
    /\ \/ \E f \in Files : convert_library_file(f)
       \/ \E asked \in (SUBSET Files) \ {{}} : create_batch_conversion(asked)
       \/ \E asked \in (SUBSET Files) \ {{}} : run_workflow(asked)
    /\ UNCHANGED <<output, workflow>> /\ NoSweeping /\ NoFiles

create_workflow(targets) == workflow = 0 /\ workflow' = targets
update_workflow(targets) == workflow # 0 /\ workflow' = targets
delete_workflow == workflow # 0 /\ workflow' = 0

KeepWorkflow ==
    /\ \/ \E n \in 1..MaxTargets : create_workflow(n)
       \/ \E n \in 1..MaxTargets : update_workflow(n)
       \/ delete_workflow
    /\ UNCHANGED <<job, output>> /\ NoSweeping /\ NoFiles

(* A verified upload becomes the input of the job that waited for it.      *)
push_conversion_job(j, k) ==
    job' = [job EXCEPT ![j].key = k,
                       ![j].state = IF @ = "waiting" THEN "active" ELSE @]

(* The account's own verification ends by pointing its job at the object.  *)
PointJob(r) ==
    LET j == reqs[r].job
    IN /\ reqs[r].op = "job"
       /\ IF job[j].state # "none" /\ ~job[j].guest
          THEN push_conversion_job(j, reqs[r].key) ELSE UNCHANGED job
       /\ Answer(r)
       /\ UNCHANGED <<output, workflow>> /\ NoSweeping
       /\ NoStore /\ NoRows /\ NoLock /\ NoLeak

----------------------------------------------------------------------------
(* Guests                                                                  *)

guest_upload_session(k) ==
    /\ \E declared \in 0..MaxSize :
          declared <= GuestMax /\ create_upload(k, "guest", Root, 0)
    /\ UNCHANGED libraryVars

require_guest_token(j) == job[j].guest /\ job[j].token

(* The guest's verification, after the object was seen: an object over the *)
(* guest cap is refused but stays in the store, and so does an object no   *)
(* job takes any more.                                                     *)
verify_guest_upload(r) ==
    LET k == reqs[r].key
        j == reqs[r].job
        refused == stat_object(k) > GuestMax \/ job[j].state = "none"
    IN /\ reqs[r].op = "owner" /\ reqs[r].loaded.owner = "guest"
       /\ IF refused THEN UNCHANGED job /\ leaked' = leaked \cup {k}
          ELSE push_conversion_job(j, k) /\ NoLeak
       /\ Answer(r)
       /\ UNCHANGED <<output, workflow>> /\ NoSweeping
       /\ NoStore /\ NoRows /\ NoLock

(* A guest token lives as long as its job is retained.                     *)
GuestTokenExpires(j) ==
    /\ require_guest_token(j)
    /\ \A r \in Requests : reqs[r].job # j
    /\ job' = [job EXCEPT ![j].token = FALSE]
    /\ UNCHANGED <<output, workflow>> /\ NoSweeping /\ NoFiles

----------------------------------------------------------------------------
(* Running, retrying and forgetting jobs                                   *)

RunJob(j) ==
    /\ job[j].state = "active"
    /\ \/ /\ object_exists(job[j].key)
          /\ job' = [job EXCEPT ![j].state = "completed"]
          /\ output' = output \cup {j}
       \/ job' = [job EXCEPT ![j].state = "failed"] /\ UNCHANGED output
    /\ UNCHANGED workflow /\ NoSweeping /\ NoFiles

retry_conversion_job(j) ==
    /\ job[j].state = "failed" /\ ~job[j].guest
    /\ job' = [job EXCEPT ![j].state = "active"]
    /\ UNCHANGED <<output, workflow>> /\ NoSweeping /\ NoFiles

(* History is deleted without its objects.                                 *)
delete_history_job(j) ==
    /\ job[j].state # "none" /\ ~job[j].guest
    /\ job' = [job EXCEPT ![j] = NoConversion]
    /\ UNCHANGED <<output, workflow>> /\ NoSweeping /\ NoFiles

----------------------------------------------------------------------------
(* The cleanup worker                                                      *)

(* Mutant of input_object_key: the display name, which is no object's key. *)
input_object_key_name(j) == NoKey

input_object_key(j) == job[j].key

(* A sweep reads the rows it will delete, and deletes them at its end.     *)
Select(chosen) ==
    /\ sweep.selected = {} /\ chosen # {}
    /\ sweep' = [selected |-> chosen, todo |-> chosen,
                 keys |-> [j \in Jobs |-> IF j \in chosen THEN input_object_key(j) ELSE NoKey]]
    /\ UNCHANGED <<job, output, workflow, released>> /\ NoFiles

(* Guest jobs past the window, whatever their status.                      *)
cleanup_guest_jobs ==
    Select({j \in Jobs : job[j].state # "none" /\ job[j].guest /\ ~job[j].token})

(* Finished jobs past the window, of anyone.                               *)
archive_old_jobs ==
    \E old \in SUBSET {j \in Jobs : job[j].state \in {"completed", "failed"}} : Select(old)

delete_objects(j) ==
    /\ j \in sweep.todo
    /\ sweep' = [sweep EXCEPT !.todo = @ \ {j}]
    /\ object' = IF sweep.keys[j] = NoKey THEN object ELSE remove_object(sweep.keys[j])
    /\ released' = released \cup ({sweep.keys[j]} \ {NoKey})
    /\ output' = output \ {j}
    /\ UNCHANGED <<parts, session, job, workflow>> /\ UNCHANGED libraryVars

(* A failed removal is logged and the row goes all the same.               *)
delete_objects_fails(j) ==
    /\ j \in sweep.todo
    /\ sweep' = [sweep EXCEPT !.todo = @ \ {j}]
    /\ leaked' = leaked \cup ({sweep.keys[j]} \ {NoKey})
    /\ output' = output \ {j}
    /\ UNCHANGED <<job, workflow, released, folder, row, reqs, lock>> /\ NoStore

SweepCommits ==
    /\ sweep.selected # {} /\ sweep.todo = {}
    /\ job' = [j \in Jobs |-> IF j \in sweep.selected THEN NoConversion ELSE job[j]]
    /\ sweep' = NoSweep
    /\ UNCHANGED <<output, workflow, released>> /\ NoFiles

(* The worker dies between two objects: the rows stay for the next sweep.  *)
SweepDies ==
    /\ sweep.selected # {}
    /\ sweep' = NoSweep
    /\ UNCHANGED <<job, output, workflow, released>> /\ NoFiles

----------------------------------------------------------------------------
(* The specification                                                       *)

Upload(k) ==
    /\ \/ create_upload_session(k) /\ Spend("upload")
       \/ guest_upload_session(k) /\ Spend("guest")
       \/ discard_upload_session(k) /\ Spend("fault")
       \/ (ClientPut(k) \/ ClientSendsParts(k)) /\ UNCHANGED libraryVars /\ Quiet
       \/ SessionExpires(k) /\ UNCHANGED libraryVars /\ Spend("fault")
    /\ UNCHANGED jobVars

(* A verification that is asked for again costs a fault: its answer was    *)
(* lost, or the client is impatient.  A guest sends one upload for each    *)
(* job.                                                                    *)
Verify(r, k) ==
    /\ \/ /\ session[k].owner = "user"
          /\ \E j \in {i \in Jobs : job[i].state # "none" /\ ~job[i].guest} \cup {NoJob} :
                verify_upload_session(r, k, j)
       \/ /\ session[k].owner = "guest"
          /\ \E j \in Jobs : /\ require_guest_token(j) /\ job[j].key \in {NoKey, k}
                             /\ \A q \in Requests : reqs[q].job = j => reqs[q].key = k
                             /\ verify_upload_session(r, k, j)
    /\ IF session[k].completed \/ \E q \in Requests : reqs[q].key = k
       THEN Spend("fault") ELSE Quiet
    /\ UNCHANGED jobVars

Arrive(r) ==
    /\ \/ ArriveFiles(r) /\ Spend("file")
       \/ ArriveFolders(r) /\ Spend("folder")
    /\ UNCHANGED jobVars

Favorite(f) == set_file_favorite(f) /\ Spend("file") /\ UNCHANGED jobVars

Serve(r) == ServeFiles(r) /\ UNCHANGED jobVars /\ Quiet

ServeJob(r) == (PointJob(r) \/ verify_guest_upload(r)) /\ Quiet

Fail(r) == (RemoveFails(r) \/ RequestDies(r)) /\ UNCHANGED jobVars /\ Spend("fault")

JobRequest ==
    \/ ConvertFiles /\ Spend("job")
    \/ create_conversion_job(FALSE) /\ Spend("job")
    \/ guest_conversion_job /\ Spend("guest")
    \/ KeepWorkflow /\ Spend("job")
    \/ \E j \in Jobs : (retry_conversion_job(j) \/ delete_history_job(j)) /\ Spend("job")

JobStep == (\E j \in Jobs : RunJob(j) \/ GuestTokenExpires(j)) /\ Quiet

Sweep ==
    \/ (cleanup_guest_jobs \/ archive_old_jobs) /\ Spend("sweep")
    \/ (\E j \in Jobs : delete_objects(j)) /\ Quiet
    \/ SweepCommits /\ Quiet
    \/ (\E j \in Jobs : delete_objects_fails(j)) /\ Spend("fault")
    \/ SweepDies /\ Spend("fault")

Next ==
    \/ \E k \in Keys : Upload(k)
    \/ \E r \in Requests, k \in Keys : Verify(r, k)
    \/ \E r \in Requests : Arrive(r) \/ Serve(r) \/ ServeJob(r) \/ Fail(r)
    \/ \E f \in Files : Favorite(f)
    \/ JobRequest \/ JobStep \/ Sweep

Spec == Init /\ [][Next]_vars

----------------------------------------------------------------------------
(* Properties                                                              *)

(* An upload that was verified, however often, has at most one row, unless *)
(* two requests handled it at the same time: the second click then finds   *)
(* no row either.                                                          *)
OneRowPerKey == \A k \in Keys \ doubled : Cardinality(find_by_key(k)) <= 1

(* A file in the library has its object, unless its deletion is under way, *)
(* a failure cut it short, a second request of the same upload took it, or *)
(* a sweep released the input of a job that had read it.                   *)
RowBacked ==
    \A f \in Files : get_file(f) => \/ object_exists(row[f].key)
                                    \/ Working(row[f].key)
                                    \/ row[f].key \in leaked \cup released \cup doubled

(* What a guest left in the store is reachable from the guest's job, so    *)
(* the cleanup worker finds it when the job's retention ends.              *)
GuestReclaimable ==
    /\ \A k \in Keys : session[k].owner = "guest" /\ session[k].completed /\ object_exists(k)
                       => \/ \E j \in Jobs : job[j].guest /\ job[j].key = k
                          \/ Working(k) \/ k \in leaked
    /\ \A j \in output : job[j].guest => job[j].state = "completed"

(* The library and the store agree: one row for an object whenever its     *)
(* upload is verified again, and an object for every row, as long as no    *)
(* two requests of one upload overlap (complete_upload, delete_file, the   *)
(* sweeps of the cleanup worker).                                          *)
StoreAgrees == OneRowPerKey /\ RowBacked

(* Nothing stays in the store that no row leads to, neither of a user nor  *)
(* of a guest (delete_many, delete_folder, the guest verify_upload_session *)
(* and the cleanup worker).                                                *)
NothingLeftBehind == NoOrphanObject /\ GuestReclaimable

(* Nothing is ever in a folder that is gone, and the folders are a tree    *)
(* through creations, moves and cascading deletions, until two moves run   *)
(* at once: each passes the check for a cycle and together they make one   *)
(* (_is_descendant, delete_with_descendants).                              *)
TreeSound == TypeOK /\ NothingInGoneFolder /\ (crossed \/ TreeRooted)
==============================================================================
