------------------------- MODULE ConversionPipeline -------------------------
(***************************************************************************)
(* The life of a conversion job across the API, the database, the queue    *)
(* and the converter workers.                                              *)
(*                                                                         *)
(*   - API requests (upload.py, guest.py, conversions.py, service.py) read  *)
(*     a row, change their copy, write the whole row back and publish;     *)
(*   - process_job (converter_workers/processor.py) rebuilds the job from   *)
(*     the queue message, and writes the whole row back at every phase;    *)
(*   - the queue is JobStream, whose worker loop calls process_job.         *)
(*                                                                         *)
(* Every await of the code is a point where the others may step.  Of a job *)
(* the model keeps its status, whether object_key, output_file and         *)
(* batch_id are set, and who owns it; progress, sizes and timings are left *)
(* out.  The job that process_job works on is a fresh entity built from    *)
(* the message, which has no output_file and no batch_id.                  *)
(***************************************************************************)
EXTENDS Integers, Sequences, FiniteSets

CONSTANTS
    Jobs, NoJob,
    Guests,     \* jobs without an owner: never charged, retried or deleted
    Requests,   \* API requests that may be in flight at the same time
    Ops,        \* operations the clients use
    Workers, NStreams,  \* as in JobStream
    MaxPubs,    \* bound on the publications of a job
    MaxErrors,  \* bound on failed database, event and API calls
    MaxFaults   \* bound on crashes and failed queue calls

AllOps == {"upload", "guest", "library", "batch", "retry", "delete", "deleteRange"}

ASSUME PipelineAssumption ==
    /\ NoJob \notin Jobs
    /\ Guests \subseteq Jobs
    /\ Ops \subseteq AllOps
    /\ NStreams \in Nat \ {0}
    /\ MaxPubs \in Nat /\ MaxErrors \in Nat /\ MaxFaults \in Nat

VARIABLES
    log, last, pel, pc, cur, buffer, sweepAt, claimed,  \* see JobStream
    handled, raised, dead, faults,
    rows,       \* job -> its row in conversion_jobs
    reqs,       \* request -> the step it is at, its job, its copy of the row
    task,       \* worker -> the step process_job is at, its job, its entity
    stored,     \* jobs whose output object is in storage
    charges,    \* job -> times credits were consumed for it
    events,     \* terminal events published for clients
    pubs,       \* job -> publications so far
    errors,     \* errors so far
    excused,    \* jobs hit by an error nothing in the code makes up for
    risk,       \* jobs that may run again although they were charged
    taken       \* jobs a sweep took from a worker that had not let go of them

queue == <<log, last, pel, pc, cur, buffer, sweepAt, claimed, handled, raised, dead>>
api == <<reqs, pubs>>
effects == <<stored, charges, events>>
ghosts == <<excused, risk, taken>>
vars == <<queue, faults, rows, api, task, effects, errors, ghosts>>

\* A message is the n-th publication of a job.
Publications == Jobs \X Nat
Q == INSTANCE JobStream WITH Messages <- Publications

------------------------------------------------------------------------------
(* The job entity, conversion_job.py *)

Statuses == {"NEW", "AWAITING_UPLOAD", "PENDING", "PROCESSING",
             "COMPLETED", "FAILED", "DELETED"}
Terminal == {"COMPLETED", "FAILED"}
Job == [status : Statuses, key : BOOLEAN, out : BOOLEAN, batch : BOOLEAN]

NewJob == [status |-> "NEW", key |-> FALSE, out |-> FALSE, batch |-> FALSE]
Awaiting(hasKey) == [NewJob EXCEPT !.status = "AWAITING_UPLOAD", !.key = hasKey]
PendingProcessing(job) == [job EXCEPT !.status = "PENDING"]
Retry(job) == [job EXCEPT !.status = "PENDING", !.out = FALSE]
StartProcessing(job) == [job EXCEPT !.status = "PROCESSING"]
\* Mutant of Complete: output_file is not set.
CompleteBare(job) == [job EXCEPT !.status = "COMPLETED"]

Complete(job) == [job EXCEPT !.status = "COMPLETED", !.out = TRUE]
\* _mark_failed forces FAILED from any status and leaves output_file alone.
MarkFailed(job) == [job EXCEPT !.status = "FAILED"]
\* _build_job: what a worker knows of a job.
BuildJob == [NewJob EXCEPT !.status = "PENDING", !.key = TRUE]

Exists(j) == rows[j].status \notin {"NEW", "DELETED"}
\* Mutant of Done: no guard.
DoneNever(job) == FALSE

\* The idempotency guard of process_job.
Done(job) == job.status = "COMPLETED" /\ job.out

\* UPDATE ... WHERE job_id: the whole row, and nothing if it is gone.
Save(j, job) == rows' = [rows EXCEPT ![j] = IF Exists(j) THEN job ELSE @]

Error == errors < MaxErrors /\ errors' = errors + 1

NoReq == [at |-> "idle", job |-> NoJob, copy |-> NewJob]
NoTask == [at |-> "load", job |-> NoJob, ent |-> NewJob]

Init ==
    /\ Q!Init
    /\ rows = [j \in Jobs |-> NewJob]
    /\ reqs = [r \in Requests |-> NoReq]
    /\ task = [w \in Workers |-> NoTask]
    /\ stored = {} /\ events = {}
    /\ charges = [j \in Jobs |-> 0]
    /\ pubs = [j \in Jobs |-> 0]
    /\ errors = 0
    /\ excused = {} /\ risk = {} /\ taken = {}

------------------------------------------------------------------------------
(* API requests *)

\* The bound on publications counts the ones still to come.
Room(j) ==
    pubs[j] + Cardinality({r \in Requests : reqs[r].job = j}) < MaxPubs

Begin(r, j, at, copy) ==
    /\ reqs[r] = NoReq
    /\ Room(j)
    /\ reqs' = [reqs EXCEPT ![r] = [at |-> at, job |-> j, copy |-> copy]]
    /\ UNCHANGED <<queue, faults, pubs, task, effects, errors, ghosts>>

\* create_conversion_job: POST /jobs without a file.
CreateJob(j) ==
    /\ Ops \cap {"upload", "guest"} # {}
    /\ rows[j].status = "NEW"
    /\ rows' = [rows EXCEPT ![j] = Awaiting(FALSE)]
    /\ UNCHANGED <<queue, faults, api, task, effects, errors, ghosts>>

\* What push_conversion_job does next: a job awaiting its upload is first
\* persisted as PENDING, any other is published as it is.
PushStep(job) == IF job.status = "AWAITING_UPLOAD" THEN "pend" ELSE "publish"
Pushed(job) == IF job.status = "AWAITING_UPLOAD" THEN PendingProcessing(job) ELSE job

\* verify_upload_session reads the row once the upload is complete.  Nothing
\* stops a second verify of the same session.
VerifyRead(r, j) ==
    /\ "upload" \in Ops /\ j \notin Guests
    /\ Exists(j)
    /\ Begin(r, j, "update", [rows[j] EXCEPT !.key = TRUE])
    /\ UNCHANGED rows

\* The guest endpoint goes straight to push_conversion_job.
GuestVerifyRead(r, j) ==
    /\ "guest" \in Ops /\ j \in Guests
    /\ Exists(j)
    /\ LET job == [rows[j] EXCEPT !.key = TRUE]
       IN  Begin(r, j, PushStep(job), Pushed(job))
    /\ UNCHANGED rows

\* convert_library_file: the row is inserted with its key, then pushed.  An
\* item of a batch does the same and is stamped afterwards.
LibraryCreate(r, j) ==
    /\ "library" \in Ops /\ j \notin Guests
    /\ rows[j].status = "NEW"
    /\ rows' = [rows EXCEPT ![j] = Awaiting(TRUE)]
    /\ Begin(r, j, "pend", PendingProcessing(Awaiting(TRUE)))

BatchCreate(r, j) ==
    /\ "batch" \in Ops /\ j \notin Guests
    /\ rows[j].status = "NEW"
    /\ rows' = [rows EXCEPT ![j] = Awaiting(TRUE)]
    /\ Begin(r, j, "pendItem", PendingProcessing(Awaiting(TRUE)))

\* retry_conversion_job reads a FAILED row.
RetryRead(r, j) ==
    /\ "retry" \in Ops /\ j \notin Guests
    /\ rows[j].status = "FAILED" /\ rows[j].key
    /\ Begin(r, j, "pend", Retry(rows[j]))
    /\ UNCHANGED rows

\* The first write of a verify: the key of the uploaded object.
Update(r) ==
    /\ reqs[r].at = "update"
    /\ Save(reqs[r].job, reqs[r].copy)
    /\ reqs' = [reqs EXCEPT ![r].at = PushStep(reqs[r].copy),
                            ![r].copy = Pushed(reqs[r].copy)]
    /\ UNCHANGED <<queue, faults, pubs, task, effects, errors, ghosts>>

\* The PENDING state is persisted before the job is published.
Pend(r) ==
    /\ reqs[r].at \in {"pend", "pendItem"}
    /\ Save(reqs[r].job, reqs[r].copy)
    /\ reqs' = [reqs EXCEPT ![r].at = IF @ = "pend" THEN "publish" ELSE "publishItem"]
    /\ UNCHANGED <<queue, faults, pubs, task, effects, errors, ghosts>>

\* dispatch and publish_job, on the stream of whatever tier the caller passes.
PublishJob(r, s) ==
    /\ reqs[r].at \in {"publish", "publishItem"}
    /\ LET j == reqs[r].job
       IN  /\ Q!Publish(<<j, pubs[j] + 1>>, s)
           /\ pubs' = [pubs EXCEPT ![j] = @ + 1]
    /\ reqs' = [reqs EXCEPT ![r] =
                   IF @.at = "publish" THEN NoReq
                   ELSE [@ EXCEPT !.at = "stamp", !.copy.batch = TRUE]]
    /\ UNCHANGED <<rows, task, effects, errors, ghosts>>

\* _create_batch_item stamps batch_id on its copy and writes the whole row.
Stamp(r) ==
    /\ reqs[r].at = "stamp"
    /\ Save(reqs[r].job, reqs[r].copy)
    /\ reqs' = [reqs EXCEPT ![r] = NoReq]
    /\ UNCHANGED <<queue, faults, pubs, task, effects, errors, ghosts>>

\* A database or Redis call of the request raises, or the API process dies:
\* the client gets an error, what was written stays written.
RequestError(r) ==
    /\ reqs[r].at # "idle"
    /\ Error
    /\ excused' = excused \cup {reqs[r].job}
    /\ reqs' = [reqs EXCEPT ![r] = NoReq]
    /\ UNCHANGED <<queue, faults, rows, pubs, task, effects, risk, taken>>

\* delete_job does not look at the status, delete_history_range does.
DeleteJob(j) ==
    /\ "delete" \in Ops /\ j \notin Guests
    /\ Exists(j)
    /\ rows' = [rows EXCEPT ![j] = [NewJob EXCEPT !.status = "DELETED"]]
    /\ UNCHANGED <<queue, faults, api, task, effects, errors, ghosts>>

\* The window is given by the time the jobs were created.
DeleteHistoryRange ==
    /\ "deleteRange" \in Ops
    /\ \E window \in SUBSET (Jobs \ Guests) :
        /\ \E j \in window : rows[j].status \in Terminal
        /\ rows' = [j \in Jobs |-> IF j \in window /\ rows[j].status \in Terminal
                                   THEN [NewJob EXCEPT !.status = "DELETED"] ELSE rows[j]]
    /\ UNCHANGED <<queue, faults, api, task, effects, errors, ghosts>>

Request(r) ==
    \/ \E j \in Jobs :
        \/ VerifyRead(r, j) \/ GuestVerifyRead(r, j)
        \/ LibraryCreate(r, j) \/ BatchCreate(r, j) \/ RetryRead(r, j)
    \/ RequestError(r)
RequestStep(r) == Update(r) \/ Pend(r) \/ Stamp(r) \/ \E s \in Q!Streams : PublishJob(r, s)

------------------------------------------------------------------------------
(* process_job *)

At(w, at) == pc[w] = "run" /\ task[w].at = at
Goto(w, at) == task' = [task EXCEPT ![w].at = at]
Own(w) == task[w].job

\* _persist, and the event stream: a write either happens or is given up.
PersistOr(w, job, terminal) ==
    \/ Save(Own(w), job) /\ UNCHANGED <<errors, excused>>
    \/ /\ Error
       /\ UNCHANGED rows
       /\ excused' = IF terminal THEN excused \cup {Own(w)} ELSE excused

\* Mutant of Load: the stored row is not looked at.
LoadUnguarded(w) ==
    /\ At(w, "load")
    /\ task' = [task EXCEPT ![w] =
                   [at |-> "start", job |-> Q!Msg(cur[w])[1], ent |-> BuildJob]]
    /\ UNCHANGED <<queue, faults, rows, api, effects, errors, ghosts>>

\* Build the entity and read the stored row; a failing read turns the
\* idempotency guard off for this pass.
Load(w) ==
    /\ At(w, "load")
    /\ LET j == Q!Msg(cur[w])[1]
           next(at) == task' = [task EXCEPT ![w] = [at |-> at, job |-> j, ent |-> BuildJob]]
       IN  \/ /\ next(IF Done(rows[j]) THEN "replay" ELSE "start")
              /\ UNCHANGED <<errors, risk>>
           \/ Error /\ next("start") /\ risk' = risk \cup {j}
    /\ UNCHANGED <<queue, faults, rows, api, effects, excused, taken>>

\* Mutant of Replay: the duplicate is dropped without an event.
ReplaySilent(w) ==
    /\ At(w, "replay")
    /\ Q!Finish(w)
    /\ task' = [task EXCEPT ![w] = NoTask]
    /\ UNCHANGED <<rows, api, effects, errors, ghosts>>

\* The job is already complete: publish the event again and return.
Replay(w) ==
    /\ At(w, "replay")
    /\ events' = events \cup {<<Own(w), "COMPLETED">>}
    /\ Q!Finish(w)
    /\ task' = [task EXCEPT ![w] = NoTask]
    /\ UNCHANGED <<rows, api, stored, charges, errors, ghosts>>

\* This call is outside the try block: the worker loop dead-letters.
ReplayError(w) ==
    /\ At(w, "replay")
    /\ Error
    /\ excused' = excused \cup {Own(w)}
    /\ Q!Raise(w)
    /\ task' = [task EXCEPT ![w] = NoTask]
    /\ UNCHANGED <<rows, api, effects, risk, taken>>

Start(w) ==
    /\ At(w, "start")
    /\ LET job == StartProcessing(task[w].ent)
       IN  /\ PersistOr(w, job, FALSE)
           /\ task' = [task EXCEPT ![w].at = "precheck", ![w].ent = job]
    /\ UNCHANGED <<queue, faults, api, effects, risk, taken>>

\* Mutant of PreCheck: the gate reserves the credits.
PreCheckCharge(w) ==
    /\ At(w, "precheck")
    /\ Goto(w, "download")
    /\ charges' = [charges EXCEPT ![Own(w)] = IF Own(w) \in Guests THEN @ ELSE @ + 1]
    /\ UNCHANGED <<queue, faults, rows, api, stored, events, errors, ghosts>>

\* The credit gate: guests skip it, an unreadable wallet lets the job pass.
PreCheck(w) ==
    /\ At(w, "precheck")
    /\ \/ Goto(w, "download")
       \/ /\ Own(w) \notin Guests
          /\ task' = [task EXCEPT ![w].at = "refuse", ![w].ent = MarkFailed(@)]
    /\ UNCHANGED <<queue, faults, rows, api, effects, errors, ghosts>>

\* Mutant of Refuse: the failure is published but not persisted.
RefuseUnsaved(w) ==
    /\ At(w, "refuse")
    /\ Goto(w, "refused")
    /\ UNCHANGED <<queue, faults, rows, api, effects, errors, ghosts>>

Refuse(w) ==
    /\ At(w, "refuse")
    /\ PersistOr(w, task[w].ent, TRUE)
    /\ Goto(w, "refused")
    /\ UNCHANGED <<queue, faults, api, effects, risk, taken>>

Refused(w) ==
    /\ At(w, "refused")
    /\ events' = events \cup {<<Own(w), "FAILED">>}
    /\ Q!Finish(w)
    /\ task' = [task EXCEPT ![w] = NoTask]
    /\ UNCHANGED <<rows, api, stored, charges, errors, ghosts>>

\* The except clause of the gate swallows this too, and the job goes on.
RefusedError(w) ==
    /\ At(w, "refused")
    /\ Error
    /\ Goto(w, "download")
    /\ UNCHANGED <<queue, faults, rows, api, effects, ghosts>>

\* A phase publishes its progress event, persists the row and does its work.
Phases == {<<"download", "downloading">>, <<"convert", "converting">>,
           <<"upload", "uploading">>}
Announce(w) ==
    /\ \E p \in Phases :
        /\ At(w, p[1])
        /\ PersistOr(w, task[w].ent, FALSE)
        /\ Goto(w, p[2])
    /\ UNCHANGED <<queue, faults, api, effects, risk, taken>>

AnnounceError(w) ==
    /\ \E p \in Phases : At(w, p[1])
    /\ Error
    /\ Goto(w, "except")
    /\ UNCHANGED <<queue, faults, rows, api, effects, ghosts>>

\* Mutant of Prepare: a converted job is charged before its upload.
PrepareCharge(w) ==
    /\ \/ At(w, "downloading") /\ Goto(w, "convert")
       \/ At(w, "converting") /\ Goto(w, "charge")
    /\ UNCHANGED <<queue, faults, rows, api, effects, errors, ghosts>>

Prepare(w) ==
    /\ \/ At(w, "downloading") /\ Goto(w, "convert")
       \/ At(w, "converting") /\ Goto(w, "upload")
    /\ UNCHANGED <<queue, faults, rows, api, effects, errors, ghosts>>

\* Mutant of Upload: the job completes without its object.
UploadSkipped(w) ==
    /\ At(w, "uploading")
    /\ task' = [task EXCEPT ![w].at = "charge", ![w].ent = Complete(@)]
    /\ UNCHANGED <<queue, faults, rows, api, effects, errors, ghosts>>

\* The output object is written, then job.complete, which refuses a job that
\* the credit gate has failed.
Upload(w) ==
    /\ At(w, "uploading")
    /\ stored' = stored \cup {Own(w)}
    /\ IF task[w].ent.status = "PROCESSING"
       THEN task' = [task EXCEPT ![w].at = "charge", ![w].ent = Complete(@)]
       ELSE Goto(w, "except")
    /\ UNCHANGED <<queue, faults, rows, api, charges, events, errors, ghosts>>

\* An operation fails for good after its three attempts.
WorkError(w) ==
    /\ \E p \in Phases : At(w, p[2])
    /\ Goto(w, "except")
    /\ UNCHANGED <<queue, faults, rows, api, effects, errors, ghosts>>

\* Mutant of Charge: guests pay too.
ChargeAll(w) ==
    /\ At(w, "charge")
    /\ Goto(w, "saveDone")
    /\ charges' = [charges EXCEPT ![Own(w)] = @ + 1]
    /\ UNCHANGED <<queue, faults, rows, api, stored, events, errors, ghosts>>

\* Credits are consumed after the output exists; a failure is swallowed.
Charge(w) ==
    /\ At(w, "charge")
    /\ Goto(w, "saveDone")
    /\ \/ /\ Own(w) \in Guests
          /\ UNCHANGED <<charges, errors>>
       \/ /\ Own(w) \notin Guests
          /\ charges' = [charges EXCEPT ![Own(w)] = @ + 1]
          /\ UNCHANGED errors
       \/ /\ Own(w) \notin Guests
          /\ Error
          /\ UNCHANGED charges
    /\ UNCHANGED <<queue, faults, rows, api, stored, events, ghosts>>

\* Mutant of SaveDone: the terminal event is published first.
SaveDoneLate(w) ==
    /\ At(w, "saveDone")
    /\ Goto(w, "publishDone")
    /\ UNCHANGED <<queue, faults, rows, api, effects, errors, ghosts>>

\* The completed row is persisted before the terminal event is published.
SaveDone(w) ==
    /\ At(w, "saveDone")
    /\ PersistOr(w, task[w].ent, TRUE)
    /\ risk' = IF errors' # errors THEN risk \cup {Own(w)} ELSE risk
    /\ Goto(w, "publishDone")
    /\ UNCHANGED <<queue, faults, api, effects, taken>>

PublishDone(w) ==
    /\ At(w, "publishDone")
    /\ events' = events \cup {<<Own(w), "COMPLETED">>}
    /\ Q!Finish(w)
    /\ task' = [task EXCEPT ![w] = NoTask]
    /\ UNCHANGED <<rows, api, stored, charges, errors, ghosts>>

PublishDoneError(w) ==
    /\ At(w, "publishDone")
    /\ Error
    /\ risk' = risk \cup {Own(w)}
    /\ Goto(w, "except")
    /\ UNCHANGED <<queue, faults, rows, api, effects, excused, taken>>

\* Mutant of Except: FAILED is not persisted.
ExceptUnsaved(w) ==
    /\ At(w, "except")
    /\ task' = [task EXCEPT ![w].at = "publishFailed", ![w].ent = MarkFailed(@)]
    /\ UNCHANGED <<queue, faults, rows, api, effects, errors, ghosts>>

\* The except clause: FAILED whatever the status was, persisted, published.
Except(w) ==
    /\ At(w, "except")
    /\ LET job == MarkFailed(task[w].ent)
       IN  /\ PersistOr(w, job, TRUE)
           /\ task' = [task EXCEPT ![w].at = "publishFailed", ![w].ent = job]
    /\ UNCHANGED <<queue, faults, api, effects, risk, taken>>

\* Whether the event goes out or not, an exception reaches the worker loop.
PublishFailed(w) ==
    /\ At(w, "publishFailed")
    /\ \/ events' = events \cup {<<Own(w), "FAILED">>} /\ UNCHANGED errors
       \/ Error /\ UNCHANGED events
    /\ Q!Raise(w)
    /\ task' = [task EXCEPT ![w] = NoTask]
    /\ UNCHANGED <<rows, api, stored, charges, ghosts>>

Process(w) ==
    \/ Load(w) \/ Replay(w) \/ Start(w) \/ PreCheck(w) \/ Refuse(w) \/ Refused(w)
    \/ Announce(w) \/ Prepare(w) \/ Upload(w) \/ WorkError(w) \/ Charge(w)
    \/ SaveDone(w) \/ PublishDone(w) \/ Except(w) \/ PublishFailed(w)
ProcessError(w) ==
    ReplayError(w) \/ RefusedError(w) \/ AnnounceError(w) \/ PublishDoneError(w)

------------------------------------------------------------------------------
(* The rest of the worker loop *)

pipeline == <<rows, api, task, effects, errors, excused>>

QueueStep(w) ==
    /\ Q!Fetch(w) \/ Q!DeadLetter(w) \/ Q!Acknowledge(w) \/ Q!Sweep(w)
    /\ UNCHANGED <<pipeline, risk, taken>>

QueueError(w) ==
    /\ \/ Q!FetchLost(w) \/ Q!DeadLetterError(w)
       \/ Q!AcknowledgeError(w) \/ Q!RequeueAddError(w)
    /\ UNCHANGED <<pipeline, risk, taken>>

\* A second copy of a message gets into circulation.
Duplicate(w) ==
    /\ \/ /\ Q!RequeueAckError(w)
          /\ risk' = risk \cup {Q!Msg(cur[w])[1]}
          /\ UNCHANGED taken
       \/ \E idle \in SUBSET pel :
            /\ Q!AutoclaimLive(w, idle)
            /\ risk' = risk \cup {Q!Msg(e)[1] : e \in idle}
            /\ taken' = taken \cup {Q!Msg(e)[1] : e \in idle \ Q!Orphans(sweepAt[w])}
    /\ UNCHANGED pipeline

\* The process dies; so does the job it is working on.
Crash(w) ==
    /\ Q!Crash(w)
    /\ task' = [task EXCEPT ![w] = NoTask]
    /\ risk' = IF pc[w] = "reack" \/ At(w, "saveDone")
               THEN risk \cup {Q!Msg(cur[w])[1]} ELSE risk
    /\ UNCHANGED <<rows, api, effects, errors, excused, taken>>

Next ==
    \/ \E j \in Jobs : CreateJob(j) \/ DeleteJob(j)
    \/ DeleteHistoryRange
    \/ \E r \in Requests : Request(r) \/ RequestStep(r)
    \/ \E w \in Workers :
        \/ Process(w) \/ ProcessError(w)
        \/ QueueStep(w) \/ QueueError(w) \/ Duplicate(w) \/ Crash(w)

Spec == Init /\ [][Next]_vars

\* Requests and workers that are up keep going; an orphaned entry is idle long
\* enough for some later sweep.  Nothing makes a client start a request.
Fairness ==
    /\ \A r \in Requests : WF_vars(RequestStep(r))
    /\ \A w \in Workers :
        /\ WF_vars(Process(w) \/ QueueStep(w))
        /\ SF_vars(/\ Q!Orphans(sweepAt[w]) # {}
                   /\ Q!Autoclaim(w, Q!Orphans(sweepAt[w]))
                   /\ UNCHANGED <<pipeline, risk, taken>>)

FairSpec == Spec /\ Fairness

------------------------------------------------------------------------------
(* Properties *)

ReqSteps == {"idle", "update", "pend", "pendItem", "publish", "publishItem", "stamp"}
TaskSteps == {"load", "replay", "start", "precheck", "refuse", "refused",
              "download", "downloading", "convert", "converting",
              "upload", "uploading", "charge", "saveDone", "publishDone",
              "except", "publishFailed"}

TypeOK ==
    /\ rows \in [Jobs -> Job]
    /\ reqs \in [Requests -> [at : ReqSteps, job : Jobs \cup {NoJob}, copy : Job]]
    /\ task \in [Workers -> [at : TaskSteps, job : Jobs \cup {NoJob}, ent : Job]]
    /\ stored \subseteq Jobs
    /\ charges \in [Jobs -> Nat]
    /\ events \subseteq Jobs \X Terminal
    /\ pubs \in [Jobs -> Nat]
    /\ errors \in 0..MaxErrors
    /\ excused \subseteq Jobs
    /\ risk \subseteq Jobs
    /\ taken \subseteq Jobs

\* What the download endpoint relies on: a COMPLETED row names an output, and
\* the object is in storage, whatever stale copies of the row other requests
\* and workers write back.
OutputBacked ==
    \A j \in Jobs : rows[j].status = "COMPLETED" => rows[j].out /\ j \in stored

\* "Deduct credits AFTER a successful conversion": nobody pays for a job whose
\* output was never stored, and guests never pay.
ChargeBacked ==
    \A j \in Jobs : charges[j] > 0 => j \in stored /\ j \notin Guests

\* The inductive strengthening of the two: not only the row but every copy of
\* it, in a request or in a worker, is backed by a stored output, and a worker
\* that is about to charge has completed its job.
Backed(job, j) == job.status = "COMPLETED" => job.out /\ j \in stored
CopiesBacked ==
    /\ \A j \in Jobs : Backed(rows[j], j)
    /\ \A r \in Requests : Backed(reqs[r].copy, reqs[r].job)
    /\ \A w \in Workers : Backed(task[w].ent, Own(w))
ChargeReady ==
    \A w \in Workers : task[w].at = "charge" => task[w].ent.status = "COMPLETED"
\* A request past its first step and a worker past Load have a job.
Busy ==
    /\ \A r \in Requests : reqs[r].at = "idle" \/ reqs[r].job \in Jobs
    /\ \A w \in Workers : task[w].at = "load" \/ Own(w) \in Jobs
IInv == TypeOK /\ CopiesBacked /\ ChargeReady /\ Busy /\ ChargeBacked

\* Requests race for the row: the job was published twice, or a request may
\* still write a copy it read earlier.
Contended(j) == pubs[j] > 1 \/ \E r \in Requests : reqs[r].job = j

\* The idempotency guard keeps a redelivered job from being charged twice.  It
\* fails only if requests race for the row, the row was deleted, or one of
\* these happened: the worker stopped or failed to save the row between the
\* charge and the completed row, the guard could not be read, the COMPLETED
\* event could not be published, or a second copy of the message was made.  A
\* lost acknowledgement, a lost read or a crash anywhere else costs nothing.
ChargedOnce ==
    \A j \in Jobs :
        charges[j] > 1 => \/ Contended(j) \/ rows[j].status = "DELETED"
                          \/ j \in risk \cup excused

\* A job that is not finished is still somebody's business: an entry of it is
\* in the queue, a worker is on it, or a request is about to publish it.  It is not
\* claimed of a job whose entry a sweep took from a worker that still had it: that
\* worker may write its row after the copy has ended and been acknowledged.
InHand(j) ==
    \/ \E e \in Q!Available : Q!Msg(e)[1] = j
    \/ \E w \in Workers : pc[w] = "run" /\ Q!Msg(cur[w])[1] = j
    \/ \E r \in Requests : reqs[r].job = j
NoStuckJob ==
    \A j \in Jobs :
        rows[j].status \in {"PENDING", "PROCESSING"} => InHand(j) \/ j \in excused \cup taken

\* When the COMPLETED event goes out the row already shows the output, unless
\* requests race for the row, a second copy of the message is about, or the row
\* was deleted or could not be saved.
CompletedVisible ==
    \A w \in Workers :
        At(w, "publishDone") =>
            LET j == Own(w)
            IN  \/ Done(rows[j]) \/ rows[j].status = "DELETED"
                \/ Contended(j) \/ j \in risk \cup excused

\* process_job: "the output already exists and must not be thrown away".  A
\* completed job stays downloadable until it is deleted, whatever redeliveries
\* of it workers still process; the exceptions are those of ChargedOnce.
DownloadKept ==
    [][\A j \in Jobs :
        Done(rows[j]) => \/ Done(rows'[j]) \/ rows'[j].status = "DELETED"
                         \/ Contended(j) \/ j \in risk \cup excused]_vars

\* Every job that was pushed ends COMPLETED, FAILED or deleted.
Settles ==
    \A j \in Jobs :
        rows[j].status \in {"PENDING", "PROCESSING"} ~>
            rows[j].status \in Terminal \cup {"DELETED"} \/ j \in excused

\* "Re-emit the terminal event so a client still waiting on SSE for this
\* delivery learns the job finished": a completed job is announced, even when
\* the worker dies between the row and the event.
Announced ==
    \A j \in Jobs :
        rows[j].status = "COMPLETED" ~>
            <<j, "COMPLETED">> \in events \/ rows[j].status # "COMPLETED" \/ j \in excused
=============================================================================
