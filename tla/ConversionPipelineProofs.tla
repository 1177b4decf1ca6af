---------------------- MODULE ConversionPipelineProofs ----------------------
(***************************************************************************)
(* Proofs about ConversionPipeline for any sets of jobs, requests and      *)
(* workers and any bounds.  Its steps are steps of JobStream, whose        *)
(* invariant is proved in JobStreamProofs; on top of it the module proves  *)
(* the pipeline's own inductive invariant IInv, and from it OutputBacked   *)
(* and ChargeBacked.  Sound ties the worker's task to the entry in its     *)
(* hand; with it Orderly, the idempotency argument, gives ChargedOnce,     *)
(* CompletedVisible and DownloadKept, and Pursued gives NoStuckJob.        *)
(***************************************************************************)
EXTENDS ConversionPipeline, TLAPS

------------------------------------------------------------------------------
(* The queue's theorems, carried over *)

QP == INSTANCE JobStreamProofs WITH Messages <- Publications

\* The constants of the queue satisfy its assumption.
LEMMA StreamConstants == QP!StreamAssumption
BY PipelineAssumption DEF PipelineAssumption, QP!StreamAssumption

\* Q and QP are two instances of the same definitions.
LEMMA SameEntries ==
    /\ Q!Streams = QP!Streams /\ Q!NoEntry = QP!NoEntry /\ Q!PCs = QP!PCs
    /\ Q!Entries = QP!Entries /\ Q!Delivered = QP!Delivered
    /\ Q!Available = QP!Available /\ Q!Published = QP!Published
    /\ \A e : Q!Msg(e) = QP!Msg(e)
BY DEF Q!Delivered, QP!Delivered, Q!Entries, QP!Entries, Q!Streams,
       QP!Streams, Q!PCs, QP!PCs, Q!NoEntry, QP!NoEntry, Q!Published,
       QP!Published, Q!Msg, QP!Msg, Q!Available, QP!Available

\* Their initial predicates agree.
LEMMA SameInit == Q!Init <=> QP!Init
BY DEF Q!Init, QP!Init, Q!NoEntry, QP!NoEntry, Q!Streams, QP!Streams

\* Their invariants agree.
LEMMA SameInv == Q!IInv <=> QP!IInv
BY SameEntries
   DEF Q!IInv, QP!IInv, Q!TypeOK, QP!TypeOK, Q!Recoverable, QP!Recoverable,
       Q!SettledFirst, QP!SettledFirst, Q!Secured, QP!Secured

\* Their next-state relations agree.
LEMMA SameNext == (Q!Next <=> QP!Next) /\ Q!vars = QP!vars
BY DEF Q!Next, QP!Next, Q!Publish, QP!Publish, Q!Add, QP!Add, Q!Fetch,
       QP!Fetch, Q!FetchBuffered, QP!FetchBuffered, Q!FetchNew,
       QP!FetchNew, Q!FetchNone, QP!FetchNone, Q!Start, QP!Start,
       Q!Deliver, QP!Deliver, Q!Undelivered, QP!Undelivered,
       Q!NextDelivery, QP!NextDelivery, Q!Settle, QP!Settle, Q!Finish,
       QP!Finish, Q!Raise, QP!Raise, Q!DeadLetter, QP!DeadLetter,
       Q!Acknowledge, QP!Acknowledge, Q!Sweep, QP!Sweep, Q!Autoclaim,
       QP!Autoclaim, Q!Claim, QP!Claim, Q!RequeueAdd, QP!RequeueAdd,
       Q!RequeueAck, QP!RequeueAck, Q!SweepOn, QP!SweepOn, Q!Failure,
       QP!Failure, Q!FetchLost, QP!FetchLost, Q!DeadLetterError,
       QP!DeadLetterError, Q!AcknowledgeError, QP!AcknowledgeError,
       Q!AutoclaimLive, QP!AutoclaimLive, Q!RequeueAddError,
       QP!RequeueAddError, Q!RequeueAckError, QP!RequeueAckError,
       Q!Crash, QP!Crash, Q!Fault, QP!Fault, Q!Release, QP!Release,
       Q!Held, QP!Held, Q!Orphans, QP!Orphans, Q!Pending, QP!Pending,
       Q!redis, QP!redis, Q!loop, QP!loop, Q!history, QP!history,
       Q!vars, QP!vars, Q!Streams, QP!Streams, Q!NoEntry, QP!NoEntry,
       Q!PCs, QP!PCs, Q!Entries, QP!Entries, Q!Delivered,
       QP!Delivered, Q!Available, QP!Available, Q!Published,
       QP!Published, Q!Msg, QP!Msg

\* The invariant of the queue, in the pipeline's terms.
LEMMA QueueInit == Q!Init => Q!IInv
BY QP!Inductive, StreamConstants, SameInit, SameInv DEF QP!Inductive

\* The queue keeps its invariant at every step of its own.
LEMMA QueueInductive ==
    ASSUME Q!IInv, [Q!Next]_(Q!vars)
    PROVE  Q!IInv'
  <1>1. QP!IInv
    BY SameInv
  <1>2. [QP!Next]_(QP!vars)
    <2>1. UNCHANGED Q!vars => UNCHANGED QP!vars
      BY DEF QP!vars, Q!vars, QP!redis, Q!redis, QP!loop, Q!loop, QP!history, Q!history
    <2>2. QED
      BY <2>1, SameNext
  <1>3. QP!IInv'
    BY <1>1, <1>2, QP!Inductive, StreamConstants DEF QP!Inductive
  <1>4. Q!IInv' <=> QP!IInv'
    BY SameInv, PTL
  <1>5. QED
    BY <1>3, <1>4

------------------------------------------------------------------------------
(* The invariant, sorted by the variable its parts are about *)

\* What a good task and a good request look like when the outputs in S are stored.
TaskRec == [at : TaskSteps, job : Jobs \cup {NoJob}, ent : Job]
ReqRec == [at : ReqSteps, job : Jobs \cup {NoJob}, copy : Job]

GoodTask(t, S) ==
    /\ t.ent.status = "COMPLETED" => t.ent.out /\ t.job \in S
    /\ t.at = "charge" => t.ent.status = "COMPLETED"
    /\ t.at = "load" \/ t.job \in Jobs
GoodReq(q, S) ==
    /\ q.copy.status = "COMPLETED" => q.copy.out /\ q.job \in S
    /\ q.at = "idle" \/ q.job \in Jobs

RowsOK == rows \in [Jobs -> Job] /\ \A j \in Jobs : Backed(rows[j], j)
ReqsOK == reqs \in [Requests -> ReqRec] /\ \A r \in Requests : GoodReq(reqs[r], stored)
TaskOK == task \in [Workers -> TaskRec] /\ \A w \in Workers : GoodTask(task[w], stored)
RestOK ==
    /\ stored \subseteq Jobs
    /\ charges \in [Jobs -> Nat]
    /\ events \subseteq Jobs \X Terminal
    /\ pubs \in [Jobs -> Nat]
    /\ errors \in 0..MaxErrors
    /\ excused \subseteq Jobs
    /\ risk \subseteq Jobs
    /\ taken \subseteq Jobs
    /\ ChargeBacked

\* IInv is the conjunction of the four parts.
LEMMA Parts == IInv <=> RowsOK /\ ReqsOK /\ TaskOK /\ RestOK
BY DEF IInv, TypeOK, CopiesBacked, ChargeReady, Busy, RowsOK, ReqsOK, TaskOK, RestOK,
       Backed, GoodTask, GoodReq, TaskRec, ReqRec, Own

\* The same of the next state.
LEMMA PartsNext == IInv' <=> RowsOK' /\ ReqsOK' /\ TaskOK' /\ RestOK'
BY Parts, PTL

\* The count of errors stays within its bound.
LEMMA ErrorStep == RestOK /\ (Error \/ UNCHANGED errors) => errors' \in 0..MaxErrors
BY PipelineAssumption DEF PipelineAssumption, RestOK, Error

\* A whole-row write of a copy that is backed.
SaveOK(j, job) ==
    /\ job \in Job
    /\ job.status = "COMPLETED" => job.out /\ j \in stored
    /\ Save(j, job)

\* A write of a backed copy leaves every row backed.
LEMMA RowsStep ==
    ASSUME RowsOK, stored \subseteq stored', 
           UNCHANGED rows \/ \E j, job : SaveOK(j, job)
    PROVE  RowsOK'
  <1>1. CASE UNCHANGED rows
    BY <1>1 DEF RowsOK, Backed
  <1>2. CASE \E j, job : SaveOK(j, job)
    <2>1. PICK j, job : SaveOK(j, job)
      BY <1>2
    <2>2. rows' = [rows EXCEPT ![j] = job] \/ rows' = rows
      BY <2>1 DEF SaveOK, Save, RowsOK
    <2>3. job \in Job /\ (job.status = "COMPLETED" => job.out /\ j \in stored)
      BY <2>1 DEF SaveOK
    <2>4. QED
      BY <2>2, <2>3 DEF RowsOK, Backed
  <1>3. QED
    BY <1>1, <1>2

\* A worker moves on to a good task.
LEMMA TaskStep ==
    ASSUME TaskOK, stored \subseteq stored', NEW w \in Workers,
           NEW t \in TaskRec, GoodTask(t, stored'), task' = [task EXCEPT ![w] = t]
    PROVE  TaskOK'
BY DEF TaskOK, GoodTask

\* A request moves on to a good state.
LEMMA ReqStep ==
    ASSUME ReqsOK, stored \subseteq stored', NEW r \in Requests,
           NEW q \in ReqRec, GoodReq(q, stored'), reqs' = [reqs EXCEPT ![r] = q]
    PROVE  ReqsOK'
BY DEF ReqsOK, GoodReq

\* The requests are left alone.
LEMMA SameReqs ==
    ASSUME ReqsOK, stored \subseteq stored', UNCHANGED reqs
    PROVE  ReqsOK'
BY DEF ReqsOK, GoodReq

\* The workers are left alone.
LEMMA SameTask ==
    ASSUME TaskOK, stored \subseteq stored', UNCHANGED task
    PROVE  TaskOK'
BY DEF TaskOK, GoodTask

\* Replay: the completed event is published again.
LEMMA ReplayStep ==
    ASSUME IInv, NEW w \in Workers, Replay(w)
    PROVE  IInv'
  <1>1. RowsOK /\ ReqsOK /\ TaskOK /\ RestOK
    BY Parts
  <1>2. task[w] \in TaskRec /\ GoodTask(task[w], stored)
    BY <1>1 DEF TaskOK
  <1>3. UNCHANGED stored /\ UNCHANGED reqs
    BY DEF Replay, api, effects
  <1>4. PICK t : t = NoTask
    OBVIOUS
  <1>5. t \in TaskRec /\ task' = [task EXCEPT ![w] = t] /\ GoodTask(t, stored')
    BY <1>1, <1>2, <1>3, <1>4 DEF Replay, At, TaskOK, TaskRec, GoodTask, TaskSteps,
       NoTask, Job, Statuses, NewJob
  <1>6. RowsOK'
    BY <1>1, <1>3, RowsStep DEF Replay
  <1>7. RestOK'
    <2>1. errors' \in 0..MaxErrors
      BY <1>1, ErrorStep DEF Replay
    <2>2. QED
      BY <1>1, <1>2, <2>1 DEF Replay, At, Own, RestOK, ChargeBacked, GoodTask,
         Terminal, api, effects, ghosts
  <1>8. QED
    BY <1>1, <1>3, <1>5, <1>6, <1>7, PartsNext, TaskStep, SameReqs

\* ReplayError: that event could not be published.
LEMMA ReplayErrorStep ==
    ASSUME IInv, NEW w \in Workers, ReplayError(w)
    PROVE  IInv'
  <1>1. RowsOK /\ ReqsOK /\ TaskOK /\ RestOK
    BY Parts
  <1>2. task[w] \in TaskRec /\ GoodTask(task[w], stored)
    BY <1>1 DEF TaskOK
  <1>3. UNCHANGED stored /\ UNCHANGED reqs
    BY DEF ReplayError, api, effects
  <1>4. PICK t : t = NoTask
    OBVIOUS
  <1>5. t \in TaskRec /\ task' = [task EXCEPT ![w] = t] /\ GoodTask(t, stored')
    BY <1>1, <1>2, <1>3, <1>4 DEF ReplayError, At, TaskOK, TaskRec, GoodTask,
       TaskSteps, NoTask, Job, Statuses, NewJob
  <1>6. RowsOK'
    BY <1>1, <1>3, RowsStep DEF ReplayError
  <1>7. RestOK'
    <2>1. errors' \in 0..MaxErrors
      BY <1>1, ErrorStep DEF ReplayError
    <2>2. QED
      BY <1>1, <1>2, <2>1 DEF ReplayError, At, Own, RestOK, ChargeBacked, GoodTask,
         Terminal, api, effects
  <1>8. QED
    BY <1>1, <1>3, <1>5, <1>6, <1>7, PartsNext, TaskStep, SameReqs

\* Start: the row is written as PROCESSING.
LEMMA StartStep ==
    ASSUME IInv, NEW w \in Workers, Start(w)
    PROVE  IInv'
  <1>1. RowsOK /\ ReqsOK /\ TaskOK /\ RestOK
    BY Parts
  <1>2. task[w] \in TaskRec /\ GoodTask(task[w], stored)
    BY <1>1 DEF TaskOK
  <1>3. UNCHANGED stored /\ UNCHANGED reqs
    BY DEF Start, api, effects
  <1>4. PICK t : t = [task[w] EXCEPT !.at = "precheck", !.ent = StartProcessing(task[w].ent)]
    OBVIOUS
  <1>5. t \in TaskRec /\ task' = [task EXCEPT ![w] = t] /\ GoodTask(t, stored')
    BY <1>1, <1>2, <1>3, <1>4 DEF Start, At, TaskOK, TaskRec, GoodTask, TaskSteps,
       StartProcessing, Job, Statuses
  <1>6. RowsOK'
    <2>1. PICK job : job = StartProcessing(task[w].ent)
      OBVIOUS
    <2>2. UNCHANGED rows \/ Save(Own(w), job)
      BY <2>1 DEF Start, PersistOr
    <2>3. job \in Job /\ (job.status = "COMPLETED" => job.out /\ Own(w) \in stored)
      BY <1>2, <2>1 DEF TaskRec, GoodTask, Own, StartProcessing, Job, Statuses
    <2>4. QED
      BY <1>1, <1>3, <2>2, <2>3, RowsStep DEF SaveOK
  <1>7. RestOK'
    <2>1. errors' \in 0..MaxErrors
      BY <1>1, ErrorStep DEF Start, PersistOr
    <2>2. QED
      BY <1>1, <1>2, <2>1 DEF Start, At, Own, RestOK, ChargeBacked, GoodTask,
         Terminal, api, effects, PersistOr
  <1>8. QED
    BY <1>1, <1>3, <1>5, <1>6, <1>7, PartsNext, TaskStep, SameReqs

\* Refuse: the credit gate writes FAILED.
LEMMA RefuseStep ==
    ASSUME IInv, NEW w \in Workers, Refuse(w)
    PROVE  IInv'
  <1>1. RowsOK /\ ReqsOK /\ TaskOK /\ RestOK
    BY Parts
  <1>2. task[w] \in TaskRec /\ GoodTask(task[w], stored)
    BY <1>1 DEF TaskOK
  <1>3. UNCHANGED stored /\ UNCHANGED reqs
    BY DEF Refuse, api, effects
  <1>4. PICK t : t = [task[w] EXCEPT !.at = "refused"]
    OBVIOUS
  <1>5. t \in TaskRec /\ task' = [task EXCEPT ![w] = t] /\ GoodTask(t, stored')
    BY <1>1, <1>2, <1>3, <1>4 DEF Refuse, At, TaskOK, TaskRec, GoodTask, TaskSteps,
       Goto
  <1>6. RowsOK'
    <2>1. PICK job : job = task[w].ent
      OBVIOUS
    <2>2. UNCHANGED rows \/ Save(Own(w), job)
      BY <2>1 DEF Refuse, PersistOr
    <2>3. job \in Job /\ (job.status = "COMPLETED" => job.out /\ Own(w) \in stored)
      BY <1>2, <2>1 DEF TaskRec, GoodTask, Own, Job, Statuses
    <2>4. QED
      BY <1>1, <1>3, <2>2, <2>3, RowsStep DEF SaveOK
  <1>7. RestOK'
    <2>1. errors' \in 0..MaxErrors
      BY <1>1, ErrorStep DEF Refuse, PersistOr
    <2>2. QED
      BY <1>1, <1>2, <2>1 DEF Refuse, At, Own, RestOK, ChargeBacked, GoodTask,
         Terminal, api, effects, PersistOr
  <1>8. QED
    BY <1>1, <1>3, <1>5, <1>6, <1>7, PartsNext, TaskStep, SameReqs

\* Refused: the credit gate publishes FAILED.
LEMMA RefusedStep ==
    ASSUME IInv, NEW w \in Workers, Refused(w)
    PROVE  IInv'
  <1>1. RowsOK /\ ReqsOK /\ TaskOK /\ RestOK
    BY Parts
  <1>2. task[w] \in TaskRec /\ GoodTask(task[w], stored)
    BY <1>1 DEF TaskOK
  <1>3. UNCHANGED stored /\ UNCHANGED reqs
    BY DEF Refused, api, effects
  <1>4. PICK t : t = NoTask
    OBVIOUS
  <1>5. t \in TaskRec /\ task' = [task EXCEPT ![w] = t] /\ GoodTask(t, stored')
    BY <1>1, <1>2, <1>3, <1>4 DEF Refused, At, TaskOK, TaskRec, GoodTask, TaskSteps,
       NoTask, Job, Statuses, NewJob
  <1>6. RowsOK'
    BY <1>1, <1>3, RowsStep DEF Refused
  <1>7. RestOK'
    <2>1. errors' \in 0..MaxErrors
      BY <1>1, ErrorStep DEF Refused
    <2>2. QED
      BY <1>1, <1>2, <2>1 DEF Refused, At, Own, RestOK, ChargeBacked, GoodTask,
         Terminal, api, effects, ghosts
  <1>8. QED
    BY <1>1, <1>3, <1>5, <1>6, <1>7, PartsNext, TaskStep, SameReqs

\* RefusedError: that event could not be published.
LEMMA RefusedErrorStep ==
    ASSUME IInv, NEW w \in Workers, RefusedError(w)
    PROVE  IInv'
  <1>1. RowsOK /\ ReqsOK /\ TaskOK /\ RestOK
    BY Parts
  <1>2. task[w] \in TaskRec /\ GoodTask(task[w], stored)
    BY <1>1 DEF TaskOK
  <1>3. UNCHANGED stored /\ UNCHANGED reqs
    BY DEF RefusedError, api, effects
  <1>4. PICK t : t = [task[w] EXCEPT !.at = "download"]
    OBVIOUS
  <1>5. t \in TaskRec /\ task' = [task EXCEPT ![w] = t] /\ GoodTask(t, stored')
    BY <1>1, <1>2, <1>3, <1>4 DEF RefusedError, At, TaskOK, TaskRec, GoodTask,
       TaskSteps, Goto
  <1>6. RowsOK'
    BY <1>1, <1>3, RowsStep DEF RefusedError
  <1>7. RestOK'
    <2>1. errors' \in 0..MaxErrors
      BY <1>1, ErrorStep DEF RefusedError
    <2>2. QED
      BY <1>1, <1>2, <2>1 DEF RefusedError, At, RestOK, ChargeBacked, GoodTask,
         Terminal, api, effects, ghosts
  <1>8. QED
    BY <1>1, <1>3, <1>5, <1>6, <1>7, PartsNext, TaskStep, SameReqs

\* AnnounceError: a progress event could not be published.
LEMMA AnnounceErrorStep ==
    ASSUME IInv, NEW w \in Workers, AnnounceError(w)
    PROVE  IInv'
  <1>1. RowsOK /\ ReqsOK /\ TaskOK /\ RestOK
    BY Parts
  <1>2. task[w] \in TaskRec /\ GoodTask(task[w], stored)
    BY <1>1 DEF TaskOK
  <1>3. UNCHANGED stored /\ UNCHANGED reqs
    BY DEF AnnounceError, api, effects
  <1>4. PICK t : t = [task[w] EXCEPT !.at = "except"]
    OBVIOUS
  <1>5. t \in TaskRec /\ task' = [task EXCEPT ![w] = t] /\ GoodTask(t, stored')
    BY <1>1, <1>2, <1>3, <1>4 DEF AnnounceError, At, Phases, TaskOK, TaskRec,
       GoodTask, TaskSteps, Goto
  <1>6. RowsOK'
    BY <1>1, <1>3, RowsStep DEF AnnounceError
  <1>7. RestOK'
    <2>1. errors' \in 0..MaxErrors
      BY <1>1, ErrorStep DEF AnnounceError
    <2>2. QED
      BY <1>1, <1>2, <2>1 DEF AnnounceError, At, RestOK, ChargeBacked, GoodTask,
         Terminal, api, effects, ghosts, Phases
  <1>8. QED
    BY <1>1, <1>3, <1>5, <1>6, <1>7, PartsNext, TaskStep, SameReqs

\* WorkError: a phase fails for good.
LEMMA WorkErrorStep ==
    ASSUME IInv, NEW w \in Workers, WorkError(w)
    PROVE  IInv'
  <1>1. RowsOK /\ ReqsOK /\ TaskOK /\ RestOK
    BY Parts
  <1>2. task[w] \in TaskRec /\ GoodTask(task[w], stored)
    BY <1>1 DEF TaskOK
  <1>3. UNCHANGED stored /\ UNCHANGED reqs
    BY DEF WorkError, api, effects
  <1>4. PICK t : t = [task[w] EXCEPT !.at = "except"]
    OBVIOUS
  <1>5. t \in TaskRec /\ task' = [task EXCEPT ![w] = t] /\ GoodTask(t, stored')
    BY <1>1, <1>2, <1>3, <1>4 DEF WorkError, At, Phases, TaskOK, TaskRec, GoodTask,
       TaskSteps, Goto
  <1>6. RowsOK'
    BY <1>1, <1>3, RowsStep DEF WorkError
  <1>7. RestOK'
    <2>1. errors' \in 0..MaxErrors
      BY <1>1, ErrorStep DEF WorkError
    <2>2. QED
      BY <1>1, <1>2, <2>1 DEF WorkError, At, RestOK, ChargeBacked, GoodTask, Terminal,
         api, effects, ghosts, Phases
  <1>8. QED
    BY <1>1, <1>3, <1>5, <1>6, <1>7, PartsNext, TaskStep, SameReqs

\* Charge: credits are consumed: the job is complete, so its output is stored.
LEMMA ChargeStep ==
    ASSUME IInv, NEW w \in Workers, Charge(w)
    PROVE  IInv'
  <1>1. RowsOK /\ ReqsOK /\ TaskOK /\ RestOK
    BY Parts
  <1>2. task[w] \in TaskRec /\ GoodTask(task[w], stored)
    BY <1>1 DEF TaskOK
  <1>3. UNCHANGED stored /\ UNCHANGED reqs
    BY DEF Charge, api, effects
  <1>4. PICK t : t = [task[w] EXCEPT !.at = "saveDone"]
    OBVIOUS
  <1>5. t \in TaskRec /\ task' = [task EXCEPT ![w] = t] /\ GoodTask(t, stored')
    BY <1>1, <1>2, <1>3, <1>4 DEF Charge, At, TaskOK, TaskRec, GoodTask, TaskSteps,
       Goto
  <1>6. RowsOK'
    BY <1>1, <1>3, RowsStep DEF Charge
  <1>7. RestOK'
    <2>1. errors' \in 0..MaxErrors
      BY <1>1, ErrorStep DEF Charge
    <2>2. QED
      BY <1>1, <1>2, <2>1 DEF Charge, At, Own, RestOK, ChargeBacked, GoodTask,
         Terminal, api, effects, ghosts
  <1>8. QED
    BY <1>1, <1>3, <1>5, <1>6, <1>7, PartsNext, TaskStep, SameReqs

\* SaveDone: the completed row is written.
LEMMA SaveDoneStep ==
    ASSUME IInv, NEW w \in Workers, SaveDone(w)
    PROVE  IInv'
  <1>1. RowsOK /\ ReqsOK /\ TaskOK /\ RestOK
    BY Parts
  <1>2. task[w] \in TaskRec /\ GoodTask(task[w], stored)
    BY <1>1 DEF TaskOK
  <1>3. UNCHANGED stored /\ UNCHANGED reqs
    BY DEF SaveDone, api, effects
  <1>4. PICK t : t = [task[w] EXCEPT !.at = "publishDone"]
    OBVIOUS
  <1>5. t \in TaskRec /\ task' = [task EXCEPT ![w] = t] /\ GoodTask(t, stored')
    BY <1>1, <1>2, <1>3, <1>4 DEF SaveDone, At, TaskOK, TaskRec, GoodTask, TaskSteps,
       Goto
  <1>6. RowsOK'
    <2>1. PICK job : job = task[w].ent
      OBVIOUS
    <2>2. UNCHANGED rows \/ Save(Own(w), job)
      BY <2>1 DEF SaveDone, PersistOr
    <2>3. job \in Job /\ (job.status = "COMPLETED" => job.out /\ Own(w) \in stored)
      BY <1>2, <2>1 DEF TaskRec, GoodTask, Own, Job, Statuses
    <2>4. QED
      BY <1>1, <1>3, <2>2, <2>3, RowsStep DEF SaveOK
  <1>7. RestOK'
    <2>1. errors' \in 0..MaxErrors
      BY <1>1, ErrorStep DEF SaveDone, PersistOr
    <2>2. QED
      BY <1>1, <1>2, <2>1 DEF SaveDone, At, Own, RestOK, ChargeBacked, GoodTask,
         Terminal, api, effects, PersistOr
  <1>8. QED
    BY <1>1, <1>3, <1>5, <1>6, <1>7, PartsNext, TaskStep, SameReqs

\* PublishDone: the completed event is published.
LEMMA PublishDoneStep ==
    ASSUME IInv, NEW w \in Workers, PublishDone(w)
    PROVE  IInv'
  <1>1. RowsOK /\ ReqsOK /\ TaskOK /\ RestOK
    BY Parts
  <1>2. task[w] \in TaskRec /\ GoodTask(task[w], stored)
    BY <1>1 DEF TaskOK
  <1>3. UNCHANGED stored /\ UNCHANGED reqs
    BY DEF PublishDone, api, effects
  <1>4. PICK t : t = NoTask
    OBVIOUS
  <1>5. t \in TaskRec /\ task' = [task EXCEPT ![w] = t] /\ GoodTask(t, stored')
    BY <1>1, <1>2, <1>3, <1>4 DEF PublishDone, At, TaskOK, TaskRec, GoodTask,
       TaskSteps, NoTask, Job, Statuses, NewJob
  <1>6. RowsOK'
    BY <1>1, <1>3, RowsStep DEF PublishDone
  <1>7. RestOK'
    <2>1. errors' \in 0..MaxErrors
      BY <1>1, ErrorStep DEF PublishDone
    <2>2. QED
      BY <1>1, <1>2, <2>1 DEF PublishDone, At, Own, RestOK, ChargeBacked, GoodTask,
         Terminal, api, effects, ghosts
  <1>8. QED
    BY <1>1, <1>3, <1>5, <1>6, <1>7, PartsNext, TaskStep, SameReqs

\* PublishDoneError: that event could not be published.
LEMMA PublishDoneErrorStep ==
    ASSUME IInv, NEW w \in Workers, PublishDoneError(w)
    PROVE  IInv'
  <1>1. RowsOK /\ ReqsOK /\ TaskOK /\ RestOK
    BY Parts
  <1>2. task[w] \in TaskRec /\ GoodTask(task[w], stored)
    BY <1>1 DEF TaskOK
  <1>3. UNCHANGED stored /\ UNCHANGED reqs
    BY DEF PublishDoneError, api, effects
  <1>4. PICK t : t = [task[w] EXCEPT !.at = "except"]
    OBVIOUS
  <1>5. t \in TaskRec /\ task' = [task EXCEPT ![w] = t] /\ GoodTask(t, stored')
    BY <1>1, <1>2, <1>3, <1>4 DEF PublishDoneError, At, TaskOK, TaskRec, GoodTask,
       TaskSteps, Goto
  <1>6. RowsOK'
    BY <1>1, <1>3, RowsStep DEF PublishDoneError
  <1>7. RestOK'
    <2>1. errors' \in 0..MaxErrors
      BY <1>1, ErrorStep DEF PublishDoneError
    <2>2. QED
      BY <1>1, <1>2, <2>1 DEF PublishDoneError, At, Own, RestOK, ChargeBacked,
         GoodTask, Terminal, api, effects
  <1>8. QED
    BY <1>1, <1>3, <1>5, <1>6, <1>7, PartsNext, TaskStep, SameReqs

\* Except: the except clause writes FAILED.
LEMMA ExceptStep ==
    ASSUME IInv, NEW w \in Workers, Except(w)
    PROVE  IInv'
  <1>1. RowsOK /\ ReqsOK /\ TaskOK /\ RestOK
    BY Parts
  <1>2. task[w] \in TaskRec /\ GoodTask(task[w], stored)
    BY <1>1 DEF TaskOK
  <1>3. UNCHANGED stored /\ UNCHANGED reqs
    BY DEF Except, api, effects
  <1>4. PICK t : t = [task[w] EXCEPT !.at = "publishFailed", !.ent = MarkFailed(task[w].ent)]
    OBVIOUS
  <1>5. t \in TaskRec /\ task' = [task EXCEPT ![w] = t] /\ GoodTask(t, stored')
    BY <1>1, <1>2, <1>3, <1>4 DEF Except, At, TaskOK, TaskRec, GoodTask, TaskSteps,
       MarkFailed, Job, Statuses
  <1>6. RowsOK'
    <2>1. PICK job : job = MarkFailed(task[w].ent)
      OBVIOUS
    <2>2. UNCHANGED rows \/ Save(Own(w), job)
      BY <2>1 DEF Except, PersistOr
    <2>3. job \in Job /\ (job.status = "COMPLETED" => job.out /\ Own(w) \in stored)
      BY <1>2, <2>1 DEF TaskRec, GoodTask, Own, MarkFailed, Job, Statuses
    <2>4. QED
      BY <1>1, <1>3, <2>2, <2>3, RowsStep DEF SaveOK
  <1>7. RestOK'
    <2>1. errors' \in 0..MaxErrors
      BY <1>1, ErrorStep DEF Except, PersistOr
    <2>2. QED
      BY <1>1, <1>2, <2>1 DEF Except, At, Own, RestOK, ChargeBacked, GoodTask,
         Terminal, api, effects, PersistOr
  <1>8. QED
    BY <1>1, <1>3, <1>5, <1>6, <1>7, PartsNext, TaskStep, SameReqs

\* PublishFailed: the failed event is published, or not.
LEMMA PublishFailedStep ==
    ASSUME IInv, NEW w \in Workers, PublishFailed(w)
    PROVE  IInv'
  <1>1. RowsOK /\ ReqsOK /\ TaskOK /\ RestOK
    BY Parts
  <1>2. task[w] \in TaskRec /\ GoodTask(task[w], stored)
    BY <1>1 DEF TaskOK
  <1>3. UNCHANGED stored /\ UNCHANGED reqs
    BY DEF PublishFailed, api, effects
  <1>4. PICK t : t = NoTask
    OBVIOUS
  <1>5. t \in TaskRec /\ task' = [task EXCEPT ![w] = t] /\ GoodTask(t, stored')
    BY <1>1, <1>2, <1>3, <1>4 DEF PublishFailed, At, TaskOK, TaskRec, GoodTask,
       TaskSteps, NoTask, Job, Statuses, NewJob
  <1>6. RowsOK'
    BY <1>1, <1>3, RowsStep DEF PublishFailed
  <1>7. RestOK'
    <2>1. errors' \in 0..MaxErrors
      BY <1>1, ErrorStep DEF PublishFailed
    <2>2. QED
      BY <1>1, <1>2, <2>1 DEF PublishFailed, At, Own, RestOK, ChargeBacked, GoodTask,
         Terminal, api, effects, ghosts
  <1>8. QED
    BY <1>1, <1>3, <1>5, <1>6, <1>7, PartsNext, TaskStep, SameReqs

\* A pending entry, and the entry a worker has in hand, belongs to a job.
LEMMA MsgFact ==
    ASSUME Q!IInv
    PROVE  /\ \A e \in pel : Q!Msg(e)[1] \in Jobs
           /\ \A w \in Workers : pc[w] \in {"run", "reack"} => Q!Msg(cur[w])[1] \in Jobs
  <1>1. /\ pel \subseteq Q!Delivered
        /\ log \in [Q!Streams -> Seq(Publications)]
        /\ last \in [Q!Streams -> Nat]
    BY DEF Q!IInv, Q!TypeOK
  <1>2. \A w \in Workers : pc[w] \in {"run", "reack"} => cur[w] \in Q!Delivered
    BY DEF Q!IInv, Q!SettledFirst
  <1>3. \A e \in Q!Delivered : Q!Msg(e)[1] \in Jobs
    <2> SUFFICES ASSUME NEW e \in Q!Delivered PROVE Q!Msg(e)[1] \in Jobs
      OBVIOUS
    <2>1. e \in Q!Entries
      BY DEF Q!Delivered
    <2>2. PICK s \in Q!Streams : e \in {s} \X (1..Len(log[s]))
      BY <2>1 DEF Q!Entries
    <2>3. log[s] \in Seq(Publications) /\ e[1] = s /\ e[2] \in 1..Len(log[s])
      BY <1>1, <2>2
    <2>4. log[s][e[2]] \in Publications
      BY <2>3
    <2>5. QED
      BY <2>3, <2>4 DEF Q!Msg, Publications
  <1>4. QED
    BY <1>1, <1>2, <1>3

\* Crash: the process dies.
LEMMA CrashStep ==
    ASSUME IInv, Q!IInv, NEW w \in Workers, Crash(w)
    PROVE  IInv'
  <1>1. RowsOK /\ ReqsOK /\ TaskOK /\ RestOK
    BY Parts
  <1>2. PICK t : t = NoTask
    OBVIOUS
  <1>3. t \in TaskRec /\ GoodTask(t, stored')
    BY <1>2 DEF TaskRec, GoodTask, TaskSteps, NoTask, Job, Statuses, NewJob
  <1>4. task' = [task EXCEPT ![w] = t]
    BY <1>2 DEF Crash
  <1>5. UNCHANGED <<rows, reqs, pubs, stored, charges, events, errors, excused, taken>>
    BY DEF Crash, api, effects
  <1>6. risk' \subseteq Jobs
    BY <1>1, MsgFact DEF Crash, At, RestOK
  <1>7. RestOK'
    BY <1>1, <1>5, <1>6 DEF RestOK, ChargeBacked
  <1>8. QED
    BY <1>1, <1>3, <1>4, <1>5, <1>7, PartsNext, RowsStep, TaskStep, SameReqs

\* Load: the job is built from the message.
LEMMA LoadStep ==
    ASSUME IInv, Q!IInv, NEW w \in Workers, Load(w)
    PROVE  IInv'
  <1>1. RowsOK /\ ReqsOK /\ TaskOK /\ RestOK
    BY Parts
  <1>2. PICK j : j = Q!Msg(cur[w])[1]
    OBVIOUS
  <1>3. j \in Jobs
    BY <1>2, MsgFact DEF Load, At
  <1>4. PICK at \in {"replay", "start"} :
            task' = [task EXCEPT ![w] = [at |-> at, job |-> j, ent |-> BuildJob]]
    BY <1>2 DEF Load
  <1>5. PICK t : t = [at |-> at, job |-> j, ent |-> BuildJob]
    OBVIOUS
  <1>6. t \in TaskRec /\ GoodTask(t, stored')
    BY <1>3, <1>5 DEF TaskRec, GoodTask, TaskSteps, BuildJob, Job, Statuses, NewJob
  <1>7. UNCHANGED <<rows, reqs, pubs, stored, charges, events, excused, taken>>
    BY DEF Load, api, effects
  <1>8. RestOK'
    <2>1. errors' \in 0..MaxErrors
      BY <1>1, ErrorStep DEF Load
    <2>2. risk' \subseteq Jobs
      BY <1>1, <1>2, <1>3 DEF Load, RestOK
    <2>3. QED
      BY <1>1, <1>7, <2>1, <2>2 DEF RestOK, ChargeBacked
  <1>9. QED
    BY <1>1, <1>4, <1>5, <1>6, <1>7, <1>8, PartsNext, RowsStep, TaskStep, SameReqs

\* PreCheck: the credit gate decides.
LEMMA PreCheckStep ==
    ASSUME IInv, NEW w \in Workers, PreCheck(w)
    PROVE  IInv'
  <1>1. RowsOK /\ ReqsOK /\ TaskOK /\ RestOK
    BY Parts
  <1>2. task[w] \in TaskRec /\ GoodTask(task[w], stored) /\ task[w].at = "precheck"
    BY <1>1 DEF TaskOK, PreCheck, At
  <1>3. PICK t : /\ t \in {[task[w] EXCEPT !.at = "download"],
                           [task[w] EXCEPT !.at = "refuse", !.ent = MarkFailed(task[w].ent)]}
                 /\ task' = [task EXCEPT ![w] = t]
    BY <1>1 DEF PreCheck, Goto, TaskOK
  <1>4. UNCHANGED <<rows, reqs, pubs, stored, charges, events, errors, excused, risk, taken>>
    BY DEF PreCheck, api, effects, ghosts
  <1>5. t \in TaskRec /\ GoodTask(t, stored')
    <2>1. CASE t = [task[w] EXCEPT !.at = "download"]
      BY <1>2, <1>4, <2>1 DEF TaskRec, GoodTask, TaskSteps, Job, Statuses, MarkFailed
    <2>2. CASE t = [task[w] EXCEPT !.at = "refuse", !.ent = MarkFailed(task[w].ent)]
      BY <1>2, <1>4, <2>2 DEF TaskRec, GoodTask, TaskSteps, Job, Statuses, MarkFailed
    <2>3. QED
      BY <1>3, <2>1, <2>2
  <1>6. RestOK'
    BY <1>1, <1>4 DEF RestOK, ChargeBacked
  <1>7. QED
    BY <1>1, <1>3, <1>4, <1>5, <1>6, PartsNext, RowsStep, TaskStep, SameReqs

\* Announce: a phase writes the row.
LEMMA AnnounceStep ==
    ASSUME IInv, NEW w \in Workers, Announce(w)
    PROVE  IInv'
  <1>1. RowsOK /\ ReqsOK /\ TaskOK /\ RestOK
    BY Parts
  <1>2. task[w] \in TaskRec /\ GoodTask(task[w], stored)
    BY <1>1 DEF TaskOK
  <1>3. PICK p \in Phases : At(w, p[1]) /\ PersistOr(w, task[w].ent, FALSE) /\ Goto(w, p[2])
    BY DEF Announce
  <1>4. PICK t : t = [task[w] EXCEPT !.at = p[2]]
    OBVIOUS
  <1>5. UNCHANGED <<reqs, pubs, stored, charges, events, risk, taken>>
    BY DEF Announce, api, effects
  <1>6. t \in TaskRec /\ GoodTask(t, stored')
    BY <1>2, <1>3, <1>4, <1>5 DEF At, Phases, TaskRec, GoodTask, TaskSteps
  <1>7. task' = [task EXCEPT ![w] = t]
    BY <1>1, <1>3, <1>4 DEF Goto, TaskOK
  <1>8. RowsOK'
    <2>1. UNCHANGED rows \/ Save(Own(w), task[w].ent)
      BY <1>3 DEF PersistOr
    <2>2. QED
      BY <1>1, <1>2, <1>5, <2>1, RowsStep DEF SaveOK, TaskRec, GoodTask, Own
  <1>9. RestOK'
    <2>1. errors' \in 0..MaxErrors /\ excused' \subseteq Jobs
      BY <1>1, <1>3, ErrorStep DEF PersistOr, RestOK
    <2>2. QED
      BY <1>1, <1>5, <2>1 DEF RestOK, ChargeBacked
  <1>10. QED
    BY <1>1, <1>5, <1>6, <1>7, <1>8, <1>9, PartsNext, TaskStep, SameReqs

\* Prepare: download and conversion.
LEMMA PrepareStep ==
    ASSUME IInv, NEW w \in Workers, Prepare(w)
    PROVE  IInv'
  <1>1. RowsOK /\ ReqsOK /\ TaskOK /\ RestOK
    BY Parts
  <1>2. task[w] \in TaskRec /\ GoodTask(task[w], stored) /\ task[w].at # "load"
    BY <1>1 DEF TaskOK, Prepare, At
  <1>3. PICK at \in {"convert", "upload"} : Goto(w, at)
    BY DEF Prepare
  <1>4. PICK t : t = [task[w] EXCEPT !.at = at]
    OBVIOUS
  <1>5. UNCHANGED <<rows, reqs, pubs, stored, charges, events, errors, excused, risk, taken>>
    BY DEF Prepare, api, effects, ghosts
  <1>6. t \in TaskRec /\ GoodTask(t, stored') /\ task' = [task EXCEPT ![w] = t]
    BY <1>1, <1>2, <1>3, <1>4, <1>5 DEF TaskRec, GoodTask, TaskSteps, Goto, TaskOK
  <1>7. RestOK'
    BY <1>1, <1>5 DEF RestOK, ChargeBacked
  <1>8. QED
    BY <1>1, <1>5, <1>6, <1>7, PartsNext, RowsStep, TaskStep, SameReqs

\* Upload: the output is stored and the job completed.
LEMMA UploadStep ==
    ASSUME IInv, NEW w \in Workers, Upload(w)
    PROVE  IInv'
  <1>1. RowsOK /\ ReqsOK /\ TaskOK /\ RestOK
    BY Parts
  <1>2. task[w] \in TaskRec /\ GoodTask(task[w], stored) /\ task[w].at = "uploading"
    BY <1>1 DEF TaskOK, Upload, At
  <1>3. /\ UNCHANGED <<rows, reqs, pubs, charges, events, errors, excused, risk, taken>>
        /\ stored' = stored \cup {task[w].job}
    BY DEF Upload, api, ghosts, Own
  <1>4. PICK t : /\ t \in {[task[w] EXCEPT !.at = "charge", !.ent = Complete(task[w].ent)],
                           [task[w] EXCEPT !.at = "except"]}
                 /\ task' = [task EXCEPT ![w] = t]
    BY <1>1 DEF Upload, Goto, TaskOK
  <1>5. t \in TaskRec /\ GoodTask(t, stored')
    <2>1. CASE t = [task[w] EXCEPT !.at = "charge", !.ent = Complete(task[w].ent)]
      BY <1>2, <1>3, <2>1 DEF TaskRec, GoodTask, TaskSteps, Job, Statuses, Complete
    <2>2. CASE t = [task[w] EXCEPT !.at = "except"]
      BY <1>2, <1>3, <2>2 DEF TaskRec, GoodTask, TaskSteps, Job, Statuses, Complete
    <2>3. QED
      BY <1>4, <2>1, <2>2
  <1>6. RestOK'
    BY <1>1, <1>2, <1>3 DEF RestOK, ChargeBacked, GoodTask
  <1>7. QED
    BY <1>1, <1>3, <1>4, <1>5, <1>6, PartsNext, RowsStep, TaskStep, SameReqs

\* A step that changes neither rows nor copies nor effects.
LEMMA QuietStep ==
    ASSUME IInv, UNCHANGED pipeline, risk' \subseteq Jobs, taken' \subseteq Jobs
    PROVE  IInv'
  <1>1. RowsOK /\ ReqsOK /\ TaskOK /\ RestOK
    BY Parts
  <1>2. UNCHANGED <<rows, reqs, pubs, task, stored, charges, events, errors, excused>>
    BY DEF pipeline, api, effects
  <1>3. RestOK'
    BY <1>1, <1>2 DEF RestOK, ChargeBacked
  <1>4. QED
    BY <1>1, <1>2, <1>3, PartsNext, RowsStep, SameTask, SameReqs

\* The steps of the worker loop outside process_job.
LEMMA QueueOnlyStep ==
    ASSUME IInv, Q!IInv, NEW w \in Workers, QueueStep(w) \/ QueueError(w) \/ Duplicate(w)
    PROVE  IInv'
  <1>1. risk \subseteq Jobs /\ taken \subseteq Jobs
    BY DEF IInv, TypeOK
  <1>2. CASE QueueStep(w) \/ QueueError(w)
    BY <1>1, <1>2, QuietStep DEF QueueStep, QueueError
  <1>3. CASE Duplicate(w)
    <2>1. pc[w] = "reack" => Q!Msg(cur[w])[1] \in Jobs
      BY MsgFact
    <2>2. \A idle \in SUBSET pel : {Q!Msg(e)[1] : e \in idle} \subseteq Jobs
      BY MsgFact
    <2>3. risk' \subseteq Jobs /\ taken' \subseteq Jobs
      BY <1>1, <1>3, <2>1, <2>2 DEF Duplicate, Q!RequeueAckError
    <2>4. QED
      BY <1>3, <2>3, QuietStep DEF Duplicate
  <1>4. QED
    BY <1>2, <1>3

\* A request starts with a backed copy of the row.
LEMMA BeginStep ==
    ASSUME IInv, NEW r \in Requests, NEW j \in Jobs, NEW at \in ReqSteps \ {"idle"},
           NEW copy \in Job, Backed(copy, j), Begin(r, j, at, copy), RowsOK'
    PROVE  IInv'
  <1>1. RowsOK /\ ReqsOK /\ TaskOK /\ RestOK
    BY Parts
  <1>2. PICK q : q = [at |-> at, job |-> j, copy |-> copy]
    OBVIOUS
  <1>3. /\ reqs' = [reqs EXCEPT ![r] = q]
        /\ UNCHANGED <<pubs, task, stored, charges, events, errors, excused, risk, taken>>
    BY <1>2 DEF Begin, effects, ghosts
  <1>4. q \in ReqRec /\ GoodReq(q, stored')
    BY <1>2, <1>3 DEF ReqRec, GoodReq, Backed
  <1>5. RestOK'
    BY <1>1, <1>3 DEF RestOK, ChargeBacked
  <1>6. QED
    BY <1>1, <1>3, <1>4, <1>5, PartsNext, ReqStep, SameTask

\* The requests that start by reading the row.
LEMMA ReadStep ==
    ASSUME IInv, NEW r \in Requests, NEW j \in Jobs,
           VerifyRead(r, j) \/ GuestVerifyRead(r, j) \/ RetryRead(r, j)
    PROVE  IInv'
  <1>1. RowsOK /\ rows[j] \in Job /\ Backed(rows[j], j)
    BY Parts DEF RowsOK
  <1>2. UNCHANGED rows /\ UNCHANGED stored
    BY DEF VerifyRead, GuestVerifyRead, RetryRead, Begin, effects
  <1>3. RowsOK'
    BY <1>1, <1>2, RowsStep
  <1>4. CASE VerifyRead(r, j)
    <2>1. PICK copy : copy = [rows[j] EXCEPT !.key = TRUE]
      OBVIOUS
    <2>2. copy \in Job /\ Backed(copy, j)
      BY <1>1, <2>1 DEF Job, Backed
    <2>3. QED
      BY <1>3, <1>4, <2>1, <2>2, BeginStep DEF VerifyRead, ReqSteps
  <1>5. CASE GuestVerifyRead(r, j)
    <2>1. PICK job : job = [rows[j] EXCEPT !.key = TRUE]
      OBVIOUS
    <2>2. job \in Job /\ Backed(job, j)
      BY <1>1, <2>1 DEF Job, Backed
    <2>3. PICK copy : copy = Pushed(job)
      OBVIOUS
    <2>4. copy \in Job /\ Backed(copy, j)
      BY <2>2, <2>3 DEF Pushed, PendingProcessing, Job, Statuses, Backed
    <2>5. PICK at : at = PushStep(job)
      OBVIOUS
    <2>6. at \in ReqSteps \ {"idle"}
      BY <2>5 DEF PushStep, ReqSteps
    <2>7. Begin(r, j, at, copy)
      BY <1>5, <2>1, <2>3, <2>5 DEF GuestVerifyRead
    <2>8. QED
      BY <1>3, <2>4, <2>6, <2>7, BeginStep
  <1>6. CASE RetryRead(r, j)
    <2>1. PICK copy : copy = Retry(rows[j])
      OBVIOUS
    <2>2. copy \in Job /\ Backed(copy, j)
      BY <1>1, <2>1 DEF Retry, Job, Statuses, Backed
    <2>3. QED
      BY <1>3, <1>6, <2>1, <2>2, BeginStep DEF RetryRead, ReqSteps
  <1>7. QED
    BY <1>4, <1>5, <1>6

\* A new row is not completed.
LEMMA InsertFact ==
    ASSUME RowsOK, NEW j \in Jobs, NEW hasKey \in BOOLEAN, stored \subseteq stored',
           rows' = [rows EXCEPT ![j] = Awaiting(hasKey)]
    PROVE  RowsOK'
  <1>1. Awaiting(hasKey) \in Job /\ Awaiting(hasKey).status = "AWAITING_UPLOAD"
    BY DEF Awaiting, NewJob, Job, Statuses
  <1>2. QED
    BY <1>1 DEF RowsOK, Backed

\* The requests that start by inserting the row.
LEMMA InsertStep ==
    ASSUME IInv, NEW r \in Requests, NEW j \in Jobs, LibraryCreate(r, j) \/ BatchCreate(r, j)
    PROVE  IInv'
  <1>1. RowsOK
    BY Parts
  <1>2. UNCHANGED stored /\ rows' = [rows EXCEPT ![j] = Awaiting(TRUE)]
    BY DEF LibraryCreate, BatchCreate, Begin, effects
  <1>3. RowsOK'
    BY <1>1, <1>2, InsertFact
  <1>4. PICK copy : copy = PendingProcessing(Awaiting(TRUE))
    OBVIOUS
  <1>5. copy \in Job /\ Backed(copy, j)
    BY <1>4 DEF PendingProcessing, Awaiting, NewJob, Job, Statuses, Backed
  <1>6. PICK at \in {"pend", "pendItem"} : Begin(r, j, at, copy)
    BY <1>4 DEF LibraryCreate, BatchCreate
  <1>7. at \in ReqSteps \ {"idle"}
    BY DEF ReqSteps
  <1>8. QED
    BY <1>3, <1>5, <1>6, <1>7, BeginStep

\* A request writes its copy of the row back.
LEMMA RequestWriteStep ==
    ASSUME IInv, NEW r \in Requests, Update(r) \/ Pend(r) \/ Stamp(r)
    PROVE  IInv'
  <1>1. RowsOK /\ ReqsOK /\ TaskOK /\ RestOK
    BY Parts
  <1>2. /\ reqs[r] \in ReqRec /\ GoodReq(reqs[r], stored) /\ reqs[r].at # "idle"
    BY <1>1 DEF ReqsOK, Update, Pend, Stamp
  <1>3. UNCHANGED <<pubs, task, stored, charges, events, errors, excused, risk, taken>>
    BY DEF Update, Pend, Stamp, effects, ghosts
  <1>4. RowsOK'
    <2>1. SaveOK(reqs[r].job, reqs[r].copy)
      BY <1>2 DEF SaveOK, ReqRec, GoodReq, Update, Pend, Stamp
    <2>2. QED
      BY <1>1, <1>3, <2>1, RowsStep
  <1>5. PICK q : /\ reqs' = [reqs EXCEPT ![r] = q]
                 /\ \/ q = [reqs[r] EXCEPT !.at = PushStep(reqs[r].copy),
                                            !.copy = Pushed(reqs[r].copy)]
                    \/ q = [reqs[r] EXCEPT !.at = "publish"]
                    \/ q = [reqs[r] EXCEPT !.at = "publishItem"]
                    \/ q = NoReq
    BY <1>1 DEF Update, Pend, Stamp, ReqsOK
  <1>6. q \in ReqRec /\ GoodReq(q, stored')
    <2>1. CASE q = [reqs[r] EXCEPT !.at = PushStep(reqs[r].copy),
                                   !.copy = Pushed(reqs[r].copy)]
      <3>1. PICK copy : copy = reqs[r].copy
        OBVIOUS
      <3>2. copy \in Job /\ (copy.status = "COMPLETED" => copy.out /\ reqs[r].job \in stored)
        BY <1>2, <3>1 DEF ReqRec, GoodReq
      <3>3. /\ Pushed(copy) \in Job
            /\ Pushed(copy).status = "COMPLETED" => Pushed(copy).out /\ reqs[r].job \in stored
        BY <3>2 DEF Pushed, PendingProcessing, Job, Statuses
      <3>4. PushStep(copy) \in ReqSteps
        BY DEF PushStep, ReqSteps
      <3>5. QED
        BY <1>2, <1>3, <2>1, <3>1, <3>3, <3>4 DEF ReqRec, GoodReq
    <2>2. CASE q = [reqs[r] EXCEPT !.at = "publish"] \/ q = [reqs[r] EXCEPT !.at = "publishItem"]
      BY <1>2, <1>3, <2>2 DEF ReqRec, GoodReq, ReqSteps
    <2>3. CASE q = NoReq
      BY <2>3 DEF NoReq, NewJob, ReqRec, GoodReq, ReqSteps, Job, Statuses
    <2>4. QED
      BY <1>5, <2>1, <2>2, <2>3
  <1>7. RestOK'
    BY <1>1, <1>3 DEF RestOK, ChargeBacked
  <1>8. QED
    BY <1>1, <1>3, <1>4, <1>5, <1>6, <1>7, PartsNext, ReqStep, SameTask

\* A request publishes the job, or fails.
LEMMA RequestEndStep ==
    ASSUME IInv, NEW r \in Requests,
           RequestError(r) \/ \E s \in Q!Streams : PublishJob(r, s)
    PROVE  IInv'
  <1>1. RowsOK /\ ReqsOK /\ TaskOK /\ RestOK
    BY Parts
  <1>2. /\ reqs[r] \in ReqRec /\ GoodReq(reqs[r], stored)
        /\ UNCHANGED <<rows, task, stored, charges, events, risk, taken>>
    BY <1>1 DEF ReqsOK, RequestError, PublishJob, effects, ghosts
  <1>3. PICK q : /\ reqs' = [reqs EXCEPT ![r] = q]
                 /\ \/ q = NoReq
                    \/ /\ q = [reqs[r] EXCEPT !.at = "stamp", !.copy.batch = TRUE]
                       /\ reqs[r].at = "publishItem"
    BY <1>1 DEF RequestError, PublishJob, ReqsOK
  <1>4. q \in ReqRec /\ GoodReq(q, stored')
    <2>1. CASE q = NoReq
      BY <2>1 DEF NoReq, NewJob, ReqRec, GoodReq, ReqSteps, Job, Statuses
    <2>2. CASE q = [reqs[r] EXCEPT !.at = "stamp", !.copy.batch = TRUE] /\ reqs[r].at = "publishItem"
      BY <1>2, <2>2 DEF ReqRec, GoodReq, ReqSteps, Job
    <2>3. QED
      BY <1>3, <2>1, <2>2
  <1>5. errors' \in 0..MaxErrors
    BY <1>1, ErrorStep DEF RequestError, PublishJob
  <1>6. excused' \subseteq Jobs /\ pubs' \in [Jobs -> Nat]
    <2>1. CASE RequestError(r)
      <3>1. reqs[r].at # "idle"
        BY <2>1, <1>2 DEF RequestError
      <3>2. QED
        BY <1>1, <1>2, <2>1, <3>1 DEF RequestError, RestOK, GoodReq
    <2>2. CASE \E s \in Q!Streams : PublishJob(r, s)
      <3>1. PICK j \in Jobs : pubs' = [pubs EXCEPT ![j] = @ + 1]
        BY <1>2, <2>2 DEF PublishJob, GoodReq
      <3>2. QED
        BY <1>1, <2>2, <3>1 DEF PublishJob, RestOK, ghosts
    <2>3. QED
      BY <2>1, <2>2
  <1>7. RestOK'
    BY <1>1, <1>2, <1>5, <1>6 DEF RestOK, ChargeBacked
  <1>8. QED
    BY <1>1, <1>2, <1>3, <1>4, <1>7, PartsNext, RowsStep, ReqStep, SameTask

\* The requests that are a single statement.
LEMMA ClientStep ==
    ASSUME IInv, (\E j \in Jobs : CreateJob(j) \/ DeleteJob(j)) \/ DeleteHistoryRange
    PROVE  IInv'
  <1>1. RowsOK /\ ReqsOK /\ TaskOK /\ RestOK
    BY Parts
  <1>2. UNCHANGED <<reqs, pubs, task, stored, charges, events, errors, excused, risk, taken>>
    BY DEF CreateJob, DeleteJob, DeleteHistoryRange, api, effects, ghosts
  <1>3. PICK gone : gone = [NewJob EXCEPT !.status = "DELETED"]
    OBVIOUS
  <1>4. gone \in Job /\ gone.status # "COMPLETED"
    BY <1>3 DEF NewJob, Job, Statuses
  <1>5. RowsOK'
    <2>1. CASE \E j \in Jobs : CreateJob(j)
      BY <1>1, <1>2, <2>1, InsertFact DEF CreateJob
    <2>2. CASE \E j \in Jobs : DeleteJob(j)
      BY <1>1, <1>2, <1>3, <1>4, <2>2 DEF DeleteJob, RowsOK, Backed
    <2>3. CASE DeleteHistoryRange
      BY <1>1, <1>2, <1>3, <1>4, <2>3 DEF DeleteHistoryRange, RowsOK, Backed
    <2>4. QED
      BY <2>1, <2>2, <2>3
  <1>6. RestOK'
    BY <1>1, <1>2 DEF RestOK, ChargeBacked
  <1>7. QED
    BY <1>1, <1>2, <1>5, <1>6, PartsNext, SameTask, SameReqs

\* IInv holds initially.
LEMMA InitStep ==
    ASSUME Init
    PROVE  IInv
  <1>1. NewJob \in Job /\ NewJob.status = "NEW"
    BY DEF NewJob, Job, Statuses
  <1>2. RowsOK
    BY <1>1 DEF Init, RowsOK, Backed
  <1>3. ReqsOK
    BY <1>1 DEF Init, ReqsOK, NoReq, ReqRec, ReqSteps, GoodReq
  <1>4. TaskOK
    BY <1>1 DEF Init, TaskOK, NoTask, TaskRec, TaskSteps, GoodTask
  <1>5. RestOK
    BY PipelineAssumption DEF PipelineAssumption, Init, RestOK, ChargeBacked
  <1>6. QED
    BY <1>2, <1>3, <1>4, <1>5, Parts

\* What a worker does, whichever step it is at.
LEMMA WorkerStep ==
    ASSUME IInv, Q!IInv, NEW w \in Workers,
           \/ Process(w) \/ ProcessError(w)
           \/ QueueStep(w) \/ QueueError(w) \/ Duplicate(w) \/ Crash(w)
    PROVE  IInv'
  <1>1. CASE Process(w)
    BY <1>1, LoadStep, ReplayStep, StartStep, PreCheckStep, RefuseStep, RefusedStep,
       AnnounceStep, PrepareStep, UploadStep, WorkErrorStep, ChargeStep, SaveDoneStep,
       PublishDoneStep, ExceptStep, PublishFailedStep DEF Process
  <1>2. CASE ProcessError(w)
    BY <1>2, ReplayErrorStep, RefusedErrorStep, AnnounceErrorStep, PublishDoneErrorStep
       DEF ProcessError
  <1>3. CASE QueueStep(w) \/ QueueError(w) \/ Duplicate(w)
    BY <1>3, QueueOnlyStep
  <1>4. CASE Crash(w)
    BY <1>4, CrashStep
  <1>5. QED
    BY <1>1, <1>2, <1>3, <1>4

\* IInv is inductive, given the invariant of the queue.
LEMMA NextStep ==
    ASSUME IInv, Q!IInv, [Next]_vars
    PROVE  IInv'
  <1>1. CASE (\E j \in Jobs : CreateJob(j) \/ DeleteJob(j)) \/ DeleteHistoryRange
    BY <1>1, ClientStep
  <1>2. ASSUME NEW r \in Requests, Request(r) PROVE IInv'
    BY <1>2, ReadStep, InsertStep, RequestEndStep DEF Request
  <1>3. ASSUME NEW r \in Requests, RequestStep(r) PROVE IInv'
    BY <1>3, RequestWriteStep, RequestEndStep DEF RequestStep
  <1>4. ASSUME NEW w \in Workers,
               \/ Process(w) \/ ProcessError(w)
               \/ QueueStep(w) \/ QueueError(w) \/ Duplicate(w) \/ Crash(w)
        PROVE  IInv'
    BY <1>4, WorkerStep
  <1>5. CASE UNCHANGED vars
    <2>1. UNCHANGED pipeline /\ UNCHANGED <<risk, taken>>
      BY <1>5 DEF vars, pipeline, api, effects, ghosts
    <2>2. QED
      BY <2>1, QuietStep DEF IInv, TypeOK
  <1>6. QED
    BY <1>1, <1>2, <1>3, <1>4, <1>5 DEF Next

------------------------------------------------------------------------------
(* The pipeline uses the queue by its rules *)

\* Every step of the pipeline is a step of the queue, or none of its business.
LEMMA QueueRules ==
    ASSUME IInv, [Next]_vars
    PROVE  [Q!Next]_(Q!vars)
  <1>1. UNCHANGED <<queue, faults>> => UNCHANGED Q!vars
    BY DEF queue, Q!vars, Q!redis, Q!loop, Q!history
  <1>2. CASE UNCHANGED vars
    BY <1>1, <1>2 DEF vars
  <1>3. CASE (\E j \in Jobs : CreateJob(j) \/ DeleteJob(j)) \/ DeleteHistoryRange
    BY <1>1, <1>3 DEF CreateJob, DeleteJob, DeleteHistoryRange
  <1>4. ASSUME NEW r \in Requests, Request(r) PROVE UNCHANGED <<queue, faults>>
    BY <1>4 DEF Request, VerifyRead, GuestVerifyRead, LibraryCreate, BatchCreate,
                RetryRead, RequestError, Begin
  <1>5. ASSUME NEW r \in Requests, RequestStep(r)
        PROVE  UNCHANGED <<queue, faults>> \/ Q!Next
    <2>1. CASE Update(r) \/ Pend(r) \/ Stamp(r)
      BY <2>1 DEF Update, Pend, Stamp
    <2>2. ASSUME NEW s \in Q!Streams, PublishJob(r, s) PROVE Q!Next
      <3>1. PICK j : j = reqs[r].job
        OBVIOUS
      <3>2. j \in Jobs
        BY <2>2, <3>1 DEF IInv, Busy, PublishJob
      <3>3. pubs[j] + 1 \in Nat
        BY <3>2 DEF IInv, TypeOK
      <3>4. PICK m : m = <<j, pubs[j] + 1>>
        OBVIOUS
      <3>5. m \in Publications /\ Q!Publish(m, s)
        BY <2>2, <3>1, <3>2, <3>3, <3>4 DEF PublishJob, Publications
      <3>6. QED
        BY <3>5 DEF Q!Next
    <2>3. QED
      BY <1>5, <2>1, <2>2 DEF RequestStep
  <1>6. ASSUME NEW w \in Workers,
               \/ Process(w) \/ ProcessError(w)
               \/ QueueStep(w) \/ QueueError(w) \/ Duplicate(w) \/ Crash(w)
        PROVE  UNCHANGED <<queue, faults>> \/ Q!Next
    <2>1. CASE Process(w)
      <3>1. \/ UNCHANGED <<queue, faults>> \/ Q!Finish(w) \/ Q!Raise(w)
        BY <2>1 DEF Process, Load, Replay, Start, PreCheck, Refuse, Refused, Announce,
           Prepare, Upload, WorkError, Charge, SaveDone, PublishDone, Except, PublishFailed
      <3>2. QED
        BY <3>1 DEF Q!Next, Q!Settle
    <2>2. CASE ProcessError(w)
      <3>1. UNCHANGED <<queue, faults>> \/ Q!Raise(w)
        BY <2>2 DEF ProcessError, ReplayError, RefusedError, AnnounceError, PublishDoneError
      <3>2. QED
        BY <3>1 DEF Q!Next, Q!Settle
    <2>3. CASE QueueStep(w)
      BY <2>3 DEF QueueStep, Q!Next, Q!Settle
    <2>4. CASE QueueError(w) \/ Duplicate(w) \/ Crash(w)
      BY <2>4 DEF QueueError, Duplicate, Crash, Q!Next, Q!Failure
    <2>5. QED
      BY <1>6, <2>1, <2>2, <2>3, <2>4
  <1>7. QED
    BY <1>1, <1>2, <1>3, <1>4, <1>5, <1>6 DEF Next

------------------------------------------------------------------------------
(* Theorems *)

\* The invariants of the pipeline and of the queue hold together.
THEOREM Invariance == Spec => [](IInv /\ Q!IInv)
  <1>1. Init => IInv /\ Q!IInv
    BY InitStep, QueueInit DEF Init
  <1>2. IInv /\ Q!IInv /\ [Next]_vars => IInv' /\ Q!IInv'
    BY NextStep, QueueRules, QueueInductive
  <1>3. QED
    BY <1>1, <1>2, PTL DEF Spec

\* A COMPLETED row names an output that is in storage, whatever requests and
\* workers write stale copies of the row.
THEOREM OutputBackedTheorem == Spec => []OutputBacked
  <1>1. IInv => OutputBacked
    BY DEF IInv, CopiesBacked, Backed, OutputBacked
  <1>2. QED
    BY <1>1, Invariance, PTL

\* Credits are consumed only for owned jobs whose output was stored.
THEOREM ChargeBackedTheorem == Spec => []ChargeBacked
  <1>1. IInv => ChargeBacked
    BY DEF IInv
  <1>2. QED
    BY <1>1, Invariance, PTL

\* API, workers and queue together behave as the queue does, so a published job
\* is processed to the end or still in the queue.
THEOREM UsesQueue == Spec => Q!Spec
  <1>1. Init => Q!Init
    BY DEF Init
  <1>2. IInv /\ [Next]_vars => [Q!Next]_(Q!vars)
    BY QueueRules
  <1>3. QED
    BY <1>1, <1>2, Invariance, PTL DEF Spec, Q!Spec

\* No published job is lost, in the pipeline as in the queue alone.
THEOREM JobsNotLost == Spec => []Q!NoLoss
  <1>1. Q!IInv => Q!NoLoss
    BY DEF Q!IInv, Q!Recoverable, Q!NoLoss, Q!Live
  <1>2. QED
    BY <1>1, Invariance, PTL
------------------------------------------------------------------------------
(* The queue's lemmas, step by step *)

\* The steps of a worker at the queue, under either name.
WorkerSteps(w) == Q!Fetch(w) \/ Q!Settle(w) \/ Q!Sweep(w) \/ Q!Failure(w)

\* The two instances agree on every step.
LEMMA SameSteps ==
    /\ \A w : WorkerSteps(w) <=> QP!WorkerNext(w)
    /\ \A m, s : Q!Publish(m, s) <=> QP!Publish(m, s)
BY DEF WorkerSteps, QP!WorkerNext, Q!Publish, QP!Publish, Q!Add, QP!Add, Q!Fetch,
       QP!Fetch, Q!FetchBuffered, QP!FetchBuffered, Q!FetchNew,
       QP!FetchNew, Q!FetchNone, QP!FetchNone, Q!Start, QP!Start,
       Q!Deliver, QP!Deliver, Q!Undelivered, QP!Undelivered,
       Q!NextDelivery, QP!NextDelivery, Q!Settle, QP!Settle, Q!Finish,
       QP!Finish, Q!Raise, QP!Raise, Q!DeadLetter, QP!DeadLetter,
       Q!Acknowledge, QP!Acknowledge, Q!Sweep, QP!Sweep, Q!Autoclaim,
       QP!Autoclaim, Q!Claim, QP!Claim, Q!RequeueAdd, QP!RequeueAdd,
       Q!RequeueAck, QP!RequeueAck, Q!SweepOn, QP!SweepOn, Q!Failure,
       QP!Failure, Q!FetchLost, QP!FetchLost, Q!DeadLetterError,
       QP!DeadLetterError, Q!AcknowledgeError, QP!AcknowledgeError,
       Q!AutoclaimLive, QP!AutoclaimLive, Q!RequeueAddError,
       QP!RequeueAddError, Q!RequeueAckError, QP!RequeueAckError,
       Q!Crash, QP!Crash, Q!Fault, QP!Fault, Q!Release, QP!Release,
       Q!Held, QP!Held, Q!Orphans, QP!Orphans, Q!Pending, QP!Pending,
       Q!redis, QP!redis, Q!loop, QP!loop, Q!history, QP!history,
       Q!Streams, QP!Streams, Q!NoEntry, QP!NoEntry,
       Q!Entries, QP!Entries, Q!Delivered,
       QP!Delivered, Q!Available, QP!Available, Q!Published,
       QP!Published, Q!Msg, QP!Msg

\* What a queue step of a worker leaves alone.
LEMMA QueueFrame ==
    ASSUME Q!IInv, NEW w \in Workers, WorkerSteps(w)
    PROVE  /\ \A e \in Q!Entries : Q!Msg(e)' = Q!Msg(e)
           /\ Q!Published' = Q!Published
           /\ \A v \in Workers \ {w} : pc'[v] = pc[v] /\ cur'[v] = cur[v]
  <1>1. QP!IInv /\ QP!WorkerNext(w)
    BY SameInv, SameSteps
  <1>2. /\ \A e \in QP!Entries : QP!Msg(e)' = QP!Msg(e)
        /\ QP!Published' = QP!Published
        /\ \A v \in Workers \ {w} : pc'[v] = pc[v] /\ cur'[v] = cur[v]
    BY <1>1, QP!WorkerFrame, StreamConstants
  <1>3. \A e : Q!Msg(e)' = QP!Msg(e)'
    BY DEF Q!Msg, QP!Msg
  <1>4. Q!Published' = QP!Published'
    BY DEF Q!Published, QP!Published, Q!Entries, QP!Entries, Q!Msg, QP!Msg, Q!Streams, QP!Streams
  <1>5. QED
    BY <1>2, <1>3, <1>4, SameEntries
------------------------------------------------------------------------------
(* The second invariant: who still has a job in hand, and what it was charged *)

\* The messages of a job.
Of(j) == {j} \X Nat

\* A message bears the number of its publication.
Numbered == \A m \in Q!Published : m[2] \in 1..pubs[m[1]]
\* A job is inserted before a request takes it up.
Inserted ==
    \A j \in Jobs :
        rows[j].status = "NEW" => pubs[j] = 0 /\ \A r \in Requests : reqs[r].job # j
\* Requests end with the publication, and bring no deleted row back.
Plain ==
    \A r \in Requests :
        /\ reqs[r].at \in {"idle", "update", "pend", "publish"}
        /\ reqs[r].at = "idle" <=> reqs[r].job = NoJob
        /\ reqs[r].at # "idle" => reqs[r].copy.status \notin {"NEW", "DELETED"}
\* process_job works on the job of the entry in hand.
GoodWork(t, p, k) ==
    /\ t.at = "load" <=> t.job = NoJob
    /\ t.at # "load" => p = "run" /\ t.job = k /\ t.ent.status \notin {"NEW", "DELETED"}
    /\ t.at = "refuse" => t.ent.status = "FAILED"
    /\ t.at \in {"charge", "saveDone"} => t.ent.status = "COMPLETED"
    /\ t.ent.status = "COMPLETED" => t.at \in {"charge", "saveDone", "publishDone", "except"}
InWork(w) == Q!Msg(cur[w])[1]
Tied == \A w \in Workers : GoodWork(task[w], pc[w], InWork(w))

\* A step of process_job within a job: the row it may write is the job's own.
Works(w) ==
    /\ UNCHANGED <<queue, faults, reqs, pubs>>
    /\ pc[w] = "run" /\ InWork(w) \in Jobs
    /\ task' \in [Workers -> TaskRec]
    /\ \A v \in Workers \ {w} : task'[v] = task[v]
    /\ task'[w].at # "load" /\ GoodWork(task'[w], "run", InWork(w))
    /\ risk \subseteq risk' /\ excused \subseteq excused' /\ taken' = taken
    /\ \A j \in Jobs \ {InWork(w)} : rows'[j] = rows[j] /\ charges'[j] = charges[j]
    /\ \/ rows' = rows
       \/ Exists(InWork(w)) /\ rows'[InWork(w)].status \notin {"NEW", "DELETED"}

\* The last step of process_job.
Ends(w) ==
    /\ Q!Finish(w) \/ Q!Raise(w)
    /\ task[w].at \in {"replay", "refused", "publishDone", "publishFailed"}
    /\ task' = [task EXCEPT ![w] = NoTask]
    /\ UNCHANGED <<rows, reqs, pubs, charges, risk, taken>>
    /\ excused \subseteq excused'

\* Saving a live status at a job of one's own is such a write.
LEMMA SaveFact ==
    ASSUME rows \in [Jobs -> Job], NEW j \in Jobs, NEW job, Save(j, job),
           job.status \notin {"NEW", "DELETED"}
    PROVE  /\ \A k \in Jobs \ {j} : rows'[k] = rows[k]
           /\ rows' = rows \/ (Exists(j) /\ rows'[j] = job)
BY DEF Save, Exists

\* The worker moves on to a state t of its task.
LEMMA WorksRule ==
    ASSUME task \in [Workers -> TaskRec], NEW w \in Workers, NEW t \in TaskRec,
           task' = [task EXCEPT ![w] = t], t.at # "load", GoodWork(t, "run", InWork(w)),
           UNCHANGED <<queue, faults, reqs, pubs>>, pc[w] = "run", InWork(w) \in Jobs,
           risk \subseteq risk', excused \subseteq excused', taken' = taken,
           \A j \in Jobs \ {InWork(w)} : rows'[j] = rows[j] /\ charges'[j] = charges[j],
           \/ rows' = rows
           \/ Exists(InWork(w)) /\ rows'[InWork(w)].status \notin {"NEW", "DELETED"}
    PROVE  Works(w)
  BY DEF Works

\* Every step of process_job is one or the other.
LEMMA ProcessFact ==
    ASSUME IInv, Tied, Q!IInv, NEW w \in Workers, Process(w) \/ ProcessError(w)
    PROVE  Works(w) \/ Ends(w)
  <1>1. /\ rows \in [Jobs -> Job] /\ task \in [Workers -> TaskRec] /\ charges \in [Jobs -> Nat]
        /\ task[w] \in TaskRec /\ GoodWork(task[w], pc[w], InWork(w))
        /\ pc[w] = "run" => InWork(w) \in Jobs
    BY Parts, MsgFact DEF RowsOK, TaskOK, RestOK, Tied, InWork
  <1>2. NoJob \notin Jobs
    BY PipelineAssumption DEF PipelineAssumption
  <1>3. ASSUME Load(w) PROVE Works(w)
    <2>1. PICK at \in {"replay", "start"} :
              task' = [task EXCEPT ![w] = [at |-> at, job |-> InWork(w), ent |-> BuildJob]]
      BY <1>3 DEF Load, InWork
    <2>2. PICK t : t = [at |-> at, job |-> InWork(w), ent |-> BuildJob]
      OBVIOUS
    <2>3. pc[w] = "run" /\ InWork(w) \in Jobs
      BY <1>1, <1>3 DEF Load, At
    <2>4. t \in TaskRec /\ t.at # "load" /\ GoodWork(t, "run", InWork(w))
      BY <1>2, <2>2, <2>3 DEF TaskRec, TaskSteps, BuildJob, NewJob, Job, Statuses, GoodWork
    <2>5. /\ UNCHANGED <<queue, faults, rows, reqs, pubs, charges, excused, taken>>
          /\ risk \subseteq risk'
      BY <1>3 DEF Load, api, effects
    <2>6. QED
      BY <1>1, <2>1, <2>2, <2>3, <2>4, <2>5, WorksRule
  <1>4. ASSUME Start(w) PROVE Works(w)
    <2>1. PICK job : job = StartProcessing(task[w].ent)
      OBVIOUS
    <2>2. job \in Job /\ job.status = "PROCESSING"
      BY <1>1, <2>1 DEF StartProcessing, TaskRec, Job, Statuses
    <2>3. PersistOr(w, job, FALSE) /\ task' = [task EXCEPT ![w].at = "precheck", ![w].ent = job]
      BY <1>4, <2>1 DEF Start
    <2>4. PICK t : t = [task[w] EXCEPT !.at = "precheck", !.ent = job]
      OBVIOUS
    <2>5. pc[w] = "run" /\ task[w].at # "load" /\ task[w].job = InWork(w)
      BY <1>1, <1>4 DEF Start, At, GoodWork
    <2>6. t \in TaskRec /\ t.at # "load" /\ GoodWork(t, "run", InWork(w))
      BY <1>1, <1>2, <2>2, <2>4, <2>5 DEF TaskRec, TaskSteps, GoodWork
    <2>7. task' = [task EXCEPT ![w] = t]
      BY <2>3, <2>4
    <2>8. /\ UNCHANGED <<queue, faults, reqs, pubs, charges, risk, taken>>
          /\ excused \subseteq excused'
      BY <1>4, <2>3 DEF Start, PersistOr, api, effects
    <2>9. rows' = rows \/ Save(InWork(w), job)
      BY <2>3, <2>5 DEF PersistOr, Own
    <2>10. QED
      BY <1>1, <2>2, <2>5, <2>6, <2>7, <2>8, <2>9, SaveFact, WorksRule
  <1>5. ASSUME PreCheck(w) PROVE Works(w)
    <2>1. pc[w] = "run" /\ task[w].at = "precheck" /\ task[w].job = InWork(w)
          /\ UNCHANGED <<queue, faults, rows, reqs, pubs, charges, risk, excused, taken>>
      BY <1>1, <1>5 DEF PreCheck, At, GoodWork, api, effects, ghosts
    <2>2. PICK t \in {[task[w] EXCEPT !.at = "download"],
                      [task[w] EXCEPT !.at = "refuse", !.ent = MarkFailed(@)]} :
              task' = [task EXCEPT ![w] = t]
      BY <1>5 DEF PreCheck, Goto
    <2>3. MarkFailed(task[w].ent) \in Job /\ MarkFailed(task[w].ent).status = "FAILED"
      BY <1>1 DEF MarkFailed, TaskRec, Job, Statuses
    <2>4. t \in TaskRec /\ t.at # "load" /\ GoodWork(t, "run", InWork(w))
      BY <1>1, <1>2, <2>1, <2>2, <2>3 DEF TaskRec, TaskSteps, GoodWork
    <2>5. QED
      BY <1>1, <2>1, <2>2, <2>4, WorksRule
  <1>6. ASSUME Refuse(w) PROVE Works(w)
    BY <1>1, <1>2, <1>6, SaveFact DEF Refuse, At, Goto, PersistOr, Own, Works, GoodWork,
       TaskRec, TaskSteps, api, effects, queue
  <1>7. ASSUME RefusedError(w) PROVE Works(w)
    BY <1>1, <1>2, <1>7 DEF RefusedError, At, Goto, Works, GoodWork,
       TaskRec, TaskSteps, api, effects, ghosts, queue
  <1>8. ASSUME Announce(w) PROVE Works(w)
    <2>1. PICK p \in Phases : At(w, p[1]) /\ PersistOr(w, task[w].ent, FALSE) /\ Goto(w, p[2])
      BY <1>8 DEF Announce
    <2>2. /\ task[w].at \in {"download", "convert", "upload"} /\ pc[w] = "run"
          /\ p[2] \in {"downloading", "converting", "uploading"}
      BY <2>1 DEF Phases, At
    <2>3. QED
      BY <1>1, <1>2, <1>8, <2>1, <2>2, SaveFact DEF Announce, Goto, PersistOr, Own, Works, GoodWork,
         TaskRec, TaskSteps, api, effects, queue
  <1>9. ASSUME AnnounceError(w) \/ WorkError(w) PROVE Works(w)
    <2>1. task[w].at \in {"download", "convert", "upload", "downloading", "converting", "uploading"}
          /\ pc[w] = "run" /\ Goto(w, "except")
      BY <1>9 DEF AnnounceError, WorkError, Phases, At
    <2>2. QED
      BY <1>1, <1>2, <1>9, <2>1 DEF AnnounceError, WorkError, Goto, Works, GoodWork,
         TaskRec, TaskSteps, api, effects, ghosts, queue
  <1>10. ASSUME Prepare(w) PROVE Works(w)
    BY <1>1, <1>2, <1>10 DEF Prepare, At, Goto, Works, GoodWork,
       TaskRec, TaskSteps, api, effects, ghosts, queue
  <1>11. ASSUME Upload(w) PROVE Works(w)
    <2>1. pc[w] = "run" /\ task[w].at = "uploading" /\ task[w].job = InWork(w)
          /\ UNCHANGED <<queue, faults, rows, reqs, pubs, charges, risk, excused, taken>>
      BY <1>1, <1>11 DEF Upload, At, GoodWork, api, ghosts
    <2>2. PICK t \in {[task[w] EXCEPT !.at = "except"],
                      [task[w] EXCEPT !.at = "charge", !.ent = Complete(@)]} :
              task' = [task EXCEPT ![w] = t]
      BY <1>11 DEF Upload, Goto
    <2>3. Complete(task[w].ent) \in Job /\ Complete(task[w].ent).status = "COMPLETED"
      BY <1>1 DEF Complete, TaskRec, Job, Statuses
    <2>4. t \in TaskRec /\ t.at # "load" /\ GoodWork(t, "run", InWork(w))
      BY <1>1, <1>2, <2>1, <2>2, <2>3 DEF TaskRec, TaskSteps, GoodWork
    <2>5. QED
      BY <1>1, <2>1, <2>2, <2>4, WorksRule
  <1>12. ASSUME Charge(w) PROVE Works(w)
    BY <1>1, <1>2, <1>12 DEF Charge, At, Goto, Own, Works, GoodWork,
       TaskRec, TaskSteps, api, effects, ghosts, queue
  <1>13. ASSUME SaveDone(w) PROVE Works(w)
    BY <1>1, <1>2, <1>13, SaveFact DEF SaveDone, At, Goto, PersistOr, Own, Works, GoodWork,
       TaskRec, TaskSteps, api, effects, queue
  <1>14. ASSUME PublishDoneError(w) PROVE Works(w)
    BY <1>1, <1>2, <1>14 DEF PublishDoneError, At, Goto, Own, Works, GoodWork,
       TaskRec, TaskSteps, api, effects, queue
  <1>15. ASSUME Except(w) PROVE Works(w)
    <2>1. PICK job : job = MarkFailed(task[w].ent)
      OBVIOUS
    <2>2. job \in Job /\ job.status = "FAILED"
      BY <1>1, <2>1 DEF MarkFailed, TaskRec, Job, Statuses
    <2>3. PersistOr(w, job, TRUE) /\ task' = [task EXCEPT ![w].at = "publishFailed", ![w].ent = job]
      BY <1>15, <2>1 DEF Except
    <2>4. PICK t : t = [task[w] EXCEPT !.at = "publishFailed", !.ent = job]
      OBVIOUS
    <2>5. pc[w] = "run" /\ task[w].at # "load" /\ task[w].job = InWork(w)
      BY <1>1, <1>15 DEF Except, At, GoodWork
    <2>6. t \in TaskRec /\ t.at # "load" /\ GoodWork(t, "run", InWork(w))
      BY <1>1, <1>2, <2>2, <2>4, <2>5 DEF TaskRec, TaskSteps, GoodWork
    <2>7. task' = [task EXCEPT ![w] = t]
      BY <2>3, <2>4
    <2>8. /\ UNCHANGED <<queue, faults, reqs, pubs, charges, risk, taken>>
          /\ excused \subseteq excused'
      BY <1>15, <2>3 DEF Except, PersistOr, api, effects
    <2>9. rows' = rows \/ Save(InWork(w), job)
      BY <2>3, <2>5 DEF PersistOr, Own
    <2>10. QED
      BY <1>1, <2>2, <2>5, <2>6, <2>7, <2>8, <2>9, SaveFact, WorksRule
  <1>16. ASSUME \/ Replay(w) \/ ReplayError(w) \/ Refused(w) \/ PublishDone(w)
                \/ PublishFailed(w)
         PROVE  Ends(w)
    BY <1>16 DEF Replay, ReplayError, Refused, PublishDone, PublishFailed, At, Own, Ends,
       api, effects, ghosts
  <1>17. QED
    BY <1>3, <1>4, <1>5, <1>6, <1>7, <1>8, <1>9, <1>10, <1>11, <1>12, <1>13, <1>14, <1>15, <1>16
       DEF Process, ProcessError
------------------------------------------------------------------------------
(* What each step may change *)

\* The steps at which process_job has nothing left to write.
Late == {"replay", "refused", "publishDone", "publishFailed"}

\* A worker turns to the queue.
Moves(w) ==
    /\ WorkerSteps(w)
    /\ UNCHANGED <<rows, reqs, pubs, charges>>
    /\ risk \subseteq risk' /\ excused \subseteq excused' /\ taken \subseteq taken'
    /\ task'[w].at = "load" /\ task'[w].job = NoJob /\ task'[w].ent.status # "COMPLETED"
    /\ \A v \in Workers \ {w} : task'[v] = task[v]
    /\ task[w].at = "saveDone" => InWork(w) \in risk'
    /\ pc[w] = "run" /\ pc'[w] \in {"ack", "dlq"} => task[w].at \in Late
    /\ pc[w] = "reack" => cur[w] \notin pel' \/ InWork(w) \in risk'
    /\ \A v \in Workers : \A e \in claimed'[v] \ claimed[v] :
          \/ Q!Msg(e)[1] \in risk' \cap taken'
          \/ \A u \in Workers : e \notin Q!Held(u)

\* A request takes a job up, or writes its copy of the row.
Touches(r, j) ==
    /\ UNCHANGED <<queue, faults, pubs, task, charges, risk, excused, taken>>
    /\ \A q \in Requests \ {r} : reqs'[q] = reqs[q]
    /\ reqs[r].job \in {j, NoJob} /\ reqs'[r].job = j
    /\ reqs'[r].at \in {"update", "pend", "publish"}
    /\ reqs'[r].copy.status \notin {"NEW", "DELETED"}
    /\ \A k \in Jobs \ {j} : rows'[k] = rows[k]
    /\ rows'[j].status # "NEW"
    /\ rows[j].status = "DELETED" => rows'[j].status = "DELETED"
    /\ rows' = rows \/ reqs[r].job = j \/ rows[j].status = "NEW"

\* A row is inserted or deleted, if anything happens at all.
Edits ==
    /\ UNCHANGED <<queue, faults, reqs, pubs, task, charges, risk, excused, taken>>
    /\ \A k \in Jobs :
          \/ rows'[k] = rows[k]
          \/ rows[k].status = "NEW" /\ rows'[k].status = "AWAITING_UPLOAD"
          \/ rows'[k].status = "DELETED"

\* Every step of a worker at the queue is such a move.
LEMMA MovesFact ==
    ASSUME IInv, Tied, Q!IInv, NEW w \in Workers,
           Ends(w) \/ QueueStep(w) \/ QueueError(w) \/ Duplicate(w) \/ Crash(w)
    PROVE  Moves(w)
  <1>1. /\ task \in [Workers -> TaskRec] /\ GoodWork(task[w], pc[w], InWork(w))
        /\ pc \in [Workers -> Q!PCs] /\ claimed \in [Workers -> SUBSET Q!Delivered]
    BY Parts DEF TaskOK, Tied, Q!IInv, Q!TypeOK
  <1>2. NoTask.at = "load" /\ NoTask.job = NoJob /\ NoTask.ent.status # "COMPLETED"
    BY DEF NoTask, NewJob
  <1>3. pc[w] # "run" => task[w].at = "load" /\ task[w].job = NoJob
                         /\ task[w].ent.status # "COMPLETED"
    BY <1>1 DEF GoodWork
  <1>4. ASSUME Ends(w) PROVE Moves(w)
    <2>1. WorkerSteps(w) /\ pc[w] = "run" /\ UNCHANGED <<claimed, pel>>
      BY <1>4 DEF Ends, WorkerSteps, Q!Settle, Q!Finish, Q!Raise, Q!redis
    <2>2. task' = [task EXCEPT ![w] = NoTask] /\ task[w].at \in Late
          /\ UNCHANGED <<rows, reqs, pubs, charges, risk, taken>> /\ excused \subseteq excused'
      BY <1>4 DEF Ends, Late
    <2>3. QED
      BY <1>1, <1>2, <2>1, <2>2 DEF Moves, Late
  <1>5. ASSUME QueueStep(w) PROVE Moves(w)
    <2>1. WorkerSteps(w) /\ UNCHANGED <<rows, reqs, pubs, charges, task, excused, risk, taken>>
      BY <1>5 DEF QueueStep, WorkerSteps, Q!Settle, pipeline, api, effects
    <2>2. /\ pc[w] # "run"
          /\ pc[w] = "reack" => cur[w] \notin pel'
          /\ \A v \in Workers : \A e \in claimed'[v] \ claimed[v] :
                \A u \in Workers : e \notin Q!Held(u)
      <3>1. CASE Q!Fetch(w) \/ Q!DeadLetter(w) \/ Q!Acknowledge(w)
        BY <3>1 DEF Q!Fetch, Q!FetchBuffered, Q!FetchNew, Q!FetchNone, Q!DeadLetter, Q!Acknowledge
      <3>2. CASE \E idle \in SUBSET pel : Q!Autoclaim(w, idle)
        BY <1>1, <3>2 DEF Q!Autoclaim, Q!Claim, Q!Orphans
      <3>3. CASE Q!RequeueAdd(w) \/ Q!RequeueAck(w) \/ Q!SweepOn(w)
        BY <1>1, <3>3 DEF Q!RequeueAdd, Q!RequeueAck, Q!SweepOn
      <3>4. QED
        BY <1>5, <3>1, <3>2, <3>3 DEF QueueStep, Q!Sweep
    <2>3. QED
      BY <1>3, <2>1, <2>2 DEF Moves
  <1>6. ASSUME QueueError(w) PROVE Moves(w)
    <2>1. WorkerSteps(w) /\ UNCHANGED <<rows, reqs, pubs, charges, task, excused, risk, taken>>
      BY <1>6 DEF QueueError, WorkerSteps, Q!Failure, pipeline, api, effects
    <2>2. /\ pc[w] # "run" /\ pc[w] # "reack"
          /\ \A v \in Workers : claimed'[v] \subseteq claimed[v]
      BY <1>1, <1>6 DEF QueueError, Q!FetchLost, Q!DeadLetterError, Q!AcknowledgeError,
         Q!RequeueAddError, Q!loop
    <2>3. QED
      BY <1>3, <2>1, <2>2 DEF Moves
  <1>7. ASSUME Duplicate(w) PROVE Moves(w)
    <2>1. CASE /\ Q!RequeueAckError(w) /\ risk' = risk \cup {Q!Msg(cur[w])[1]}
               /\ taken' = taken
      <3>1. WorkerSteps(w) /\ UNCHANGED <<rows, reqs, pubs, charges, task, excused, claimed, taken>>
            /\ pc[w] = "reack" /\ risk \subseteq risk' /\ InWork(w) \in risk'
        BY <1>7, <2>1 DEF Duplicate, WorkerSteps, Q!Failure, pipeline, api, effects,
           Q!RequeueAckError, InWork
      <3>2. QED
        BY <1>3, <3>1 DEF Moves
    <2>2. ASSUME NEW idle \in SUBSET pel, Q!AutoclaimLive(w, idle),
                 risk' = risk \cup {Q!Msg(e)[1] : e \in idle},
                 taken' = taken \cup {Q!Msg(e)[1] : e \in idle \ Q!Orphans(sweepAt[w])}
          PROVE  Moves(w)
      <3>1. WorkerSteps(w) /\ UNCHANGED <<rows, reqs, pubs, charges, task, excused>>
            /\ risk \subseteq risk' /\ taken \subseteq taken'
        BY <1>7, <2>2 DEF Duplicate, WorkerSteps, Q!Failure, pipeline, api, effects
      <3>2. /\ pc[w] = "claim"
            /\ \A v \in Workers : claimed'[v] \ claimed[v] \subseteq idle
            /\ idle \subseteq Q!Pending(sweepAt[w])
        BY <1>1, <2>2 DEF Q!AutoclaimLive, Q!Claim
      <3>3. ASSUME NEW e \in idle
            PROVE  \/ Q!Msg(e)[1] \in risk' \cap taken'
                   \/ \A u \in Workers : e \notin Q!Held(u)
        <4>1. Q!Msg(e)[1] \in risk'
          BY <2>2
        <4>2. e \notin Q!Orphans(sweepAt[w]) => Q!Msg(e)[1] \in taken'
          BY <2>2
        <4>3. e \in Q!Orphans(sweepAt[w]) => \A u \in Workers : e \notin Q!Held(u)
          BY DEF Q!Orphans
        <4>4. QED
          BY <4>1, <4>2, <4>3
      <3>4. QED
        BY <1>3, <3>1, <3>2, <3>3 DEF Moves
    <2>3. QED
      BY <1>7, <2>1, <2>2 DEF Duplicate
  <1>8. ASSUME Crash(w) PROVE Moves(w)
    <2>1. WorkerSteps(w) /\ UNCHANGED <<rows, reqs, pubs, charges, excused, taken>>
          /\ task' = [task EXCEPT ![w] = NoTask]
      BY <1>8 DEF Crash, WorkerSteps, Q!Failure, api, effects
    <2>2. /\ risk \subseteq risk'
          /\ task[w].at = "saveDone" \/ pc[w] = "reack" => InWork(w) \in risk'
      BY <1>1, <1>8 DEF Crash, At, InWork, GoodWork
    <2>3. pc'[w] = "fetch" /\ \A v \in Workers : claimed'[v] \subseteq claimed[v]
      BY <1>1, <1>8 DEF Crash, Q!Crash, Q!Release
    <2>4. QED
      BY <1>1, <1>2, <2>1, <2>2, <2>3 DEF Moves
  <1>9. QED
    BY <1>4, <1>5, <1>6, <1>7, <1>8

\* Every step of a request before its publication is such a touch.
LEMMA TouchesFact ==
    ASSUME IInv, Inserted, Plain, "batch" \notin Ops, NEW r \in Requests
    PROVE  /\ \A j \in Jobs :
                 \/ VerifyRead(r, j) \/ GuestVerifyRead(r, j) \/ LibraryCreate(r, j)
                 \/ BatchCreate(r, j) \/ RetryRead(r, j)
                 => Touches(r, j)
           /\ Update(r) \/ Pend(r) \/ Stamp(r) => \E j \in Jobs : Touches(r, j)
  <1>1. /\ rows \in [Jobs -> Job] /\ reqs \in [Requests -> ReqRec]
        /\ reqs[r].at # "idle" => reqs[r].job \in Jobs
        /\ reqs[r] = NoReq => reqs[r].job = NoJob
    BY Parts DEF RowsOK, ReqsOK, GoodReq, NoReq
  <1>2. ASSUME NEW j \in Jobs, NEW at \in {"update", "pend", "publish"}, NEW copy,
               copy.status \notin {"NEW", "DELETED"}, Begin(r, j, at, copy),
               \/ rows' = rows /\ rows[j].status # "NEW"
               \/ rows' = [rows EXCEPT ![j] = Awaiting(TRUE)] /\ rows[j].status = "NEW"
        PROVE  Touches(r, j)
    <2>1. /\ reqs' = [reqs EXCEPT ![r] = [at |-> at, job |-> j, copy |-> copy]]
          /\ reqs[r].job = NoJob
          /\ UNCHANGED <<queue, faults, pubs, task, charges, risk, excused, taken>>
      BY <1>1, <1>2 DEF Begin, effects, ghosts
    <2>2. Awaiting(TRUE).status = "AWAITING_UPLOAD"
      BY DEF Awaiting, NewJob
    <2>3. /\ \A k \in Jobs \ {j} : rows'[k] = rows[k]
          /\ rows'[j].status # "NEW"
          /\ rows[j].status = "DELETED" => rows'[j].status = "DELETED"
          /\ rows' = rows \/ rows[j].status = "NEW"
      BY <1>1, <1>2, <2>2
    <2>4. /\ \A q \in Requests \ {r} : reqs'[q] = reqs[q]
          /\ reqs'[r] = [at |-> at, job |-> j, copy |-> copy]
      BY <1>1, <2>1
    <2>5. QED
      BY <1>2, <2>1, <2>3, <2>4 DEF Touches
  <1>3. ASSUME NEW j \in Jobs, VerifyRead(r, j) PROVE Touches(r, j)
    <2>1. PICK copy : copy = [rows[j] EXCEPT !.key = TRUE]
      OBVIOUS
    <2>2. copy.status = rows[j].status /\ rows[j].status \notin {"NEW", "DELETED"}
      BY <1>1, <1>3, <2>1 DEF VerifyRead, Exists, Job
    <2>3. Begin(r, j, "update", copy) /\ rows' = rows
      BY <1>3, <2>1 DEF VerifyRead
    <2>4. QED
      BY <1>2, <2>2, <2>3
  <1>4. ASSUME NEW j \in Jobs, GuestVerifyRead(r, j) PROVE Touches(r, j)
    <2>1. PICK job : job = [rows[j] EXCEPT !.key = TRUE]
      OBVIOUS
    <2>2. job \in Job /\ job.status = rows[j].status /\ rows[j].status \notin {"NEW", "DELETED"}
      BY <1>1, <1>4, <2>1 DEF GuestVerifyRead, Exists, Job
    <2>3. Begin(r, j, PushStep(job), Pushed(job)) /\ rows' = rows
      BY <1>4, <2>1 DEF GuestVerifyRead
    <2>4. /\ PushStep(job) \in {"update", "pend", "publish"}
          /\ Pushed(job).status \notin {"NEW", "DELETED"}
      BY <2>2 DEF PushStep, Pushed, PendingProcessing, Job
    <2>5. QED
      BY <1>2, <2>2, <2>3, <2>4
  <1>5. ASSUME NEW j \in Jobs, LibraryCreate(r, j) PROVE Touches(r, j)
    <2>1. PICK copy : copy = PendingProcessing(Awaiting(TRUE))
      OBVIOUS
    <2>2. copy.status = "PENDING"
      BY <2>1 DEF PendingProcessing, Awaiting, NewJob
    <2>3. Begin(r, j, "pend", copy) /\ rows' = [rows EXCEPT ![j] = Awaiting(TRUE)]
          /\ rows[j].status = "NEW"
      BY <1>5, <2>1 DEF LibraryCreate
    <2>4. QED
      BY <1>2, <2>2, <2>3
  <1>6. ASSUME NEW j \in Jobs, RetryRead(r, j) PROVE Touches(r, j)
    <2>1. PICK copy : copy = Retry(rows[j])
      OBVIOUS
    <2>2. copy.status = "PENDING" /\ rows[j].status = "FAILED"
      BY <1>1, <1>6, <2>1 DEF RetryRead, Retry, Job
    <2>3. Begin(r, j, "pend", copy) /\ rows' = rows
      BY <1>6, <2>1 DEF RetryRead
    <2>4. QED
      BY <1>2, <2>2, <2>3
  <1>7. ASSUME Update(r) \/ Pend(r) \/ Stamp(r) PROVE \E j \in Jobs : Touches(r, j)
    <2>1. PICK j \in Jobs : j = reqs[r].job
      BY <1>1, <1>7 DEF Update, Pend, Stamp
    <2>2. PICK copy : copy = reqs[r].copy
      OBVIOUS
    <2>3. copy \in Job /\ copy.status \notin {"NEW", "DELETED"} /\ reqs[r].at \in {"update", "pend"}
      BY <1>1, <1>7, <2>2 DEF Plain, ReqRec, Update, Pend, Stamp
    <2>4. Save(j, copy) /\ UNCHANGED <<queue, faults, pubs, task, charges, risk, excused, taken>>
      BY <1>7, <2>1, <2>2, <2>3 DEF Update, Pend, Stamp, effects, ghosts
    <2>5. /\ \A q \in Requests \ {r} : reqs'[q] = reqs[q]
          /\ reqs'[r].job = j /\ reqs'[r].at \in {"update", "pend", "publish"}
          /\ reqs'[r].copy.status \notin {"NEW", "DELETED"}
      <3>1. CASE Pend(r)
        BY <1>1, <2>1, <2>2, <2>3, <3>1 DEF Pend, ReqRec
      <3>2. CASE Update(r)
        <4>1. PushStep(copy) \in {"pend", "publish"} /\ Pushed(copy).status \notin {"NEW", "DELETED"}
          BY <2>3 DEF PushStep, Pushed, PendingProcessing, Job
        <4>2. QED
          BY <1>1, <2>1, <2>2, <3>2, <4>1 DEF Update, ReqRec
      <3>3. QED
        BY <1>7, <2>3, <3>1, <3>2 DEF Stamp
    <2>6. rows[j].status # "NEW"
      BY <2>1 DEF Inserted
    <2>7. /\ \A k \in Jobs \ {j} : rows'[k] = rows[k]
          /\ rows'[j].status # "NEW"
          /\ rows[j].status = "DELETED" => rows'[j].status = "DELETED"
      BY <1>1, <2>3, <2>4, <2>6 DEF Save, Exists
    <2>8. QED
      BY <2>1, <2>4, <2>5, <2>7 DEF Touches
  <1>8. QED
    BY <1>3, <1>4, <1>5, <1>6, <1>7 DEF BatchCreate

\* The other client steps edit rows.
LEMMA EditsFact ==
    ASSUME IInv,
           (\E j \in Jobs : CreateJob(j) \/ DeleteJob(j)) \/ DeleteHistoryRange \/ UNCHANGED vars
    PROVE  Edits
  <1>1. rows \in [Jobs -> Job]
    BY Parts DEF RowsOK
  <1>2. PICK gone : gone = [NewJob EXCEPT !.status = "DELETED"]
    OBVIOUS
  <1>3. gone.status = "DELETED" /\ Awaiting(FALSE).status = "AWAITING_UPLOAD"
    BY <1>2 DEF NewJob, Awaiting
  <1>4. UNCHANGED <<queue, faults, reqs, pubs, task, charges, risk, excused, taken>>
    BY DEF CreateJob, DeleteJob, DeleteHistoryRange, vars, api, effects, ghosts
  <1>5. CASE \E j \in Jobs : CreateJob(j)
    BY <1>1, <1>3, <1>4, <1>5 DEF CreateJob, Edits
  <1>6. CASE \E j \in Jobs : DeleteJob(j)
    BY <1>1, <1>2, <1>3, <1>4, <1>6 DEF DeleteJob, Edits
  <1>7. CASE DeleteHistoryRange
    BY <1>1, <1>2, <1>3, <1>4, <1>7 DEF DeleteHistoryRange, Edits
  <1>8. CASE UNCHANGED vars
    BY <1>4, <1>8 DEF vars, Edits
  <1>9. QED
    BY <1>5, <1>6, <1>7, <1>8

\* A job is published, or its request fails.
Publishes(r, j) ==
    /\ \E s \in Q!Streams : Q!Publish(<<j, pubs[j] + 1>>, s)
    /\ reqs[r].job = j
    /\ reqs' = [reqs EXCEPT ![r] = NoReq]
    /\ pubs' = [pubs EXCEPT ![j] = @ + 1]
    /\ UNCHANGED <<rows, task, charges, risk, excused, taken>>
Fails(r, j) ==
    /\ reqs[r].job = j
    /\ reqs' = [reqs EXCEPT ![r] = NoReq]
    /\ excused' = excused \cup {j}
    /\ UNCHANGED <<queue, faults, rows, pubs, task, charges, risk, taken>>
LEMMA EndsFact ==
    ASSUME IInv, Plain, NEW r \in Requests
    PROVE  /\ (\E s \in Q!Streams : PublishJob(r, s)) => \E j \in Jobs : Publishes(r, j)
           /\ RequestError(r) => \E j \in Jobs : Fails(r, j)
  <1>1. reqs[r].at # "idle" => reqs[r].job \in Jobs
    BY Parts DEF ReqsOK, GoodReq
  <1>2. reqs[r].at # "publishItem"
    BY DEF Plain
  <1>3. QED
    BY <1>1, <1>2 DEF PublishJob, Publishes, RequestError, Fails, effects, ghosts

\* Every step is one of these.
LEMMA StepFact ==
    ASSUME IInv, Q!IInv, Inserted, Plain, Tied, "batch" \notin Ops, [Next]_vars
    PROVE  \/ \E w \in Workers : (Works(w) /\ (Process(w) \/ ProcessError(w))) \/ Moves(w)
           \/ \E r \in Requests, j \in Jobs : Touches(r, j) \/ Publishes(r, j) \/ Fails(r, j)
           \/ Edits
  <1>1. ASSUME NEW w \in Workers,
               \/ Process(w) \/ ProcessError(w)
               \/ QueueStep(w) \/ QueueError(w) \/ Duplicate(w) \/ Crash(w)
        PROVE  (Works(w) /\ (Process(w) \/ ProcessError(w))) \/ Moves(w)
    BY <1>1, ProcessFact, MovesFact
  <1>2. ASSUME NEW r \in Requests, Request(r) \/ RequestStep(r)
        PROVE  \E j \in Jobs : Touches(r, j) \/ Publishes(r, j) \/ Fails(r, j)
    BY <1>2, TouchesFact, EndsFact DEF Request, RequestStep
  <1>3. QED
    BY <1>1, <1>2, EditsFact DEF Next

------------------------------------------------------------------------------
(* The jobs that nothing disturbed are in one worker's hands *)

HeldByOne == \A j \in Jobs : j \notin risk => QP!Exclusive(Of(j))
Sound == Numbered /\ Inserted /\ Plain /\ Tied /\ HeldByOne

\* When the queue stands still.
LEMMA QuietQueue ==
    ASSUME UNCHANGED <<queue, faults>>
    PROVE  /\ UNCHANGED Q!vars /\ UNCHANGED QP!vars
           /\ Q!Published' = Q!Published
           /\ \A e : Q!Msg(e)' = Q!Msg(e)
           /\ Q!Available' = Q!Available
           /\ \A M : QP!Exclusive(M) => QP!Exclusive(M)'
           /\ \A M : QP!OneCopy(M) => QP!OneCopy(M)'
           /\ UNCHANGED <<pc, cur>>
  <1>1. UNCHANGED <<log, last, pel, pc, cur, buffer, sweepAt, claimed, handled, raised, dead, faults>>
    BY DEF queue
  <1>2. Q!Published' = Q!Published /\ Q!Available' = Q!Available
    BY <1>1 DEF Q!Published, Q!Available, Q!Delivered, Q!Entries, Q!Streams, Q!Msg
  <1>3. \A M : QP!Exclusive(M) => QP!Exclusive(M)'
    BY <1>1 DEF QP!Exclusive, QP!Sole, QP!Held, QP!NoEntry, QP!Msg
  <1>4. \A M : QP!OneCopy(M) => QP!OneCopy(M)'
    BY <1>1 DEF QP!OneCopy, QP!Copies, QP!Secured, QP!Available, QP!Delivered, QP!Entries, QP!Streams, QP!Msg
  <1>5. QED
    BY <1>1, <1>2, <1>3, <1>4
       DEF Q!vars, QP!vars, Q!redis, QP!redis, Q!loop, QP!loop, Q!history, QP!history, Q!Msg

\* What a move of a worker at the queue leaves alone.
LEMMA MovesFrame ==
    ASSUME Q!IInv, Tied, NEW w \in Workers, Moves(w)
    PROVE  /\ Q!Published' = Q!Published
           /\ \A v \in Workers \ {w} :
                 pc'[v] = pc[v] /\ cur'[v] = cur[v] /\ (pc[v] = "run" => InWork(v)' = InWork(v))
  <1>1. /\ \A e \in Q!Entries : Q!Msg(e)' = Q!Msg(e)
        /\ Q!Published' = Q!Published
        /\ \A v \in Workers \ {w} : pc'[v] = pc[v] /\ cur'[v] = cur[v]
    BY QueueFrame DEF Moves
  <1>2. \A v \in Workers : pc[v] = "run" => cur[v] \in Q!Entries
    BY DEF Q!IInv, Q!SettledFirst, Q!Delivered
  <1>3. ASSUME NEW v \in Workers, cur'[v] = cur[v], cur[v] \in Q!Entries
        PROVE  InWork(v)' = InWork(v)
    <2>1. InWork(v)' = Q!Msg(cur[v])'[1]
      BY <1>3 DEF InWork, Q!Msg
    <2>2. QED
      BY <1>1, <1>3, <2>1 DEF InWork
  <1>4. QED
    BY <1>1, <1>2, <1>3

\* Publishing is a step of the queue.
LEMMA PublishesFact ==
    ASSUME IInv, Q!IInv, NEW r \in Requests, NEW j \in Jobs, Publishes(r, j)
    PROVE  \E m \in Publications, s \in Q!Streams :
              /\ m = <<j, pubs[j] + 1>> /\ Q!Publish(m, s) /\ QP!Publish(m, s)
              /\ Q!Published' = Q!Published \cup {m}
              /\ \A e \in Q!Entries : Q!Msg(e)' = Q!Msg(e)
              /\ UNCHANGED <<pel, pc, cur, buffer, claimed>>
              /\ Q!Available \subseteq Q!Available'
              /\ \E new \in Q!Available' : Q!Msg(new)' = m /\ \A w \in Workers : cur[w] # new
  <1>1. PICK s \in Q!Streams : Q!Publish(<<j, pubs[j] + 1>>, s)
    BY DEF Publishes
  <1>2. PICK m : m = <<j, pubs[j] + 1>>
    OBVIOUS
  <1>3. m \in Publications
    BY <1>2, Parts DEF RestOK, Publications
  <1>4. Q!Publish(m, s) /\ QP!Publish(m, s) /\ QP!IInv /\ s \in QP!Streams
    BY <1>1, <1>2, SameSteps, SameInv, SameEntries
  <1>5. /\ \A e \in QP!Entries : QP!Msg(e)' = QP!Msg(e)
        /\ QP!Published' = QP!Published \cup {m}
        /\ UNCHANGED <<pel, QP!loop>>
        /\ QP!Available \subseteq QP!Available'
        /\ \E new \in QP!Available' : QP!Msg(new)' = m /\ \A w \in Workers : cur[w] # new
    BY <1>3, <1>4, QP!PublishFrame, StreamConstants
  <1>6. /\ \A e : Q!Msg(e)' = QP!Msg(e)'
        /\ Q!Published' = QP!Published'
        /\ Q!Available' = QP!Available'
    BY DEF Q!Msg, QP!Msg, Q!Published, QP!Published, Q!Entries, QP!Entries, Q!Streams, QP!Streams,
           Q!Available, QP!Available, Q!Delivered, QP!Delivered
  <1>7. /\ \A e \in Q!Entries : Q!Msg(e)' = Q!Msg(e)
        /\ Q!Published' = Q!Published \cup {m}
        /\ UNCHANGED <<pel, pc, cur, buffer, claimed>>
        /\ Q!Available \subseteq Q!Available'
        /\ \E new \in Q!Available' : Q!Msg(new)' = m /\ \A w \in Workers : cur[w] # new
    BY <1>5, <1>6, SameEntries DEF QP!loop
  <1>8. QED
    BY <1>2, <1>3, <1>4, <1>7

\* Sound holds initially.
LEMMA SoundInit ==
    ASSUME Init
    PROVE  Sound
  <1>1. Q!Published = {}
    BY DEF Init, Q!Init, Q!Published, Q!Entries
  <1>2. Numbered /\ Inserted
    BY <1>1, PipelineAssumption DEF PipelineAssumption, Init, Numbered, Inserted, NoReq
  <1>3. Plain
    BY DEF Init, Plain, NoReq
  <1>4. Tied
    BY DEF Init, Tied, GoodWork, NoTask, NewJob
  <1>5. HeldByOne
    <2>1. QP!Init
      BY SameInit DEF Init
    <2>2. QED
      BY <2>1, QP!ExclusiveInductive, StreamConstants DEF HeldByOne
  <1>6. QED
    BY <1>2, <1>3, <1>4, <1>5 DEF Sound

\* The entries of a job out of risk stay in one worker's hands.
LEMMA HeldStep ==
    ASSUME IInv, Q!IInv, HeldByOne, [Next]_vars,
           \/ UNCHANGED <<queue, faults>> /\ risk \subseteq risk'
           \/ \E w \in Workers : Moves(w)
           \/ \E r \in Requests, j \in Jobs : Publishes(r, j)
    PROVE  HeldByOne'
  <1> SUFFICES ASSUME NEW j \in Jobs, j \notin risk' PROVE QP!Exclusive(Of(j))'
    BY DEF HeldByOne, Of
  <1>1. QP!IInv /\ [QP!Next]_(QP!vars)
    <2>1. UNCHANGED Q!vars => UNCHANGED QP!vars
      BY DEF QP!vars, Q!vars, QP!redis, Q!redis, QP!loop, Q!loop, QP!history, Q!history
    <2>2. QED
      BY <2>1, QueueRules, SameInv, SameNext
  <1>2. ASSUME j \notin risk, QP!NewClaims(Of(j)) PROVE QP!Exclusive(Of(j))'
    <2>1. PICK M : M = Of(j)
      OBVIOUS
    <2>2. QP!Exclusive(M) /\ QP!NewClaims(M)
      BY <1>2, <2>1 DEF HeldByOne
    <2>3. QP!Exclusive(M)'
      BY <1>1, <2>2, QP!ExclusiveInductive, StreamConstants
    <2>4. QED
      BY <2>1, <2>3 DEF Of
  <1>3. CASE UNCHANGED <<queue, faults>> /\ risk \subseteq risk'
    BY <1>2, <1>3 DEF queue, QP!NewClaims
  <1>4. ASSUME NEW w \in Workers, Moves(w) PROVE QP!Exclusive(Of(j))'
    <2>1. j \notin risk
      BY <1>4 DEF Moves
    <2>2. \A u : Q!Held(u) = QP!Held(u)
      BY SameEntries DEF Q!Held, QP!Held
    <2>3. \A v \in Workers : \A e \in claimed'[v] \ claimed[v] :
             QP!Msg(e)[1] = j => \A u \in Workers : e \notin QP!Held(u)
      BY <1>4, <2>2, SameEntries DEF Moves
    <2>4. QP!NewClaims(Of(j))
      BY <2>3 DEF QP!NewClaims, Of
    <2>5. QED
      BY <1>2, <2>1, <2>4
  <1>5. ASSUME NEW r \in Requests, NEW k \in Jobs, Publishes(r, k) PROVE QP!Exclusive(Of(j))'
    <2>1. claimed' = claimed /\ j \notin risk
      BY <1>5, PublishesFact DEF Publishes
    <2>2. QED
      BY <1>2, <2>1 DEF QP!NewClaims
  <1>6. QED
    BY <1>3, <1>4, <1>5

\* Sound is kept by what process_job does.
LEMMA WorksSound ==
    ASSUME IInv, Q!IInv, Sound, NEW w \in Workers, Works(w)
    PROVE  (Numbered /\ Inserted /\ Plain /\ Tied)'
  <1>1. /\ UNCHANGED <<queue, faults, reqs, pubs>> /\ rows \in [Jobs -> Job]
        /\ Numbered /\ Inserted /\ Plain /\ Tied
    BY Parts DEF Works, Sound, RowsOK
  <1>2. Q!Published' = Q!Published /\ (\A e : Q!Msg(e)' = Q!Msg(e)) /\ UNCHANGED <<pc, cur>>
    BY <1>1, QuietQueue
  <1>3. Numbered' /\ Plain'
    BY <1>1, <1>2 DEF Numbered, Plain
  <1>4. Inserted'
    BY <1>1 DEF Works, Inserted
  <1>5. Tied'
    <2>1. \A v \in Workers : InWork(v)' = InWork(v)
      BY <1>2 DEF InWork
    <2>2. ASSUME NEW v \in Workers PROVE GoodWork(task'[v], pc'[v], InWork(v)')
      <3>1. CASE v = w
        BY <1>2, <2>1, <3>1 DEF Works
      <3>2. CASE v # w
        BY <1>1, <1>2, <2>1, <3>2 DEF Works, Tied
      <3>3. QED
        BY <3>1, <3>2
    <2>3. QED
      BY <2>2 DEF Tied, GoodWork
  <1>6. QED
    BY <1>3, <1>4, <1>5

\* And by its moves at the queue.
LEMMA MovesSound ==
    ASSUME IInv, Q!IInv, Sound, NEW w \in Workers, Moves(w)
    PROVE  (Numbered /\ Inserted /\ Plain /\ Tied)'
  <1>1. /\ UNCHANGED <<rows, reqs, pubs>> /\ Numbered /\ Inserted /\ Plain /\ Tied
    BY DEF Moves, Sound
  <1>2. Q!Published' = Q!Published
    BY <1>1, MovesFrame
  <1>3. Numbered' /\ Plain' /\ Inserted'
    BY <1>1, <1>2 DEF Numbered, Plain, Inserted
  <1>4. ASSUME NEW v \in Workers PROVE GoodWork(task'[v], pc'[v], InWork(v)')
    <2>1. CASE v = w
      BY <2>1 DEF Moves, GoodWork
    <2>2. CASE v # w
      <3>1. pc'[v] = pc[v] /\ (pc[v] = "run" => InWork(v)' = InWork(v)) /\ task'[v] = task[v]
        BY <1>1, <2>2, MovesFrame DEF Moves
      <3>2. QED
        BY <1>1, <3>1 DEF Tied, GoodWork
    <2>3. QED
      BY <2>1, <2>2
  <1>5. Tied'
    BY <1>4 DEF Tied, GoodWork
  <1>6. QED
    BY <1>3, <1>5

\* And by the requests and the clients.
LEMMA ClientsSound ==
    ASSUME IInv, Q!IInv, Sound,
           \/ \E r \in Requests, j \in Jobs : Touches(r, j) \/ Publishes(r, j) \/ Fails(r, j)
           \/ Edits
    PROVE  (Numbered /\ Inserted /\ Plain /\ Tied)'
  <1>1. /\ rows \in [Jobs -> Job] /\ reqs \in [Requests -> ReqRec] /\ pubs \in [Jobs -> Nat]
        /\ Numbered /\ Inserted /\ Plain /\ Tied /\ NoJob \notin Jobs
    BY Parts, PipelineAssumption DEF PipelineAssumption, Sound, RowsOK, ReqsOK, RestOK
  <1>2. ASSUME UNCHANGED <<queue, faults, pubs, task>> PROVE Numbered' /\ Tied'
    BY <1>1, <1>2, QuietQueue DEF Numbered, Tied, InWork
  <1>3. ASSUME NEW r \in Requests, NEW j \in Jobs, Touches(r, j) PROVE Inserted' /\ Plain'
    <2>1. Plain'
      <3> SUFFICES ASSUME NEW q \in Requests
                   PROVE  /\ reqs'[q].at \in {"idle", "update", "pend", "publish"}
                          /\ reqs'[q].at = "idle" <=> reqs'[q].job = NoJob
                          /\ reqs'[q].at # "idle" => reqs'[q].copy.status \notin {"NEW", "DELETED"}
        BY DEF Plain
      <3>1. CASE q = r
        BY <1>1, <1>3, <3>1 DEF Touches
      <3>2. CASE q # r
        BY <1>1, <1>3, <3>2 DEF Touches, Plain
      <3>3. QED
        BY <3>1, <3>2
    <2>2. Inserted'
      <3> SUFFICES ASSUME NEW k \in Jobs, rows'[k].status = "NEW"
                   PROVE  pubs'[k] = 0 /\ \A q \in Requests : reqs'[q].job # k
        BY DEF Inserted
      <3>1. k # j
        BY <1>3 DEF Touches
      <3>2. rows[k].status = "NEW" /\ pubs'[k] = pubs[k]
            /\ \A q \in Requests : reqs'[q].job = reqs[q].job \/ reqs'[q].job = j
        BY <1>3, <3>1 DEF Touches
      <3>3. QED
        BY <1>1, <3>1, <3>2 DEF Inserted
    <2>3. QED
      BY <2>1, <2>2
  <1>4. ASSUME NEW r \in Requests, NEW j \in Jobs, Publishes(r, j) \/ Fails(r, j)
        PROVE  Inserted' /\ Plain'
    <2>1. reqs' = [reqs EXCEPT ![r] = NoReq] /\ rows' = rows /\ reqs[r].job = j
          /\ \A k \in Jobs \ {j} : pubs'[k] = pubs[k]
      BY <1>1, <1>4 DEF Publishes, Fails
    <2>2. NoReq.at = "idle" /\ NoReq.job = NoJob
      BY DEF NoReq
    <2>3. Plain'
      BY <1>1, <2>1, <2>2 DEF Plain
    <2>4. Inserted'
      BY <1>1, <2>1, <2>2 DEF Inserted
    <2>5. QED
      BY <2>3, <2>4
  <1>5. ASSUME NEW r \in Requests, NEW j \in Jobs, Publishes(r, j) PROVE Numbered' /\ Tied'
    <2>1. PICK m \in Publications :
              /\ m = <<j, pubs[j] + 1>> /\ Q!Published' = Q!Published \cup {m}
              /\ \A e \in Q!Entries : Q!Msg(e)' = Q!Msg(e)
              /\ UNCHANGED <<pc, cur>>
      BY <1>5, PublishesFact
    <2>2. pubs' = [pubs EXCEPT ![j] = @ + 1] /\ task' = task
      BY <1>5 DEF Publishes
    <2>3. Numbered'
      <3> SUFFICES ASSUME NEW n \in Q!Published' PROVE n[2] \in 1..pubs'[n[1]]
        BY DEF Numbered
      <3>1. CASE n = m
        BY <1>1, <2>1, <2>2, <3>1
      <3>2. CASE n \in Q!Published
        <4>1. n[2] \in 1..pubs[n[1]]
          BY <1>1, <3>2 DEF Numbered
        <4>2. n[1] \in Jobs
          <5>1. PICK e \in Q!Entries : n = Q!Msg(e)
            BY <3>2 DEF Q!Published
          <5>2. PICK s \in Q!Streams : e \in {s} \X (1..Len(log[s]))
            BY <5>1 DEF Q!Entries
          <5>3. log[s] \in Seq(Publications) /\ e[1] = s /\ e[2] \in 1..Len(log[s])
            BY <5>2 DEF Q!IInv, Q!TypeOK
          <5>4. n \in Publications
            BY <5>1, <5>3 DEF Q!Msg
          <5>5. QED
            BY <5>4 DEF Publications
        <4>3. CASE n[1] = j
          BY <1>1, <2>2, <4>1, <4>3
        <4>4. CASE n[1] # j
          BY <1>1, <2>2, <4>1, <4>2, <4>4
        <4>5. QED
          BY <4>3, <4>4
      <3>3. QED
        BY <2>1, <3>1, <3>2
    <2>4. ASSUME NEW v \in Workers PROVE GoodWork(task'[v], pc'[v], InWork(v)')
      <3>1. CASE pc[v] = "run"
        <4>1. cur[v] \in Q!Entries
          BY <3>1 DEF Q!IInv, Q!SettledFirst, Q!Delivered
        <4>2. Q!Msg(cur[v])' = Q!Msg(cur[v])
          BY <2>1, <4>1 DEF Q!Msg
        <4>3. QED
          BY <1>1, <2>1, <2>2, <4>2 DEF Tied, InWork
      <3>2. CASE pc[v] # "run"
        BY <1>1, <2>1, <2>2, <3>2 DEF Tied, GoodWork
      <3>3. QED
        BY <3>1, <3>2
    <2>5. QED
      BY <2>3, <2>4 DEF Tied, GoodWork
  <1>6. CASE Edits
    <2>1. Plain' /\ Inserted'
      BY <1>1, <1>6 DEF Edits, Plain, Inserted
    <2>2. QED
      BY <1>2, <1>6, <2>1 DEF Edits
  <1>7. QED
    BY <1>2, <1>3, <1>4, <1>5, <1>6 DEF Touches, Fails

\* Sound is inductive.
LEMMA SoundStep ==
    ASSUME IInv, Q!IInv, Sound, "batch" \notin Ops, [Next]_vars
    PROVE  Sound'
  <1>1. \/ \E w \in Workers : Works(w) \/ Moves(w)
        \/ \E r \in Requests, j \in Jobs : Touches(r, j) \/ Publishes(r, j) \/ Fails(r, j)
        \/ Edits
    BY StepFact DEF Sound
  <1>2. (Numbered /\ Inserted /\ Plain /\ Tied)'
    BY <1>1, WorksSound, MovesSound, ClientsSound
  <1>3. HeldByOne'
    BY <1>1, HeldStep DEF Sound, Works, Touches, Fails, Edits
  <1>4. QED
    BY <1>2, <1>3 DEF Sound

------------------------------------------------------------------------------
(* The jobs that nothing disturbed are charged once *)

\* Two requests race for the row, or a request and the worker it handed it to.
Racing(j) ==
    \/ pubs[j] > 1
    \/ pubs[j] = 1 /\ \E r \in Requests : reqs[r].job = j
    \/ \E q, r \in Requests : q # r /\ reqs[q].job = j /\ reqs[r].job = j
Calm(j) == j \notin risk \cup excused /\ rows[j].status # "DELETED" /\ ~Racing(j)

\* What the step of process_job tells of the charge c and the status s.
Unpaid == TaskSteps \ {"load", "replay", "saveDone", "publishDone"}
Owes(at, c, s) ==
    /\ c <= 1
    /\ at \in Unpaid => c = 0
    /\ at \in Unpaid \cup {"saveDone"} => s # "COMPLETED"
    /\ at \in {"replay", "publishDone"} => s = "COMPLETED"
    /\ c = 1 => s = "COMPLETED" \/ at = "saveDone"
\* The same when no worker is on the job: as at "load".
Paid(j) ==
    /\ pubs[j] = 0 => charges[j] = 0
    /\ \A w \in Workers : Own(w) = j => Owes(task[w].at, charges[j], rows[j].status)
    /\ (\A w \in Workers : Own(w) # j) => Owes("load", charges[j], rows[j].status)
Orderly == \A j \in Jobs : Calm(j) => QP!OneCopy(Of(j)) /\ Paid(j)

\* A job is never calm again.
LEMMA CalmBack ==
    ASSUME IInv, Q!IInv, Sound, NEW j \in Jobs, Calm(j)',
           \/ \E w \in Workers : Works(w) \/ Moves(w)
           \/ \E r \in Requests, k \in Jobs : Touches(r, k) \/ Publishes(r, k) \/ Fails(r, k)
           \/ Edits
    PROVE  Calm(j)
  <1>1. /\ rows \in [Jobs -> Job] /\ reqs \in [Requests -> ReqRec] /\ pubs \in [Jobs -> Nat]
        /\ NoJob \notin Jobs
    BY Parts, PipelineAssumption DEF PipelineAssumption, RowsOK, ReqsOK, RestOK
  <1>2. risk \subseteq risk' /\ excused \subseteq excused'
    BY DEF Works, Moves, Touches, Publishes, Fails, Edits
  <1>3. rows[j].status # "DELETED"
    BY <1>1 DEF Calm, Works, Moves, Touches, Publishes, Fails, Edits, Exists
  <1>4. ASSUME Racing(j) PROVE FALSE
    <2>1. CASE UNCHANGED <<reqs, pubs>>
      BY <1>4, <2>1 DEF Calm, Racing
    <2>2. ASSUME NEW r \in Requests, NEW k \in Jobs, Touches(r, k) PROVE FALSE
      <3>1. pubs' = pubs /\ \A q \in Requests : reqs[q].job = j => reqs'[q].job = j
        BY <1>1, <2>2 DEF Touches
      <3>2. QED
        BY <1>4, <3>1 DEF Calm, Racing
    <2>3. ASSUME NEW r \in Requests, NEW k \in Jobs, Fails(r, k) PROVE FALSE
      <3>1. k # j
        BY <2>3 DEF Fails, Calm
      <3>2. pubs' = pubs /\ \A q \in Requests : reqs[q].job = j => reqs'[q].job = j
        BY <1>1, <2>3, <3>1 DEF Fails
      <3>3. QED
        BY <1>4, <3>2 DEF Calm, Racing
    <2>4. ASSUME NEW r \in Requests, NEW k \in Jobs, Publishes(r, k) PROVE FALSE
      <3>1. CASE k # j
        <4>1. pubs'[j] = pubs[j] /\ \A q \in Requests : reqs[q].job = j => reqs'[q].job = j
          BY <1>1, <2>4, <3>1 DEF Publishes
        <4>2. QED
          BY <1>4, <4>1 DEF Calm, Racing
      <3>2. CASE k = j
        <4>1. /\ pubs'[j] = pubs[j] + 1 /\ pubs[j] \in Nat
              /\ \A q \in Requests \ {r} : reqs'[q] = reqs[q]
          BY <1>1, <2>4, <3>2 DEF Publishes
        <4>2. pubs[j] = 0
          BY <4>1 DEF Calm, Racing
        <4>3. PICK q \in Requests : q # r /\ reqs[q].job = j
          BY <1>4, <4>2 DEF Racing
        <4>4. pubs'[j] = 1 /\ reqs'[q].job = j
          BY <4>1, <4>2, <4>3
        <4>5. QED
          BY <4>4 DEF Calm, Racing
      <3>3. QED
        BY <3>1, <3>2
    <2>5. QED
      BY <2>1, <2>2, <2>3, <2>4 DEF Works, Moves, Edits
  <1>5. QED
    BY <1>2, <1>3, <1>4 DEF Calm

\* A job that a worker is on was published.
LEMMA OwnFact ==
    ASSUME IInv, Q!IInv, Sound, NEW w \in Workers, pc[w] = "run"
    PROVE  /\ InWork(w) \in Jobs
           /\ pubs[InWork(w)] # 0
           /\ rows[InWork(w)].status # "NEW"
  <1>1. InWork(w) \in Jobs
    BY MsgFact DEF InWork
  <1>2. cur[w] \in Q!Entries
    BY DEF Q!IInv, Q!SettledFirst, Q!Delivered
  <1>3. Q!Msg(cur[w]) \in Q!Published
    BY <1>2 DEF Q!Published
  <1>4. Q!Msg(cur[w])[2] \in 1..pubs[InWork(w)]
    BY <1>3 DEF Sound, Numbered, InWork
  <1>5. pubs[InWork(w)] # 0
    BY <1>4
  <1>6. QED
    BY <1>1, <1>5 DEF Sound, Inserted

\* A job that was not published is on no worker's hands, and nothing of it is queued.
LEMMA Untouched ==
    ASSUME IInv, Q!IInv, Sound, NEW j \in Jobs, pubs[j] = 0
    PROVE  /\ \A w \in Workers : Own(w) # j
           /\ Q!Published \cap Of(j) = {}
  <1>1. ASSUME NEW w \in Workers, Own(w) = j PROVE FALSE
    <2>1. task[w].job # NoJob
      BY <1>1, PipelineAssumption DEF PipelineAssumption, Own
    <2>2. pc[w] = "run" /\ InWork(w) = j
      BY <1>1, <2>1 DEF Sound, Tied, GoodWork, Own
    <2>3. QED
      BY <2>2, OwnFact
  <1>2. ASSUME NEW m \in Q!Published \cap Of(j) PROVE FALSE
    <2>1. m[2] \in 1..pubs[m[1]] /\ m[1] = j
      BY <1>2 DEF Sound, Numbered, Of
    <2>2. QED
      BY <2>1
  <1>3. QED
    BY <1>1, <1>2

\* At most one worker is on a calm job.
LEMMA Alone ==
    ASSUME IInv, Q!IInv, Sound, Orderly, NEW v \in Workers, NEW w \in Workers,
           pc[v] = "run", pc[w] = "run", InWork(v) = InWork(w), Calm(InWork(w))
    PROVE  v = w
  <1>1. PICK j : j = InWork(w)
    OBVIOUS
  <1>2. j \in Jobs /\ j \notin risk
    BY <1>1, OwnFact DEF Calm
  <1>3. QP!Exclusive(Of(j)) /\ QP!OneCopy(Of(j))
    BY <1>1, <1>2 DEF Sound, HeldByOne, Orderly
  <1>4. ASSUME NEW u \in Workers, pc[u] = "run", InWork(u) = j
        PROVE  cur[u] \in QP!Copies(Of(j)) /\ cur[u] \in QP!Held(u) /\ QP!Sole(u, cur[u])
    <2>1. cur[u] \in Q!Delivered /\ cur[u] \in Q!Entries
      BY <1>4 DEF Q!IInv, Q!SettledFirst, Q!Delivered
    <2>2. Q!Msg(cur[u]) \in Publications
      <3>1. PICK s \in Q!Streams : cur[u] \in {s} \X (1..Len(log[s]))
        BY <2>1 DEF Q!Entries
      <3>2. log[s] \in Seq(Publications) /\ cur[u][1] = s /\ cur[u][2] \in 1..Len(log[s])
        BY <3>1 DEF Q!IInv, Q!TypeOK
      <3>3. QED
        BY <3>2 DEF Q!Msg
    <2>3. QP!Msg(cur[u]) \in Of(j)
      BY <1>4, <2>2, SameEntries DEF Of, Publications, InWork
    <2>4. cur[u] # QP!NoEntry
      <3>1. cur[u][1] \in Q!Streams
        BY <2>1 DEF Q!Entries
      <3>2. QED
        BY <3>1 DEF QP!NoEntry, Q!Streams
    <2>5. cur[u] \in QP!Held(u) /\ QP!Sole(u, cur[u])
      BY <1>3, <2>3, <2>4 DEF QP!Held, QP!Exclusive
    <2>6. cur[u] \in QP!Available
      BY <2>1, <2>5, SameEntries DEF QP!Sole, QP!Available
    <2>7. QP!Secured(cur[u])
      <3> SUFFICES ASSUME NEW x \in Workers, pc[x] = "reack", cur[x] = cur[u] PROVE FALSE
        BY DEF QP!Secured
      <3>1. x # u /\ cur[u] \in QP!Held(x)
        BY <1>4, <2>4 DEF QP!Held
      <3>2. QED
        BY <2>5, <3>1 DEF QP!Sole
    <2>8. QED
      BY <2>3, <2>5, <2>6, <2>7 DEF QP!Copies
  <1>5. /\ cur[v] \in QP!Copies(Of(j)) /\ cur[v] \in QP!Held(v)
        /\ cur[w] \in QP!Copies(Of(j)) /\ QP!Sole(w, cur[w])
    BY <1>1, <1>4
  <1>6. cur[v] = cur[w]
    BY <1>3, <1>5 DEF QP!OneCopy
  <1>7. QED
    BY <1>5, <1>6 DEF QP!Sole

\* What process_job owes after each of its steps.
LEMMA OwesStep ==
    ASSUME IInv, Q!IInv, Sound, NEW w \in Workers, Process(w) \/ ProcessError(w),
           NEW j \in Jobs, j = InWork(w), Calm(j)', Owes(task[w].at, charges[j], rows[j].status)
    PROVE  Owes(task'[w].at, charges'[j], rows'[j].status)
  <1>1. pc[w] = "run"
    BY DEF Process, Load, Replay, Start, PreCheck, Refuse, Refused, Announce,
           Prepare, Upload, WorkError, Charge, SaveDone, PublishDone, Except, PublishFailed,
           ProcessError, ReplayError, RefusedError, AnnounceError, PublishDoneError, At
  <1>2. rows[j].status # "NEW"
    BY <1>1, OwnFact
  <1>3. /\ rows \in [Jobs -> Job] /\ task \in [Workers -> TaskRec] /\ charges \in [Jobs -> Nat]
        /\ task[w] \in TaskRec /\ GoodWork(task[w], "run", j) /\ Backed(rows[j], j)
        /\ rows[j] \in Job /\ charges[j] \in Nat
    BY <1>1, <1>2, Parts DEF RowsOK, TaskOK, RestOK, Sound, Tied
  <1>4. j \notin risk' /\ j \notin excused' /\ rows'[j].status # "DELETED"
    BY DEF Calm
  <1>5. task[w].at # "load" => Own(w) = j
    BY <1>3 DEF GoodWork, Own
  <1>7. CASE Load(w)
    <2>1. PICK at \in {"replay", "start"} :
              /\ task' = [task EXCEPT ![w] = [at |-> at, job |-> j, ent |-> BuildJob]]
              /\ at = "replay" <=> Done(rows[j])
      BY <1>2, <1>4, <1>7 DEF Load, InWork
    <2>2. task'[w].at = at /\ task[w].at = "load" /\ UNCHANGED <<rows, charges>>
      BY <1>3, <1>7, <2>1 DEF Load, At, effects
    <2>3. at = "replay" <=> rows[j].status = "COMPLETED"
      BY <1>3, <2>1 DEF Done, Backed
    <2>4. QED
      BY <1>3, <1>5, <2>2, <2>3 DEF Owes, Unpaid
  <1>8. CASE Replay(w) \/ ReplayError(w) \/ Refused(w) \/ PublishDone(w) \/ PublishFailed(w)
    <2>1. task'[w].at = "load" /\ task[w].at \in Unpaid \cup {"replay", "publishDone"}
          /\ UNCHANGED <<rows, charges>>
      BY <1>3, <1>8 DEF Replay, ReplayError, Refused, PublishDone, PublishFailed, At, NoTask,
         effects, Unpaid, TaskSteps
    <2>2. QED
      BY <1>5, <2>1 DEF Owes, Unpaid
  \* The row is left alone, or takes a status other than COMPLETED.
  <1>9. ASSUME task[w].at \in Unpaid, task'[w].at \in Unpaid, UNCHANGED charges,
               \/ rows'[j] = rows[j] \/ rows'[j].status # "COMPLETED"
        PROVE  Owes(task'[w].at, charges'[j], rows'[j].status)
    BY <1>9 DEF Owes, Unpaid
  <1>10. ASSUME NEW job \in Job, NEW terminal, PersistOr(w, job, terminal),
                job.status # "COMPLETED", task[w].at # "load"
         PROVE  rows'[j] = rows[j] \/ rows'[j].status # "COMPLETED"
    BY <1>3, <1>5, <1>10 DEF PersistOr, Save, Exists
  <1>11. CASE Start(w)
    <2>1. PICK job : job = StartProcessing(task[w].ent)
      OBVIOUS
    <2>2. job \in Job /\ job.status # "COMPLETED"
      BY <1>3, <2>1 DEF StartProcessing, TaskRec, Job, Statuses
    <2>3. PersistOr(w, job, FALSE) /\ task[w].at = "start" /\ UNCHANGED charges
          /\ task' = [task EXCEPT ![w].at = "precheck", ![w].ent = job]
      BY <1>11, <2>1 DEF Start, At, effects
    <2>4. task'[w].at = "precheck"
      BY <1>3, <2>3 DEF TaskRec
    <2>5. QED
      BY <1>9, <1>10, <2>2, <2>3, <2>4 DEF Unpaid, TaskSteps
  <1>12. CASE PreCheck(w) \/ RefusedError(w) \/ AnnounceError(w) \/ Prepare(w) \/ WorkError(w)
    <2>1. task[w].at \in Unpaid /\ task'[w].at \in Unpaid /\ UNCHANGED <<rows, charges>>
      BY <1>3, <1>12 DEF PreCheck, RefusedError, AnnounceError, Prepare, WorkError, At, Goto,
         Phases, Unpaid, TaskSteps, TaskRec, effects
    <2>2. QED
      BY <1>9, <2>1
  <1>13. CASE Refuse(w)
    <2>1. /\ task[w].at = "refuse" /\ task'[w].at = "refused" /\ UNCHANGED charges
          /\ PersistOr(w, task[w].ent, TRUE)
      BY <1>3, <1>13 DEF Refuse, At, Goto, effects, TaskRec
    <2>2. task[w].ent \in Job /\ task[w].ent.status # "COMPLETED"
      BY <1>3, <2>1 DEF GoodWork, TaskRec
    <2>3. QED
      BY <1>9, <1>10, <2>1, <2>2 DEF Unpaid, TaskSteps
  <1>14. CASE Announce(w)
    <2>1. PICK p \in Phases : At(w, p[1]) /\ PersistOr(w, task[w].ent, FALSE) /\ Goto(w, p[2])
      BY <1>14 DEF Announce
    <2>2. /\ task[w].at \in {"download", "convert", "upload"}
          /\ p[2] \in {"downloading", "converting", "uploading"}
      BY <2>1 DEF Phases, At
    <2>3. task'[w].at = p[2] /\ UNCHANGED charges
      BY <1>3, <1>14, <2>1 DEF Announce, Goto, effects, TaskRec
    <2>4. task[w].ent \in Job /\ task[w].ent.status # "COMPLETED"
      BY <1>3, <2>2 DEF GoodWork, TaskRec
    <2>5. task[w].at \in Unpaid /\ task'[w].at \in Unpaid /\ task[w].at # "load"
      BY <2>2, <2>3 DEF Unpaid, TaskSteps
    <2>6. QED
      BY <1>9, <1>10, <2>1, <2>3, <2>4, <2>5
  <1>15. CASE Upload(w)
    <2>1. task[w].at \in Unpaid /\ task'[w].at \in Unpaid /\ UNCHANGED <<rows, charges>>
      BY <1>3, <1>15 DEF Upload, At, Goto, Unpaid, TaskSteps, TaskRec
    <2>2. QED
      BY <1>9, <2>1
  <1>16. CASE Charge(w)
    <2>1. /\ task[w].at = "charge" /\ task'[w].at = "saveDone" /\ UNCHANGED rows
          /\ charges'[j] \in {charges[j], charges[j] + 1}
      BY <1>3, <1>5, <1>16 DEF Charge, At, Goto, TaskRec
    <2>2. QED
      BY <1>3, <1>5, <2>1 DEF Owes, Unpaid, TaskSteps
  <1>17. CASE SaveDone(w)
    <2>1. /\ task[w].at = "saveDone" /\ task'[w].at = "publishDone" /\ UNCHANGED charges
          /\ PersistOr(w, task[w].ent, TRUE)
      BY <1>3, <1>17 DEF SaveDone, At, Goto, effects, TaskRec
    <2>2. Save(j, task[w].ent) /\ task[w].ent.status = "COMPLETED"
      BY <1>3, <1>4, <1>5, <2>1 DEF PersistOr, GoodWork
    <2>3. rows'[j].status = "COMPLETED"
      BY <1>2, <1>3, <1>4, <2>2 DEF Save, Exists
    <2>4. QED
      BY <1>5, <2>1, <2>3 DEF Owes, Unpaid
  <1>18. CASE PublishDoneError(w)
    BY <1>4, <1>5, <1>18 DEF PublishDoneError, At
  <1>19. CASE Except(w)
    <2>1. PICK job : job = MarkFailed(task[w].ent)
      OBVIOUS
    <2>2. job \in Job /\ job.status # "COMPLETED"
      BY <1>3, <2>1 DEF MarkFailed, TaskRec, Job, Statuses
    <2>3. PersistOr(w, job, TRUE) /\ task[w].at = "except" /\ UNCHANGED charges
          /\ task' = [task EXCEPT ![w].at = "publishFailed", ![w].ent = job]
      BY <1>19, <2>1 DEF Except, At, effects
    <2>4. task'[w].at = "publishFailed"
      BY <1>3, <2>3 DEF TaskRec
    <2>5. QED
      BY <1>9, <1>10, <2>2, <2>3, <2>4 DEF Unpaid, TaskSteps
  <1>20. QED
    BY <1>7, <1>8, <1>11, <1>12, <1>13, <1>14, <1>15, <1>16, <1>17, <1>18, <1>19
       DEF Process, ProcessError

\* At most one copy of a calm job is about, step by step.
LEMMA CopiesStep ==
    ASSUME IInv, Q!IInv, Sound, NEW j \in Jobs, Calm(j), Calm(j)', QP!OneCopy(Of(j)),
           \/ UNCHANGED <<queue, faults>>
           \/ \E w \in Workers : Moves(w)
           \/ \E r \in Requests, k \in Jobs : Publishes(r, k)
    PROVE  QP!OneCopy(Of(j))'
  <1>1. PICK M : M = Of(j)
    OBVIOUS
  <1>2. SUFFICES QP!OneCopy(M)'
    BY <1>1 DEF Of
  <1>3. QP!IInv /\ QP!OneCopy(M) /\ QP!Exclusive(M)
    BY <1>1, SameInv DEF Sound, HeldByOne, Calm
  <1>4. CASE UNCHANGED <<queue, faults>>
    BY <1>3, <1>4, QuietQueue
  <1>5. ASSUME NEW w \in Workers, Moves(w) PROVE QP!OneCopy(M)'
    <2>1. QP!WorkerNext(w)
      BY <1>5, SameSteps DEF Moves
    <2>2. \A v \in Workers \ {w} : pc'[v] = pc[v]
      BY <1>5, QueueFrame DEF Moves
    <2>3. ASSUME NEW v \in Workers, pc[v] = "reack", QP!Msg(cur[v]) \in M
          PROVE  pc'[v] = "reack" \/ cur[v] \notin pel'
      <3>1. CASE v = w
        <4>1. InWork(w) = j
          BY <1>1, <2>3, <3>1, SameEntries DEF InWork, Of
        <4>2. j \notin risk'
          BY DEF Calm
        <4>3. QED
          BY <1>5, <2>3, <3>1, <4>1, <4>2 DEF Moves
      <3>2. QED
        BY <2>2, <2>3, <3>1
    <2>4. QP!NoSecond(M)
      BY <2>3 DEF QP!NoSecond
    <2>5. QED
      BY <1>3, <2>1, <2>4, QP!CopiesInductive, StreamConstants
  <1>6. ASSUME NEW r \in Requests, NEW k \in Jobs, Publishes(r, k) PROVE QP!OneCopy(M)'
    <2>1. PICK m \in Publications, s \in Q!Streams : m = <<k, pubs[k] + 1>> /\ QP!Publish(m, s)
      BY <1>6, PublishesFact
    <2>2. m \in M => QP!Published \cap M = {}
      <3> SUFFICES ASSUME m \in M PROVE Q!Published \cap M = {}
        BY SameEntries
      <3>1. k = j
        BY <1>1, <2>1 DEF Of
      <3>2. pubs[j] \in Nat /\ pubs[j] # 1 /\ ~(pubs[j] > 1)
        BY <1>6, <3>1, Parts DEF Calm, Racing, Publishes, RestOK
      <3>3. pubs[j] = 0
        BY <3>2
      <3>4. QED
        BY <1>1, <3>3, Untouched
    <2>3. QED
      BY <1>3, <2>1, <2>2, SameEntries, QP!CopiesInductive, StreamConstants
  <1>7. QED
    BY <1>4, <1>5, <1>6

\* A step that leaves the job and its worker alone.
LEMMA PaidRule ==
    ASSUME NEW j, Paid(j), rows'[j] = rows[j], charges'[j] = charges[j],
           pubs'[j] = 0 => pubs[j] = 0,
           \A w \in Workers :
              (Own(w) = j \/ task'[w].job = j) => task'[w] = task[w]
    PROVE  Paid(j)'
  <1>1. \A w \in Workers : Own(w)' = j => Own(w) = j /\ task'[w] = task[w]
    BY DEF Own
  <1>2. (\A w \in Workers : Own(w)' # j) => \A w \in Workers : Own(w) # j
    BY DEF Own
  <1>3. QED
    BY <1>1, <1>2 DEF Paid, Own, Owes

\* An unpublished job stays unpaid.
LEMMA IdleRule ==
    ASSUME IInv, Q!IInv, Sound, NEW j \in Jobs, pubs[j] = 0, Paid(j), UNCHANGED <<charges, task>>
    PROVE  Paid(j)'
  <1>1. charges'[j] = 0 /\ \A w \in Workers : Own(w)' # j
    BY Untouched DEF Paid, Own
  <1>2. QED
    BY <1>1 DEF Paid, Owes, Unpaid

\* A calm job is charged once, step by step.
LEMMA PaidStep ==
    ASSUME IInv, Q!IInv, Sound, Orderly, NEW j \in Jobs, Calm(j), Calm(j)', Paid(j),
           \/ \E w \in Workers : (Works(w) /\ (Process(w) \/ ProcessError(w))) \/ Moves(w)
           \/ \E r \in Requests, k \in Jobs : Touches(r, k) \/ Publishes(r, k) \/ Fails(r, k)
           \/ Edits
    PROVE  Paid(j)'
  <1>1. /\ task \in [Workers -> TaskRec] /\ pubs \in [Jobs -> Nat] /\ pubs[j] \in Nat
        /\ charges[j] \in Nat /\ NoJob \notin Jobs /\ NoJob # j
        /\ Numbered /\ Inserted /\ Plain /\ Tied
    BY Parts, PipelineAssumption DEF PipelineAssumption, TaskOK, RestOK, Sound
  <1>2. \A w \in Workers : Own(w) = j => pc[w] = "run" /\ InWork(w) = j /\ task[w].at # "load"
    BY <1>1 DEF Tied, GoodWork, Own
  <1>3. ASSUME NEW r \in Requests, reqs[r].job = j PROVE pubs[j] = 0
    <2>1. pubs[j] # 1 /\ ~(pubs[j] > 1)
      BY <1>3 DEF Calm, Racing
    <2>2. QED
      BY <1>1, <2>1
  <1>4. ASSUME NEW w \in Workers, Works(w), Process(w) \/ ProcessError(w) PROVE Paid(j)'
    <2>1. /\ pc[w] = "run" /\ UNCHANGED pubs
          /\ \A v \in Workers \ {w} : task'[v] = task[v]
          /\ GoodWork(task'[w], "run", InWork(w)) /\ task'[w].at # "load"
          /\ \A k \in Jobs \ {InWork(w)} : rows'[k] = rows[k] /\ charges'[k] = charges[k]
      BY <1>4 DEF Works
    <2>2. task'[w].job = InWork(w) /\ (Own(w) # NoJob => Own(w) = InWork(w))
      BY <1>1, <2>1 DEF GoodWork, Tied, Own
    <2>3. CASE InWork(w) # j
      BY <1>1, <2>1, <2>2, <2>3, PaidRule
    <2>4. CASE InWork(w) = j
      <3>1. \A v \in Workers \ {w} : Own(v) # j
        BY <1>2, <2>1, <2>4, Alone
      <3>2. Owes(task[w].at, charges[j], rows[j].status)
        <4>1. CASE Own(w) = j
          BY <4>1 DEF Paid
        <4>2. CASE Own(w) # j
          <5>1. task[w].at = "load"
            BY <1>1, <2>2, <2>4, <4>2 DEF Tied, GoodWork, Own
          <5>2. Owes("load", charges[j], rows[j].status)
            BY <3>1, <4>2 DEF Paid
          <5>3. QED
            BY <5>1, <5>2
        <4>3. QED
          BY <4>1, <4>2
      <3>3. Owes(task'[w].at, charges'[j], rows'[j].status)
        BY <1>4, <2>4, <3>2, OwesStep
      <3>4. /\ Own(w)' = j
            /\ \A v \in Workers : Own(v)' = j => v = w
        BY <2>1, <2>2, <2>4, <3>1 DEF Own
      <3>5. pubs'[j] # 0
        BY <2>1, <2>4, OwnFact
      <3>6. QED
        BY <3>3, <3>4, <3>5 DEF Paid, Owes
    <2>5. QED
      BY <2>3, <2>4
  <1>5. ASSUME NEW w \in Workers, Moves(w) PROVE Paid(j)'
    <2>1. /\ UNCHANGED <<rows, pubs, charges>> /\ task'[w].job = NoJob
          /\ \A v \in Workers \ {w} : task'[v] = task[v]
      BY <1>5 DEF Moves
    <2>2. CASE Own(w) # j
      BY <1>1, <2>1, <2>2, PaidRule
    <2>3. CASE Own(w) = j
      <3>1. pc[w] = "run" /\ InWork(w) = j /\ \A v \in Workers \ {w} : Own(v) # j
        BY <1>2, <2>3, Alone
      <3>2. \A v \in Workers : Own(v)' # j
        BY <1>1, <2>1, <3>1 DEF Own
      <3>3. Owes(task[w].at, charges[j], rows[j].status) /\ task[w].at # "load"
        BY <1>2, <2>3 DEF Paid
      <3>4. task[w].at # "saveDone"
        BY <1>5, <3>1 DEF Moves, Calm
      <3>5. task[w].at \in Unpaid \/ task[w].at \in {"replay", "publishDone"}
        BY <1>1, <3>3, <3>4 DEF Unpaid, TaskRec
      <3>6. Owes("load", charges'[j], rows'[j].status)
        BY <2>1, <3>3, <3>5 DEF Owes, Unpaid
      <3>7. pubs'[j] = 0 => charges'[j] = 0
        BY <2>1 DEF Paid
      <3>8. QED
        BY <3>2, <3>6, <3>7 DEF Paid, Owes
    <2>4. QED
      BY <2>2, <2>3
  <1>6. ASSUME NEW r \in Requests, NEW k \in Jobs, Touches(r, k) PROVE Paid(j)'
    <2>1. UNCHANGED <<pubs, task, charges>> /\ \A i \in Jobs \ {k} : rows'[i] = rows[i]
      BY <1>6 DEF Touches
    <2>2. CASE rows'[j] = rows[j]
      BY <2>1, <2>2, PaidRule
    <2>3. CASE rows'[j] # rows[j]
      <3>1. reqs[r].job = j \/ rows[j].status = "NEW"
        BY <1>6, <2>1, <2>3 DEF Touches
      <3>2. pubs[j] = 0
        BY <1>1, <1>3, <3>1 DEF Inserted
      <3>3. QED
        BY <2>1, <3>2, IdleRule
    <2>4. QED
      BY <2>2, <2>3
  <1>7. ASSUME NEW r \in Requests, NEW k \in Jobs, Publishes(r, k) \/ Fails(r, k) PROVE Paid(j)'
    <2>1. UNCHANGED <<rows, task, charges>> /\ reqs[r].job = k
          /\ \A i \in Jobs \ {k} : pubs'[i] = pubs[i]
      BY <1>1, <1>7 DEF Publishes, Fails
    <2>2. CASE k # j
      BY <2>1, <2>2, PaidRule
    <2>3. CASE k = j
      BY <1>3, <2>1, <2>3, IdleRule
    <2>4. QED
      BY <2>2, <2>3
  <1>8. ASSUME Edits PROVE Paid(j)'
    <2>1. CASE rows'[j] = rows[j]
      BY <1>8, <2>1, PaidRule DEF Edits
    <2>2. CASE rows'[j] # rows[j]
      <3>1. rows[j].status = "NEW"
        BY <1>8, <2>2 DEF Edits, Calm
      <3>2. QED
        BY <1>1, <1>8, <3>1, IdleRule DEF Edits, Inserted
    <2>3. QED
      BY <2>1, <2>2
  <1>9. QED
    BY <1>4, <1>5, <1>6, <1>7, <1>8

\* Orderly is inductive.
LEMMA OrderlyStep ==
    ASSUME IInv, Q!IInv, Sound, Orderly, "batch" \notin Ops, [Next]_vars
    PROVE  Orderly'
  <1>1. \/ \E w \in Workers : (Works(w) /\ (Process(w) \/ ProcessError(w))) \/ Moves(w)
        \/ \E r \in Requests, j \in Jobs : Touches(r, j) \/ Publishes(r, j) \/ Fails(r, j)
        \/ Edits
    BY StepFact DEF Sound
  <1> SUFFICES ASSUME NEW j \in Jobs, Calm(j)' PROVE QP!OneCopy(Of(j))' /\ Paid(j)'
    BY DEF Orderly, Of
  <1>2. Calm(j)
    BY <1>1, CalmBack
  <1>3. QP!OneCopy(Of(j)) /\ Paid(j)
    BY <1>2 DEF Orderly
  <1>4. QP!OneCopy(Of(j))'
    BY <1>1, <1>2, <1>3, CopiesStep DEF Works, Touches, Fails, Edits
  <1>5. Paid(j)'
    BY <1>1, <1>2, <1>3, PaidStep
  <1>6. QED
    BY <1>4, <1>5

\* Orderly holds initially.
LEMMA OrderlyInit ==
    ASSUME Init
    PROVE  Orderly
  <1> SUFFICES ASSUME NEW j \in Jobs PROVE QP!OneCopy(Of(j)) /\ Paid(j)
    BY DEF Orderly
  <1>1. QP!IInv /\ QP!Published \cap Of(j) = {}
    <2>1. Q!Published = {}
      BY DEF Init, Q!Init, Q!Published, Q!Entries
    <2>2. QED
      BY <2>1, QueueInit, SameInv, SameEntries DEF Init
  <1>2. QP!OneCopy(Of(j))
    BY <1>1, QP!CopiesInductive, StreamConstants
  <1>3. charges[j] = 0 /\ \A w \in Workers : Own(w) # j
    BY PipelineAssumption DEF PipelineAssumption, Init, Own, NoTask
  <1>4. Paid(j)
    BY <1>3 DEF Paid, Owes, Unpaid
  <1>5. QED
    BY <1>2, <1>4

------------------------------------------------------------------------------
(* Theorems about undisturbed jobs *)

\* The second invariant holds as long as no batch stamps its items after they
\* were published.
THEOREM OrderlyTheorem ==
    ASSUME "batch" \notin Ops
    PROVE  Spec => [](IInv /\ Q!IInv /\ Sound /\ Orderly)
  <1>1. Init => Sound /\ Orderly
    BY SoundInit, OrderlyInit
  <1>2. /\ IInv /\ Q!IInv /\ Sound /\ Orderly /\ [Next]_vars
        => Sound' /\ Orderly'
    BY SoundStep, OrderlyStep
  <1>3. QED
    BY <1>1, <1>2, Invariance, PTL DEF Spec

\* A job without a contender is calm, unless it was deleted, excused or put at
\* risk.
LEMMA CalmFact ==
    ASSUME IInv, NEW j \in Jobs, ~Contended(j), rows[j].status # "DELETED",
           j \notin risk \cup excused
    PROVE  Calm(j)
  <1>1. pubs[j] \in Nat
    BY Parts DEF RestOK
  <1>2. QED
    BY <1>1 DEF Contended, Calm, Racing

\* The idempotency guard: a redelivered job is charged once.
THEOREM ChargedOnceTheorem ==
    ASSUME "batch" \notin Ops
    PROVE  Spec => []ChargedOnce
  <1>1. IInv /\ Orderly => ChargedOnce
    <2> SUFFICES ASSUME IInv, Orderly, NEW j \in Jobs, charges[j] > 1, Calm(j) PROVE FALSE
      BY CalmFact DEF ChargedOnce
    <2>1. Paid(j) /\ charges[j] \in Nat
      BY Parts DEF Orderly, RestOK
    <2>2. charges[j] <= 1
      BY <2>1 DEF Paid, Owes
    <2>3. QED
      BY <2>1, <2>2
  <1>2. QED
    BY <1>1, OrderlyTheorem, PTL

\* The row shows the output before the COMPLETED event goes out.
THEOREM CompletedVisibleTheorem ==
    ASSUME "batch" \notin Ops
    PROVE  Spec => []CompletedVisible
  <1>1. IInv /\ Orderly => CompletedVisible
    <2> SUFFICES ASSUME IInv, Orderly PROVE CompletedVisible
      OBVIOUS
    <2>0. \A w \in Workers : At(w, "publishDone") => Own(w) \in Jobs
      BY DEF IInv, Busy, At
    <2> SUFFICES ASSUME NEW w \in Workers, At(w, "publishDone"), Calm(Own(w))
                 PROVE  Done(rows[Own(w)])
      BY <2>0, CalmFact DEF CompletedVisible
    <2>1. Own(w) \in Jobs
      BY <2>0
    <2>2. Paid(Own(w)) /\ Backed(rows[Own(w)], Own(w))
      BY <2>1, Parts DEF Orderly, RowsOK
    <2>3. rows[Own(w)].status = "COMPLETED"
      BY <2>2 DEF Paid, Owes, At
    <2>4. QED
      BY <2>2, <2>3 DEF Backed, Done
  <1>2. QED
    BY <1>1, OrderlyTheorem, PTL

\* The steps of process_job that write the row.
LEMMA WriteFact ==
    ASSUME NEW w \in Workers, Process(w) \/ ProcessError(w), rows' # rows
    PROVE  pc[w] = "run" /\ task[w].at \in Unpaid \cup {"saveDone"}
  <1>1. Start(w) \/ Refuse(w) \/ Announce(w) \/ SaveDone(w) \/ Except(w)
    BY DEF Process, Load, Replay, PreCheck, Refused, Prepare, Upload, WorkError, Charge, PublishDone,
           PublishFailed, ProcessError, ReplayError, RefusedError, AnnounceError, PublishDoneError
  <1>2. Announce(w) => pc[w] = "run" /\ task[w].at \in {"download", "convert", "upload"}
    BY DEF Announce, At, Phases
  <1>3. QED
    BY <1>1, <1>2 DEF Start, Refuse, SaveDone, Except, At, Unpaid, TaskSteps

\* A completed job stays downloadable until it is deleted.
THEOREM DownloadKeptTheorem ==
    ASSUME "batch" \notin Ops
    PROVE  Spec => DownloadKept
  <1>1. ASSUME IInv, Q!IInv, Sound, Orderly, [Next]_vars, NEW j \in Jobs, Done(rows[j]),
               ~Contended(j), j \notin risk \cup excused, rows'[j] # rows[j]
        PROVE  rows'[j].status = "DELETED"
    <2>1. rows[j].status = "COMPLETED" /\ Calm(j)
      BY <1>1, CalmFact DEF Done
    <2>2. Paid(j) /\ rows' # rows
      BY <1>1, <2>1 DEF Orderly
    <2>3. \/ \E w \in Workers : (Works(w) /\ (Process(w) \/ ProcessError(w))) \/ Moves(w)
          \/ \E r \in Requests, k \in Jobs : Touches(r, k) \/ Publishes(r, k) \/ Fails(r, k)
          \/ Edits
      BY <1>1, StepFact DEF Sound
    <2>4. ASSUME NEW w \in Workers, Works(w), Process(w) \/ ProcessError(w) PROVE FALSE
      <3>1. task[w].at \in Unpaid \cup {"saveDone"}
        BY <2>2, <2>4, WriteFact
      <3>2. InWork(w) = j
        BY <1>1, <2>4 DEF Works
      <3>3. Own(w) = j
        BY <1>1, <3>1, <3>2 DEF Sound, Tied, GoodWork, Own, Unpaid
      <3>4. QED
        BY <2>1, <2>2, <3>1, <3>3 DEF Paid, Owes
    <2>5. ASSUME NEW r \in Requests, NEW k \in Jobs, Touches(r, k) PROVE FALSE
      BY <1>1, <2>1, <2>5 DEF Touches, Contended
    <2>6. QED
      BY <1>1, <2>1, <2>2, <2>3, <2>4, <2>5 DEF Moves, Publishes, Fails, Edits
  <1>2. IInv /\ Q!IInv /\ Sound /\ Orderly /\ [Next]_vars =>
           [\A j \in Jobs :
              Done(rows[j]) => \/ Done(rows'[j]) \/ rows'[j].status = "DELETED"
                               \/ Contended(j) \/ j \in risk \cup excused]_vars
    BY <1>1
  <1>3. QED
    BY <1>2, OrderlyTheorem, PTL DEF Spec, DownloadKept

------------------------------------------------------------------------------
(* No job is stuck *)

\* The worker is done with the entry in hand, but for the acknowledgement.
Spent(w) ==
    \/ pc[w] \in {"ack", "dlq", "fail", "reack"}
    \/ pc[w] = "run" /\ task[w].at \in Late
\* A request will publish the job, or an entry of it will be worked on.
Active(j) ==
    \/ \E r \in Requests : reqs[r].job = j
    \/ \E e \in Q!Available :
          Q!Msg(e)[1] = j /\ \A w \in Workers : cur[w] = e => ~Spent(w)
Unfinished(j) == rows[j].status \in {"PENDING", "PROCESSING"}
Pursued == \A j \in Jobs : Unfinished(j) => Active(j) \/ j \in excused \cup taken
\* The entries of a job no sweep has taken from a worker are in one worker's hands.
OneHand == \A j \in Jobs : j \notin taken => QP!Exclusive(Of(j))

\* Q and QP agree on the next state too.
LEMMA SameAfter ==
    /\ Q!Available' = QP!Available' /\ \A e : Q!Msg(e)' = QP!Msg(e)'
BY DEF Q!Msg, QP!Msg, Q!Entries, QP!Entries, Q!Streams, QP!Streams,
       Q!Available, QP!Available, Q!Delivered, QP!Delivered

\* Entries have publications as messages.
LEMMA PublicationFact ==
    ASSUME Q!IInv
    PROVE  \A e \in Q!Entries : Q!Msg(e) \in Publications /\ e # Q!NoEntry
  <1> SUFFICES ASSUME NEW e \in Q!Entries PROVE Q!Msg(e) \in Publications /\ e # Q!NoEntry
    OBVIOUS
  <1>1. PICK s \in Q!Streams : e \in {s} \X (1..Len(log[s]))
    BY DEF Q!Entries
  <1>2. log[s] \in Seq(Publications) /\ e[1] = s /\ e[2] \in 1..Len(log[s])
    BY <1>1 DEF Q!IInv, Q!TypeOK
  <1>3. e # Q!NoEntry
    BY <1>2 DEF Q!NoEntry, Q!Streams
  <1>4. QED
    BY <1>2, <1>3 DEF Q!Msg

\* OneHand is kept: a sweep that takes a held entry puts its job into taken.
LEMMA OneHandStep ==
    ASSUME IInv, Q!IInv, OneHand, [Next]_vars,
           \/ UNCHANGED <<queue, faults>> /\ taken \subseteq taken'
           \/ \E w \in Workers : Moves(w)
           \/ \E r \in Requests, j \in Jobs : Publishes(r, j)
    PROVE  OneHand'
  <1> SUFFICES ASSUME NEW j \in Jobs, j \notin taken' PROVE QP!Exclusive(Of(j))'
    BY DEF OneHand, Of
  <1>1. QP!IInv /\ [QP!Next]_(QP!vars)
    <2>1. UNCHANGED Q!vars => UNCHANGED QP!vars
      BY DEF QP!vars, Q!vars, QP!redis, Q!redis, QP!loop, Q!loop, QP!history, Q!history
    <2>2. QED
      BY <2>1, QueueRules, SameInv, SameNext
  <1>2. ASSUME j \notin taken, QP!NewClaims(Of(j)) PROVE QP!Exclusive(Of(j))'
    <2>1. PICK M : M = Of(j)
      OBVIOUS
    <2>2. QP!Exclusive(M) /\ QP!NewClaims(M)
      BY <1>2, <2>1 DEF OneHand
    <2>3. QP!Exclusive(M)'
      BY <1>1, <2>2, QP!ExclusiveInductive, StreamConstants
    <2>4. QED
      BY <2>1, <2>3 DEF Of
  <1>3. CASE UNCHANGED <<queue, faults>> /\ taken \subseteq taken'
    BY <1>2, <1>3 DEF queue, QP!NewClaims
  <1>4. ASSUME NEW w \in Workers, Moves(w) PROVE QP!Exclusive(Of(j))'
    <2>1. j \notin taken
      BY <1>4 DEF Moves
    <2>2. \A u : Q!Held(u) = QP!Held(u)
      BY SameEntries DEF Q!Held, QP!Held
    <2>3. \A v \in Workers : \A e \in claimed'[v] \ claimed[v] :
             QP!Msg(e)[1] = j => \A u \in Workers : e \notin QP!Held(u)
      BY <1>4, <2>2, SameEntries DEF Moves
    <2>4. QP!NewClaims(Of(j))
      BY <2>3 DEF QP!NewClaims, Of
    <2>5. QED
      BY <1>2, <2>1, <2>4
  <1>5. ASSUME NEW r \in Requests, NEW k \in Jobs, Publishes(r, k) PROVE QP!Exclusive(Of(j))'
    <2>1. claimed' = claimed /\ j \notin taken
      BY <1>5, PublishesFact DEF Publishes
    <2>2. QED
      BY <1>2, <2>1 DEF QP!NewClaims
  <1>6. QED
    BY <1>3, <1>4, <1>5

\* process_job goes late only with a finished row.
LEMMA LateFact ==
    ASSUME IInv, Sound, NEW w \in Workers, Process(w) \/ ProcessError(w), Works(w),
           NEW j \in Jobs, j = InWork(w), Unfinished(j)', j \notin excused'
    PROVE  task'[w].at \notin Late
  <1>1. /\ rows \in [Jobs -> Job] /\ task \in [Workers -> TaskRec]
        /\ task[w] \in TaskRec /\ GoodWork(task[w], "run", j) /\ pc[w] = "run"
    BY Parts DEF RowsOK, TaskOK, Sound, Tied, Works
  <1>2. task[w].at # "load" => Own(w) = j
    BY <1>1 DEF GoodWork, Own
  <1>3. rows'[j].status \in {"PENDING", "PROCESSING"}
    BY DEF Unfinished
  <1>4. ASSUME NEW job \in Job, PersistOr(w, job, TRUE), job.status \in {"COMPLETED", "FAILED"},
               task[w].at # "load"
        PROVE  FALSE
    BY <1>1, <1>2, <1>3, <1>4 DEF PersistOr, Save, Exists
  <1>5. CASE Load(w)
    <2>1. PICK at \in {"replay", "start"} :
              /\ task' = [task EXCEPT ![w] = [at |-> at, job |-> j, ent |-> BuildJob]]
              /\ at = "replay" => Done(rows[j])
      BY <1>5 DEF Load, InWork
    <2>2. at = "start" /\ task'[w].at = at
      BY <1>1, <1>3, <1>5, <2>1 DEF Load, Done
    <2>3. QED
      BY <2>2 DEF Late
  <1>6. CASE Refuse(w) \/ SaveDone(w)
    <2>1. task[w].ent \in Job /\ task[w].ent.status \in {"COMPLETED", "FAILED"}
          /\ task[w].at # "load" /\ PersistOr(w, task[w].ent, TRUE)
      BY <1>1, <1>6 DEF Refuse, SaveDone, At, GoodWork, TaskRec
    <2>2. QED
      BY <1>4, <2>1
  <1>7. CASE Except(w)
    <2>1. PICK job : job = MarkFailed(task[w].ent)
      OBVIOUS
    <2>2. job \in Job /\ job.status = "FAILED"
      BY <1>1, <2>1 DEF MarkFailed, TaskRec, Job, Statuses
    <2>3. PersistOr(w, job, TRUE) /\ task[w].at = "except"
      BY <1>7, <2>1 DEF Except, At
    <2>4. QED
      BY <1>4, <2>2, <2>3
  <1>8. CASE \/ Replay(w) \/ ReplayError(w) \/ Refused(w) \/ PublishDone(w) \/ PublishFailed(w)
    <2>1. task'[w].at = "load"
      BY <1>1, <1>8 DEF Replay, ReplayError, Refused, PublishDone, PublishFailed, NoTask
    <2>2. QED
      BY <2>1 DEF Late
  <1>9. CASE Announce(w)
    <2>1. PICK p \in Phases : Goto(w, p[2])
      BY <1>9 DEF Announce
    <2>2. task'[w].at = p[2] /\ p[2] \in {"downloading", "converting", "uploading"}
      BY <1>1, <2>1 DEF Goto, Phases, TaskRec
    <2>3. QED
      BY <2>2 DEF Late
  <1>10. CASE \/ Start(w) \/ PreCheck(w) \/ Prepare(w) \/ Upload(w) \/ WorkError(w) \/ Charge(w)
              \/ RefusedError(w) \/ AnnounceError(w) \/ PublishDoneError(w)
    <2>1. task'[w].at \in {"precheck", "download", "refuse", "convert", "upload", "charge",
                           "except", "saveDone"}
      <3>1. CASE Start(w) \/ PreCheck(w) \/ Prepare(w) \/ Upload(w)
        <4>1. CASE Start(w)
          BY <1>1, <4>1 DEF Start, TaskRec
        <4>2. CASE PreCheck(w)
          BY <1>1, <4>2 DEF PreCheck, Goto, TaskRec
        <4>3. CASE Prepare(w)
          BY <1>1, <4>3 DEF Prepare, Goto, TaskRec
        <4>4. CASE Upload(w)
          BY <1>1, <4>4 DEF Upload, Goto, TaskRec
        <4>5. QED
          BY <3>1, <4>1, <4>2, <4>3, <4>4
      <3>2. CASE \/ WorkError(w) \/ Charge(w) \/ RefusedError(w)
                 \/ AnnounceError(w) \/ PublishDoneError(w)
        <4>1. PICK at \in {"except", "saveDone", "download"} : Goto(w, at)
          BY <3>2 DEF WorkError, Charge, RefusedError, AnnounceError, PublishDoneError
        <4>2. QED
          BY <1>1, <4>1 DEF Goto, TaskRec
      <3>3. QED
        BY <1>10, <3>1, <3>2
    <2>2. QED
      BY <2>1 DEF Late
  <1>11. QED
    BY <1>5, <1>6, <1>7, <1>8, <1>9, <1>10 DEF Process, ProcessError

\* A job stays active when neither its requests nor its entries move.
LEMMA ActiveRule ==
    ASSUME NEW j \in Jobs, Active(j), UNCHANGED <<queue, faults>>,
           \A r \in Requests : reqs[r].job = j => reqs'[r].job = j,
           \A w \in Workers : InWork(w) = j => task'[w] = task[w]
    PROVE  Active(j)'
  <1>1. /\ Q!Available' = Q!Available /\ (\A e : Q!Msg(e)' = Q!Msg(e)) /\ UNCHANGED <<pc, cur>>
    BY QuietQueue
  <1>2. CASE \E r \in Requests : reqs[r].job = j
    BY <1>2 DEF Active
  <1>3. ASSUME NEW e \in Q!Available, Q!Msg(e)[1] = j, \A w \in Workers : cur[w] = e => ~Spent(w)
        PROVE  Active(j)'
    <2>1. \A w \in Workers : cur'[w] = e => ~Spent(w)'
      BY <1>1, <1>3 DEF InWork, Spent
    <2>2. e \in Q!Available' /\ Q!Msg(e)'[1] = j
      BY <1>1, <1>3
    <2>3. QED
      BY <2>1, <2>2 DEF Active
  <1>4. QED
    BY <1>2, <1>3 DEF Active

\* What process_job leaves unfinished it is still working on.
LEMMA WorksPursued ==
    ASSUME IInv, Q!IInv, Sound, OneHand, Pursued, NEW w \in Workers, Works(w),
           Process(w) \/ ProcessError(w)
    PROVE  Pursued'
  <1> SUFFICES ASSUME NEW j \in Jobs, Unfinished(j)', j \notin excused' \cup taken' PROVE Active(j)'
    BY DEF Pursued
  <1>1. /\ UNCHANGED <<queue, faults>> /\ reqs' = reqs /\ pc[w] = "run"
        /\ excused \subseteq excused' /\ taken' = taken
    BY DEF Works
  <1>2. CASE j = InWork(w)
    <2>1. task'[w].at \notin Late
      BY <1>2, LateFact
    <2>2. PICK e : e = cur[w]
      OBVIOUS
    <2>3. e \in Q!Entries /\ e \in Q!Delivered
      BY <1>1, <2>2 DEF Q!IInv, Q!SettledFirst, Q!Delivered
    <2>4. QP!Msg(e) \in Of(j) /\ e # QP!NoEntry
      <3>1. Q!Msg(e) \in Publications /\ e # Q!NoEntry /\ Q!Msg(e)[1] = j
        BY <1>2, <2>2, <2>3, PublicationFact DEF InWork
      <3>2. QED
        BY <3>1, SameEntries DEF Publications, Of, Q!NoEntry, QP!NoEntry
    <2>5. e \in QP!Held(w) /\ QP!Sole(w, e)
      BY <1>1, <2>2, <2>4 DEF QP!Held, OneHand, QP!Exclusive
    <2>6. e \in Q!Available /\ \A v \in Workers : cur[v] = e => v = w
      <3>1. e \in pel /\ \A v \in Workers : cur[v] = e => v = w
        BY <2>4, <2>5 DEF QP!Sole, QP!Held
      <3>2. QED
        BY <2>3, <3>1 DEF Q!Available
    <2>7. /\ e \in Q!Available' /\ Q!Msg(e)'[1] = j /\ UNCHANGED <<pc, cur>>
      BY <1>1, <1>2, <2>2, <2>6, QuietQueue DEF InWork
    <2>8. \A v \in Workers : cur'[v] = e => ~Spent(v)'
      BY <1>1, <2>1, <2>6, <2>7 DEF Spent
    <2>9. QED
      BY <2>7, <2>8 DEF Active
  <1>3. CASE j # InWork(w)
    <2>1. rows'[j] = rows[j]
      BY <1>3 DEF Works
    <2>2. Active(j)
      BY <1>1, <2>1 DEF Pursued, Unfinished
    <2>3. \A v \in Workers : InWork(v) = j => task'[v] = task[v]
      BY <1>3 DEF Works
    <2>4. QED
      BY <1>1, <2>2, <2>3, ActiveRule
  <1>4. QED
    BY <1>2, <1>3

\* A worker at the queue hands on what it does not settle.
LEMMA MovesPursued ==
    ASSUME IInv, Q!IInv, Sound, Pursued, NEW w \in Workers, Moves(w)
    PROVE  Pursued'
  <1> SUFFICES ASSUME NEW j \in Jobs, Unfinished(j)', j \notin excused' \cup taken' PROVE Active(j)'
    BY DEF Pursued
  <1>1. /\ UNCHANGED <<rows, reqs>> /\ task'[w].at = "load"
        /\ excused \subseteq excused' /\ taken \subseteq taken'
        /\ \A v \in Workers \ {w} : task'[v] = task[v]
    BY DEF Moves
  <1>2. Active(j)
    BY <1>1 DEF Pursued, Unfinished
  <1>3. CASE \E r \in Requests : reqs[r].job = j
    BY <1>1, <1>3 DEF Active
  <1>4. ASSUME NEW e \in Q!Available, Q!Msg(e)[1] = j, \A v \in Workers : cur[v] = e => ~Spent(v)
        PROVE  Active(j)'
    <2>1. \A v \in Workers \ {w} : pc'[v] = pc[v] /\ cur'[v] = cur[v]
      BY QueueFrame DEF Moves
    <2>2. QP!IInv /\ QP!WorkerNext(w) /\ e \in QP!Available
      BY <1>4, SameInv, SameSteps, SameEntries DEF Moves
    <2>3. QP!Unsettled(e)
      BY <1>4 DEF QP!Unsettled, Spent
    <2>4. QP!NotFinished(e)
      BY <1>4, <2>1 DEF QP!NotFinished, Spent, Moves
    <2>5. PICK f \in QP!Available' :
              /\ QP!Msg(f)' = QP!Msg(e)
              /\ QP!Unsettled(f)'
              /\ \A v \in Workers : cur'[v] = f /\ pc'[v] = "run" =>
                    \/ pc[v] = "fetch"
                    \/ f = e /\ cur[v] = e /\ pc[v] = "run"
      BY <2>2, <2>3, <2>4, QP!Carries, StreamConstants
    <2>6. ASSUME NEW v \in Workers, cur'[v] = f PROVE ~Spent(v)'
      <3>1. pc'[v] \notin {"ack", "dlq", "fail", "reack"}
        BY <2>5, <2>6 DEF QP!Unsettled
      <3>2. ASSUME pc'[v] = "run" PROVE task'[v].at \notin Late
        <4>1. CASE v = w
          BY <1>1, <4>1 DEF Late
        <4>2. CASE v # w
          <5>1. pc[v] = "run" /\ task'[v] = task[v]
            BY <1>1, <2>1, <3>2, <4>2
          <5>2. cur[v] = e
            BY <2>5, <2>6, <3>2, <5>1
          <5>3. QED
            BY <1>4, <5>1, <5>2 DEF Spent
        <4>3. QED
          BY <4>1, <4>2
      <3>3. QED
        BY <3>1, <3>2 DEF Spent
    <2>7. f \in Q!Available' /\ Q!Msg(f)'[1] = j
      BY <1>4, <2>5, SameAfter, SameEntries
    <2>8. QED
      BY <2>6, <2>7 DEF Active
  <1>5. QED
    BY <1>2, <1>3, <1>4 DEF Active

\* A request keeps its job in hand until it has published it.
LEMMA ClientsPursued ==
    ASSUME IInv, Q!IInv, Sound, Pursued,
           \/ \E r \in Requests, j \in Jobs : Touches(r, j) \/ Publishes(r, j) \/ Fails(r, j)
           \/ Edits
    PROVE  Pursued'
  <1> SUFFICES ASSUME NEW j \in Jobs, Unfinished(j)', j \notin excused' \cup taken' PROVE Active(j)'
    BY DEF Pursued
  <1>1. /\ reqs \in [Requests -> ReqRec] /\ NoJob # j /\ task' = task
        /\ excused \subseteq excused' /\ taken' = taken
    BY Parts, PipelineAssumption
       DEF PipelineAssumption, ReqsOK, Touches, Publishes, Fails, Edits
  <1>2. ASSUME rows'[j] = rows[j] PROVE Active(j)
    BY <1>1, <1>2 DEF Pursued, Unfinished
  <1>3. ASSUME NEW r \in Requests, NEW k \in Jobs, Touches(r, k) PROVE Active(j)'
    <2>1. CASE k = j
      BY <1>3, <2>1 DEF Touches, Active
    <2>2. CASE k # j
      BY <1>1, <1>2, <1>3, <2>2, ActiveRule DEF Touches
    <2>3. QED
      BY <2>1, <2>2
  <1>4. ASSUME NEW r \in Requests, NEW k \in Jobs, Fails(r, k) PROVE Active(j)'
    <2>1. k # j /\ rows' = rows /\ UNCHANGED <<queue, faults>>
      BY <1>4 DEF Fails
    <2>2. \A q \in Requests : reqs[q].job = j => reqs'[q].job = j
      BY <1>1, <1>4, <2>1 DEF Fails
    <2>3. QED
      BY <1>1, <1>2, <2>1, <2>2, ActiveRule
  <1>5. ASSUME NEW r \in Requests, NEW k \in Jobs, Publishes(r, k) PROVE Active(j)'
    <2>1. PICK m \in Publications :
              /\ m = <<k, pubs[k] + 1>>
              /\ \A e \in Q!Entries : Q!Msg(e)' = Q!Msg(e)
              /\ UNCHANGED <<pc, cur>>
              /\ Q!Available \subseteq Q!Available'
              /\ \E new \in Q!Available' : Q!Msg(new)' = m /\ \A w \in Workers : cur[w] # new
      BY <1>5, PublishesFact
    <2>2. CASE k = j
      <3>1. PICK new \in Q!Available' : Q!Msg(new)'[1] = j /\ \A w \in Workers : cur'[w] # new
        BY <2>1, <2>2
      <3>2. QED
        BY <3>1 DEF Active
    <2>3. CASE k # j
      <3>1. Active(j) /\ \A q \in Requests : reqs[q].job = j => reqs'[q].job = j
        BY <1>1, <1>2, <1>5, <2>3 DEF Publishes
      <3>2. CASE \E q \in Requests : reqs[q].job = j
        BY <3>1, <3>2 DEF Active
      <3>3. ASSUME NEW e \in Q!Available, Q!Msg(e)[1] = j,
                   \A w \in Workers : cur[w] = e => ~Spent(w)
            PROVE  Active(j)'
        <4>1. e \in Q!Available' /\ Q!Msg(e)'[1] = j
          BY <2>1, <3>3 DEF Q!Available, Q!IInv, Q!TypeOK, Q!Delivered
        <4>2. \A w \in Workers : cur'[w] = e => ~Spent(w)'
          BY <1>1, <2>1, <3>3 DEF Spent
        <4>3. QED
          BY <4>1, <4>2 DEF Active
      <3>4. QED
        BY <3>1, <3>2, <3>3 DEF Active
    <2>4. QED
      BY <2>2, <2>3
  <1>6. ASSUME Edits PROVE Active(j)'
    BY <1>1, <1>2, <1>6, ActiveRule DEF Edits, Unfinished
  <1>7. QED
    BY <1>3, <1>4, <1>5, <1>6

\* As long as no batch stamps its items late, a job that is not finished is in the
\* queue, on a worker or about to be published, unless an error the code does not
\* make up for hit it or a sweep took it from a worker that still had it.
THEOREM NoStuckJobTheorem ==
    ASSUME "batch" \notin Ops
    PROVE  Spec => []NoStuckJob
  <1>1. Init => OneHand /\ Pursued
    <2>1. Init => OneHand
      <3>1. Init => QP!Init
        BY SameInit DEF Init
      <3>2. QED
        BY <3>1, QP!ExclusiveInductive, StreamConstants DEF OneHand
    <2>2. Init => Pursued
      BY DEF Init, Pursued, Unfinished, NewJob
    <2>3. QED
      BY <2>1, <2>2
  <1>2. /\ IInv /\ Q!IInv /\ Sound /\ Orderly /\ OneHand /\ Pursued /\ [Next]_vars
        => OneHand' /\ Pursued'
    <2> SUFFICES ASSUME IInv, Q!IInv, Sound, OneHand, Pursued, [Next]_vars
                 PROVE  OneHand' /\ Pursued'
      OBVIOUS
    <2>1. \/ \E w \in Workers : (Works(w) /\ (Process(w) \/ ProcessError(w))) \/ Moves(w)
          \/ \E r \in Requests, j \in Jobs : Touches(r, j) \/ Publishes(r, j) \/ Fails(r, j)
          \/ Edits
      BY StepFact DEF Sound
    <2>2. \/ UNCHANGED <<queue, faults>> /\ taken \subseteq taken'
          \/ \E w \in Workers : Moves(w)
          \/ \E r \in Requests, j \in Jobs : Publishes(r, j)
      BY <2>1 DEF Works, Touches, Fails, Edits
    <2>3. QED
      BY <2>1, <2>2, OneHandStep, WorksPursued, MovesPursued, ClientsPursued
  <1>3. Pursued => NoStuckJob
    BY DEF Pursued, Unfinished, Active, NoStuckJob, InHand
  <1>4. QED
    BY <1>1, <1>2, <1>3, OrderlyTheorem, PTL DEF Spec
==============================================================================
