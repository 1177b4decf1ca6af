------------------------------ MODULE JobStream ------------------------------
(***************************************************************************)
(* The conversion job queue: the tier streams in Redis, the consumer       *)
(* JobStreamConsumer (redis_stream_job_queue.py) and the loop that drives  *)
(* it (converter_workers/worker.py).                                       *)
(*                                                                         *)
(* A stream is the sequence of messages ever added to it; the id of an     *)
(* entry is its position, and <<s, i>> is what the code calls a delivery   *)
(* key.  A message is one publication of a job.  The consumer group keeps, *)
(* per stream, the last delivered id, and one pending entries list (PEL).  *)
(* A worker that stops, by a crash or a cancelled task, comes back as a    *)
(* new consumer with an empty buffer, so its pending entries are orphans.  *)
(***************************************************************************)
EXTENDS Integers, Sequences, FiniteSets

CONSTANTS
    Workers,    \* converter worker processes
    Messages,   \* publications
    NStreams,   \* tier streams, numbered in priority order (1 is "high")
    MaxFaults   \* bound on crashes, failed Redis calls and claims of what is in use

ASSUME StreamAssumption ==
    /\ NStreams \in Nat \ {0}
    /\ MaxFaults \in Nat

VARIABLES
    log,        \* stream -> messages added by XADD
    last,       \* stream -> last id delivered to the group
    pel,        \* pending entries: delivered and not acknowledged
    pc,         \* worker -> where its loop is
    cur,        \* worker -> the entry in hand
    buffer,     \* worker -> entries of the last read still to be processed
    sweepAt,    \* worker -> stream the stale sweep is at
    claimed,    \* worker -> entries XAUTOCLAIM returned, still to be re-queued
    handled,    \* messages processed to the end at least once
    raised,     \* messages whose processing raised at least once
    dead,       \* messages with a copy on the dead-letter stream
    faults      \* faults so far

redis == <<log, last, pel>>
loop == <<pc, cur, buffer, sweepAt, claimed>>
history == <<handled, raised, dead>>
vars == <<redis, loop, history, faults>>

Streams == 1..NStreams
NoEntry == <<0, 0>>
PCs == {"fetch", "run", "ack", "dlq", "fail", "claim", "requeue", "reack"}

Msg(e) == log[e[1]][e[2]]

\* Entries of the streams, the delivered ones, and those the group can still
\* hand out: not yet delivered, or pending.
Entries == UNION {{s} \X (1..Len(log[s])) : s \in Streams}
Delivered == {e \in Entries : e[2] <= last[e[1]]}
Available == (Entries \ Delivered) \cup pel

Published == {Msg(e) : e \in Entries}
Live(m) == \E e \in Available : Msg(e) = m

Undelivered == {s \in Streams : last[s] < Len(log[s])}
NextDelivery == {<<s, last[s] + 1>> : s \in Undelivered}

\* What a worker has in hand or is about to take up.
Held(w) == ({cur[w]} \ {NoEntry}) \cup buffer[w] \cup claimed[w]

\* The pending entries of a stream, and those among them no worker holds.
Pending(s) == {e \in pel : e[1] = s}
Orphans(s) == {e \in Pending(s) : \A w \in Workers : e \notin Held(w)}

Fault == faults < MaxFaults /\ faults' = faults + 1

\* The worker is done with the entry in hand.
Release(w, next) ==
    /\ pc' = [pc EXCEPT ![w] = next]
    /\ cur' = [cur EXCEPT ![w] = NoEntry]

Init ==
    /\ log = [s \in Streams |-> <<>>]
    /\ last = [s \in Streams |-> 0]
    /\ pel = {}
    /\ pc = [w \in Workers |-> "fetch"]
    /\ cur = [w \in Workers |-> NoEntry]
    /\ buffer = [w \in Workers |-> {}]
    /\ sweepAt = [w \in Workers |-> 1]
    /\ claimed = [w \in Workers |-> {}]
    /\ handled = {} /\ raised = {} /\ dead = {}
    /\ faults = 0

------------------------------------------------------------------------------
(* Producer *)

\* XADD of a message onto stream s.
Add(m, s) == log' = [log EXCEPT ![s] = Append(@, m)]

Publish(m, s) ==
    /\ m \notin Published
    /\ Add(m, s)
    /\ UNCHANGED <<last, pel, loop, history, faults>>

------------------------------------------------------------------------------
(* fetch_job *)

\* Take the entry of the highest tier from a set of deliveries.  A read hands
\* out at most one entry per stream, so the streams order the set.
Start(w, deliveries) ==
    \E e \in deliveries :
        /\ \A f \in deliveries : e[1] <= f[1]
        /\ cur' = [cur EXCEPT ![w] = e]
        /\ buffer' = [buffer EXCEPT ![w] = deliveries \ {e}]
        /\ pc' = [pc EXCEPT ![w] = "run"]

FetchBuffered(w) ==
    /\ pc[w] = "fetch"
    /\ Start(w, buffer[w])
    /\ UNCHANGED <<redis, sweepAt, claimed, history, faults>>

\* Mutant of Deliver: XREADGROUP with NOACK.
DeliverNoAck ==
    /\ last' = [s \in Streams |-> IF s \in Undelivered THEN last[s] + 1 ELSE last[s]]
    /\ UNCHANGED <<log, pel>>

\* XREADGROUP with COUNT 1: the next entry of every stream that has one.
Deliver ==
    /\ last' = [s \in Streams |-> IF s \in Undelivered THEN last[s] + 1 ELSE last[s]]
    /\ pel' = pel \cup NextDelivery
    /\ UNCHANGED log

FetchNew(w) ==
    /\ pc[w] = "fetch"
    /\ buffer[w] = {}
    /\ Deliver
    /\ Start(w, NextDelivery)
    /\ UNCHANGED <<sweepAt, claimed, history, faults>>

\* The reply is lost on the way: Redis has delivered, the worker has nothing.
FetchLost(w) ==
    /\ pc[w] = "fetch"
    /\ buffer[w] = {}
    /\ Undelivered # {}
    /\ Deliver
    /\ Fault
    /\ UNCHANGED <<loop, history>>

\* fetch_job returned None and the sweep interval has elapsed.
FetchNone(w) ==
    /\ pc[w] = "fetch"
    /\ buffer[w] = {}
    /\ Undelivered = {}
    /\ pc' = [pc EXCEPT ![w] = "claim"]
    /\ sweepAt' = [sweepAt EXCEPT ![w] = 1]
    /\ UNCHANGED <<redis, cur, buffer, claimed, history, faults>>

------------------------------------------------------------------------------
(* The outcome of process_job *)

Finish(w) ==
    /\ pc[w] = "run"
    /\ handled' = handled \cup {Msg(cur[w])}
    /\ pc' = [pc EXCEPT ![w] = "ack"]
    /\ UNCHANGED <<redis, cur, buffer, sweepAt, claimed, raised, dead, faults>>

Raise(w) ==
    /\ pc[w] = "run"
    /\ handled' = handled \cup {Msg(cur[w])}
    /\ raised' = raised \cup {Msg(cur[w])}
    /\ pc' = [pc EXCEPT ![w] = "dlq"]
    /\ UNCHANGED <<redis, cur, buffer, sweepAt, claimed, dead, faults>>

DeadLetter(w) ==
    /\ pc[w] = "dlq"
    /\ dead' = dead \cup {Msg(cur[w])}
    /\ pc' = [pc EXCEPT ![w] = "fail"]
    /\ UNCHANGED <<redis, cur, buffer, sweepAt, claimed, handled, raised, faults>>

DeadLetterError(w) ==
    /\ pc[w] = "dlq"
    /\ Fault
    /\ pc' = [pc EXCEPT ![w] = "fail"]
    /\ UNCHANGED <<redis, cur, buffer, sweepAt, claimed, history>>

\* acknowledge_job and fail_job are the same XACK.
Acknowledge(w) ==
    /\ pc[w] \in {"ack", "fail"}
    /\ pel' = pel \ {cur[w]}
    /\ Release(w, "fetch")
    /\ UNCHANGED <<log, last, buffer, sweepAt, claimed, history, faults>>

AcknowledgeError(w) ==
    /\ pc[w] \in {"ack", "fail"}
    /\ Fault
    /\ Release(w, "fetch")
    /\ UNCHANGED <<redis, buffer, sweepAt, claimed, history>>

------------------------------------------------------------------------------
(* reclaim_stale_jobs *)

\* XAUTOCLAIM takes what has been idle for stale_min_idle_ms, at most 20 entries,
\* or fails.  What that is depends on the clock, which is in StaleSweep; here it may
\* be any pending entry, of a worker that is gone or of one that still holds it.
Claim(w, idle) ==
    /\ pc[w] = "claim"
    /\ claimed' = [claimed EXCEPT ![w] = idle]
    /\ pc' = [pc EXCEPT ![w] = "requeue"]
    /\ UNCHANGED <<redis, cur, buffer, sweepAt, history>>

\* Entries no worker holds.
Autoclaim(w, idle) ==
    /\ idle \subseteq Orphans(sweepAt[w])
    /\ Claim(w, idle)
    /\ UNCHANGED faults

\* An entry a worker has had for longer than the threshold is among them.
AutoclaimLive(w, idle) ==
    /\ idle \subseteq Pending(sweepAt[w])
    /\ ~(idle \subseteq Orphans(sweepAt[w]))
    /\ Claim(w, idle)
    /\ Fault

\* _requeue: the copy is added first, the original acknowledged afterwards.
RequeueAdd(w) ==
    /\ pc[w] = "requeue"
    /\ \E e \in claimed[w] :
        /\ \A f \in claimed[w] : e[2] <= f[2]
        /\ Add(Msg(e), sweepAt[w])
        /\ cur' = [cur EXCEPT ![w] = e]
        /\ claimed' = [claimed EXCEPT ![w] = @ \ {e}]
    /\ pc' = [pc EXCEPT ![w] = "reack"]
    /\ UNCHANGED <<last, pel, buffer, sweepAt, history, faults>>

\* Mutant of RequeueAddError: the original is acknowledged although the copy
\* could not be added.
RequeueAddErrorAck(w) ==
    /\ pc[w] = "requeue"
    /\ \E e \in claimed[w] :
        /\ claimed' = [claimed EXCEPT ![w] = @ \ {e}]
        /\ pel' = pel \ {e}
    /\ Fault
    /\ UNCHANGED <<log, last, pc, cur, buffer, sweepAt, history>>

RequeueAddError(w) ==
    /\ pc[w] = "requeue"
    /\ \E e \in claimed[w] :
        /\ \A f \in claimed[w] : e[2] <= f[2]
        /\ claimed' = [claimed EXCEPT ![w] = @ \ {e}]
    /\ Fault
    /\ UNCHANGED <<redis, pc, cur, buffer, sweepAt, history>>

RequeueAck(w) ==
    /\ pc[w] = "reack"
    /\ pel' = pel \ {cur[w]}
    /\ Release(w, "requeue")
    /\ UNCHANGED <<log, last, buffer, sweepAt, claimed, history, faults>>

RequeueAckError(w) ==
    /\ pc[w] = "reack"
    /\ Fault
    /\ Release(w, "requeue")
    /\ UNCHANGED <<redis, buffer, sweepAt, claimed, history>>

\* Mutant of SweepOn: the last stream is never swept.
SweepOnShort(w) ==
    /\ pc[w] = "requeue"
    /\ claimed[w] = {}
    /\ pc' = [pc EXCEPT ![w] = IF sweepAt[w] < NStreams - 1 THEN "claim" ELSE "fetch"]
    /\ sweepAt' = [sweepAt EXCEPT ![w] = IF @ < NStreams - 1 THEN @ + 1 ELSE @]
    /\ UNCHANGED <<redis, cur, buffer, claimed, history, faults>>

\* Mutant of SweepOn: one stream too many.
SweepOnPast(w) ==
    /\ pc[w] = "requeue"
    /\ claimed[w] = {}
    /\ pc' = [pc EXCEPT ![w] = IF sweepAt[w] <= NStreams THEN "claim" ELSE "fetch"]
    /\ sweepAt' = [sweepAt EXCEPT ![w] = IF @ <= NStreams THEN @ + 1 ELSE @]
    /\ UNCHANGED <<redis, cur, buffer, claimed, history, faults>>

\* On to the next stream, or back to fetch_job after the last one.
SweepOn(w) ==
    /\ pc[w] = "requeue"
    /\ claimed[w] = {}
    /\ pc' = [pc EXCEPT ![w] = IF sweepAt[w] < NStreams THEN "claim" ELSE "fetch"]
    /\ sweepAt' = [sweepAt EXCEPT ![w] = IF @ < NStreams THEN @ + 1 ELSE @]
    /\ UNCHANGED <<redis, cur, buffer, claimed, history, faults>>

------------------------------------------------------------------------------
\* Mutant of Crash: a cancelled worker acknowledges what it has buffered.
CrashAck(w) ==
    /\ pc[w] # "fetch" \/ buffer[w] # {}
    /\ Fault
    /\ Release(w, "fetch")
    /\ pel' = pel \ buffer[w]
    /\ buffer' = [buffer EXCEPT ![w] = {}]
    /\ claimed' = [claimed EXCEPT ![w] = {}]
    /\ UNCHANGED <<log, last, sweepAt, history>>

\* The process dies or its task is cancelled; everything it holds stays in
\* the PEL under a consumer name nobody uses again.
Crash(w) ==
    /\ pc[w] # "fetch" \/ buffer[w] # {}
    /\ Fault
    /\ Release(w, "fetch")
    /\ buffer' = [buffer EXCEPT ![w] = {}]
    /\ claimed' = [claimed EXCEPT ![w] = {}]
    /\ UNCHANGED <<redis, sweepAt, history>>

Fetch(w) == FetchBuffered(w) \/ FetchNew(w) \/ FetchNone(w)
Settle(w) == Finish(w) \/ Raise(w) \/ DeadLetter(w) \/ Acknowledge(w)
Sweep(w) ==
    \/ \E idle \in SUBSET pel : Autoclaim(w, idle)
    \/ RequeueAdd(w) \/ RequeueAck(w) \/ SweepOn(w)
Failure(w) ==
    \/ FetchLost(w) \/ DeadLetterError(w) \/ AcknowledgeError(w)
    \/ \E idle \in SUBSET pel : AutoclaimLive(w, idle)
    \/ RequeueAddError(w) \/ RequeueAckError(w) \/ Crash(w)

Next ==
    \/ \E m \in Messages, s \in Streams : Publish(m, s)
    \/ \E w \in Workers : Fetch(w) \/ Settle(w) \/ Sweep(w) \/ Failure(w)

Spec == Init /\ [][Next]_vars

\* A worker that is up keeps taking steps, and time passes: an orphaned entry
\* is idle long enough for some later sweep.
Fairness ==
    \A w \in Workers :
        /\ WF_vars(Fetch(w) \/ Settle(w) \/ Sweep(w))
        /\ SF_vars(/\ Orphans(sweepAt[w]) # {}
                   /\ Autoclaim(w, Orphans(sweepAt[w])))

FairSpec == Spec /\ Fairness

------------------------------------------------------------------------------
(* Properties *)

TypeOK ==
    /\ log \in [Streams -> Seq(Messages)]
    /\ last \in [Streams -> Nat]
    /\ \A s \in Streams : last[s] <= Len(log[s])
    /\ pel \subseteq Delivered
    /\ pc \in [Workers -> PCs]
    /\ cur \in [Workers -> Delivered \cup {NoEntry}]
    /\ buffer \in [Workers -> SUBSET Delivered]
    /\ sweepAt \in [Workers -> Streams]
    /\ claimed \in [Workers -> SUBSET Delivered]
    /\ handled \subseteq Published
    /\ raised \subseteq handled
    /\ dead \subseteq Published
    /\ faults \in 0..MaxFaults

\* No published job is ever lost: until some worker has processed it to the
\* end, Redis still holds an entry of it that fetch_job or the stale sweep will
\* hand out.  reclaim_stale_jobs: "a failure at either step can only duplicate
\* a job, never lose one".
NoLoss == \A m \in Published : m \in handled \/ Live(m)

\* The inductive strengthening of NoLoss.  The entry that keeps an unhandled
\* message alive is not one whose copy is already queued and which is about to
\* be acknowledged by a sweep.
Secured(e) == \A w \in Workers : pc[w] = "reack" => cur[w] # e
Recoverable ==
    \A m \in Published \ handled :
        \E e \in Available : Msg(e) = m /\ Secured(e)
\* Whoever is about to acknowledge an entry has processed its message.
SettledFirst ==
    \A w \in Workers :
        /\ pc[w] \in {"run", "ack", "dlq", "fail", "reack"} <=> cur[w] \in Delivered
        /\ pc[w] \in {"ack", "dlq", "fail"} => Msg(cur[w]) \in handled
IInv == TypeOK /\ Recoverable /\ SettledFirst

\* The queue is an at-least-once queue.
Abstract == INSTANCE AtLeastOnceQueue WITH pool <- {m \in Messages : Live(m)}
AtLeastOnce == Abstract!Spec

\* Once faults stop, every published job is processed and acknowledged:
\* nothing stays pending for ever.
Drained == \A m \in Messages : ~Live(m)
Drains == <>[]Drained

\* The failure handler of the worker loop: "ACKing first would remove the
\* message from the group before any copy exists - a failing DLQ write would
\* then lose the job entirely".  So a message whose processing raised is on the
\* dead-letter stream or still in the group.
FailedJobKept == \A m \in raised : m \in dead \/ Live(m)
==============================================================================
