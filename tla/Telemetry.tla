----------------------------- MODULE Telemetry -----------------------------
(***************************************************************************)
(* Request telemetry: a bounded queue in the process, one task that writes *)
(* it to the database in batches, and what the developer pages read back.  *)
(* A row is stamped when its request ends and stored when its batch is     *)
(* written, so rows arrive in the table behind ones that are newer; its id *)
(* is random and orders rows of one instant.                               *)
(***************************************************************************)
EXTENDS RateLimiter, Ordering

CONSTANTS Ids,            \* bound: rows ever recorded, 1..n
          MaxQueue, BatchSize,
          PageSize,
          Retention,      \* age at which the cleanup worker deletes a row
          Ranges,         \* spans of the range presets
          BucketChoices, TargetBuckets, MaxBuckets

ASSUME TelemetryAssumption ==
    /\ \A n \in {MaxQueue, BatchSize, PageSize, Retention, TargetBuckets, MaxBuckets} : n \in Nat \ {0}
    /\ Ids \subseteq Nat \ {0} /\ IsFiniteSet(Ids)
    /\ Ranges \subseteq Nat \ {0}
    /\ BucketChoices \subseteq Nat \ {0} /\ BucketChoices # {} /\ IsFiniteSet(BucketChoices)

VARIABLES queue, batch, retry,
          flusher,   \* where the background task stands
          rows,      \* the two tables
          purged,    \* history: ids of rows the retention deleted
          stats,     \* the counters
          stopping,  \* the process is being shut down
          reader     \* a log listing, page by page

ingestVars == <<queue, batch, retry, flusher, rows, purged, stats, stopping>>
telemetryVars == <<now, limiterVars, ingestVars, reader>>

TelemetryRow == [id : Ids, at : 0..MaxNow, kind : {"event", "invocation"}]
STOP == [id |-> 0, at |-> 0, kind |-> "stop"]

NoReader == [pc |-> "idle", kind |-> "event", range |-> 0, cursor |-> <<>>, listed |-> <<>>, owed |-> {}]

TypeOKTelemetry ==
    /\ TypeOKLimiter
    /\ Range(queue) \subseteq TelemetryRow \cup {STOP}
    /\ Range(batch) \cup Range(retry) \cup rows \subseteq TelemetryRow
    /\ flusher \in {"disabled", "collect", "events", "invocations", "ending", "last_events",
                    "last_invocations", "stopped"}
    /\ purged \subseteq Ids /\ stopping \in BOOLEAN
    /\ stats \in [enqueued : SUBSET Ids, dropped : 0..Cardinality(Ids), written : 0..Cardinality(Ids),
                  failures : Nat]
    /\ reader.pc \in {"idle", "paging", "done"} /\ Range(reader.listed) \cup reader.owed \subseteq TelemetryRow

(* Telemetry may be switched off by the settings.                          *)
InitTelemetry(start, enabled) ==
    /\ InitLimiter(start)
    /\ queue = <<>> /\ batch = <<>> /\ retry = <<>> /\ rows = {} /\ purged = {}
    /\ flusher = IF enabled THEN "collect" ELSE "disabled"
    /\ stats = [enqueued |-> {}, dropped |-> 0, written |-> 0, failures |-> 0]
    /\ stopping = FALSE /\ reader = NoReader

Made == stats.enqueued

----------------------------------------------------------------------------
(* Recording: never waits, never fails                                     *)

enqueue(kind) ==
    /\ UNCHANGED <<batch, retry, flusher, rows, purged, stopping>>
    /\ IF flusher = "disabled" THEN UNCHANGED <<queue, stats>>
       ELSE IF Len(queue) < MaxQueue
       THEN \E id \in Ids \ Made :
               /\ queue' = Append(queue, [id |-> id, at |-> now, kind |-> kind])
               /\ stats' = [stats EXCEPT !.enqueued = @ \cup {id}]
       ELSE /\ UNCHANGED queue /\ stats.dropped < Cardinality(Ids)
            /\ stats' = [stats EXCEPT !.dropped = @ + 1]

(* A request nobody is signed in for, or to an excluded path, leaves no    *)
(* row; one whose handler fails does.                                      *)
api_telemetry_middleware(attributable) ==
    IF attributable THEN enqueue("event") ELSE UNCHANGED ingestVars

(* What the limiter refuses never reaches the handler.                     *)
api_request(k, ok, answers, attributable) ==
    /\ is_allowed(k, ok, answers)
    /\ IF ok THEN api_telemetry_middleware(attributable) ELSE UNCHANGED ingestVars
    /\ UNCHANGED reader

----------------------------------------------------------------------------
(* The flusher                                                             *)

Cut(s) == SubSeq(s, 1, IF Len(s) < BatchSize THEN Len(s) ELSE BatchSize)

(* Mutant of Merged: the deferred batch and the new one, uncut.            *)
MergedAll(deferred, items) == deferred \o items

(* What failed before goes first; what then exceeds a batch is lost.       *)
Merged(deferred, items) == Cut(deferred \o items)

(* One item is taken, or the stop mark, which is put back and ends the     *)
(* collection without what it had collected.                               *)
collect ==
    /\ flusher = "collect" /\ Len(batch) < BatchSize /\ queue # <<>>
    /\ IF Head(queue) = STOP
       THEN /\ queue' = Append(Tail(queue), STOP) /\ batch' = <<>> /\ flusher' = "ending"
       ELSE /\ queue' = Tail(queue) /\ batch' = Append(batch, Head(queue)) /\ UNCHANGED flusher
    /\ UNCHANGED <<retry, rows, purged, stats, stopping, reader, now, limiterVars>>

Write(items, next) ==
    /\ batch' = Merged(retry, items) /\ retry' = <<>> /\ flusher' = next
    /\ UNCHANGED <<rows, purged, stats, stopping, reader, now, limiterVars>>

(* The interval is over, or the batch is full.                             *)
FlushDue == flusher = "collect" /\ batch # <<>> /\ Write(batch, "events") /\ UNCHANGED queue

(* After the stop mark one batch more is taken, and no other; stop marks   *)
(* are passed over.                                                        *)
drain_available ==
    LET items(n) == {i \in 1..n : queue[i] # STOP}
        taken == Min({n \in 0..Len(queue) : Cardinality(items(n)) >= BatchSize} \cup {Len(queue)})
        order == InOrder(items(taken), <)
    IN /\ flusher = "ending"
       /\ Write([n \in DOMAIN order |-> queue[order[n]]], "last_events")
       /\ queue' = SubSeq(queue, taken + 1, Len(queue))

Of(kind) == {r \in Range(batch) : r.kind = kind}

(* Mutant of Invocations: left out of a batch that has requests too.       *)
InvocationsAlone == IF Of("event") = {} THEN Of("invocation") ELSE {}

Events == Of("event")
Invocations == Of("invocation")

Stored(id) == \E r \in rows : r.id = id

(* Each table is committed on its own; a row that is there already makes   *)
(* the insert fail, as may the database.                                   *)
save_events ==
    /\ flusher \in {"events", "last_events"}
    /\ \A r \in Events : ~Stored(r.id)
    /\ rows' = rows \cup Events
    /\ flusher' = IF flusher = "events" THEN "invocations" ELSE "last_invocations"
    /\ UNCHANGED <<queue, batch, retry, purged, stats, stopping, reader, now, limiterVars>>

Collecting(from) == IF from \in {"events", "invocations"} THEN "collect" ELSE "stopped"

save_invocations ==
    /\ flusher \in {"invocations", "last_invocations"}
    /\ \A r \in Invocations : ~Stored(r.id)
    /\ rows' = rows \cup Invocations
    /\ stats' = [stats EXCEPT !.written = @ + Len(batch)]
    /\ batch' = <<>> /\ flusher' = Collecting(flusher)
    /\ UNCHANGED <<queue, retry, purged, stopping, reader, now, limiterVars>>

(* The batch is deferred to the next write, as often as it fails.          *)
WriteFails ==
    /\ flusher \in {"events", "invocations", "last_events", "last_invocations"} /\ batch # <<>>
    /\ retry' = Cut(batch) /\ batch' = <<>> /\ stats' = [stats EXCEPT !.failures = @ + 1]
    /\ flusher' = Collecting(flusher)
    /\ UNCHANGED <<queue, rows, purged, stopping, reader, now, limiterVars>>

(* A full queue takes no stop mark.                                        *)
stop ==
    /\ flusher # "disabled" /\ ~stopping /\ stopping' = TRUE
    /\ queue' = IF Len(queue) < MaxQueue THEN Append(queue, STOP) ELSE queue
    /\ UNCHANGED <<batch, flusher, retry, rows, purged, stats, reader, now, limiterVars>>

(* The task is given ten seconds to end, then it is cancelled.             *)
Cancelled ==
    /\ stopping /\ flusher \notin {"disabled", "stopped"}
    /\ flusher' = "stopped" /\ batch' = <<>>
    /\ UNCHANGED <<queue, retry, rows, purged, stats, stopping, reader, now, limiterVars>>

(* The cleanup worker's retention, over both tables.                       *)
delete_before ==
    /\ rows' = {r \in rows : r.at >= now - Retention} /\ rows' # rows
    /\ purged' = purged \cup {r.id : r \in rows \ rows'}
    /\ UNCHANGED <<queue, batch, retry, flusher, stats, stopping, reader, now, limiterVars>>

----------------------------------------------------------------------------
(* The log pages: newest first, from a cursor                              *)

(* The window ends now, whenever the page is asked for.                    *)
resolve_range(span) == [start |-> now - span, end |-> now]

InRange(kind, window) == {r \in rows : r.kind = kind /\ r.at >= window.start /\ r.at < window.end}

Newer(r, s) == r.at > s.at \/ (r.at = s.at /\ r.id > s.id)

(* Mutant of BehindCursor: rows of the cursor's instant count as shown.    *)
BehindCursorTime(r, cursor) == cursor = <<>> \/ r.at < cursor[1].at

BehindCursor(r, cursor) == cursor = <<>> \/ Newer(cursor[1], r)

(* A page and one row more, which says whether another page follows.       *)
Page(candidates, cursor) ==
    LET found == InOrder({r \in candidates : BehindCursor(r, cursor)}, Newer)
        more == Len(found) > PageSize
        items == SubSeq(found, 1, IF more THEN PageSize ELSE Len(found))
    IN [items |-> items, next_cursor |-> IF more THEN <<items[PageSize]>> ELSE <<>>]

list_events(window, cursor) == Page(InRange("event", window), cursor)
list_invocations(window, cursor) == Page(InRange("invocation", window), cursor)

ListPage(kind, span, cursor, listed, owed) ==
    LET window == resolve_range(span)
        page == IF kind = "event" THEN list_events(window, cursor) ELSE list_invocations(window, cursor)
        all == listed \o page.items
    IN /\ reader' = [pc |-> IF page.next_cursor = <<>> THEN "done" ELSE "paging",
                     kind |-> kind, range |-> span, cursor |-> page.next_cursor, listed |-> all,
                     owed |-> {r \in owed : r \in Range(all) \/ r \in InRange(kind, window)}]
       /\ UNCHANGED <<ingestVars, now, limiterVars>>

OpenLog(kind, span) ==
    /\ reader.pc # "paging"
    /\ ListPage(kind, span, <<>>, <<>>, InRange(kind, resolve_range(span)))

NextPage ==
    /\ reader.pc = "paging"
    /\ ListPage(reader.kind, reader.range, reader.cursor, reader.listed, reader.owed)

----------------------------------------------------------------------------
(* The chart                                                               *)

(* The finest size that makes no more than TargetBuckets points, else the  *)
(* coarsest.                                                               *)
bucket_seconds_for_span(span) ==
    LET fine == {b \in BucketChoices : b * TargetBuckets >= span}
    IN IF fine = {} THEN Max(BucketChoices) ELSE Min(fine)

align_to_bucket(t, size) == t - (t % size)

(* Mutant of bucket_starts: the first bucket begins with the range.        *)
bucket_starts_unaligned(window, size) ==
    {b \in {window.start + i * size : i \in 0..(MaxBuckets - 1)} : b < window.end}

bucket_starts(window, size) ==
    {b \in {align_to_bucket(window.start, size) + i * size : i \in 0..(MaxBuckets - 1)} : b < window.end}

(* Rows of the range per bucket, as the database groups them.              *)
aggregate(window, size) ==
    LET inside == InRange("event", window)
    IN [b \in {align_to_bucket(r.at, size) : r \in inside} |->
           Cardinality({r \in inside : align_to_bucket(r.at, size) = b})]

(* A bucket without rows is a zero, a row outside the buckets is no point. *)
fill_buckets(starts, measured) ==
    [b \in starts |-> IF b \in DOMAIN measured THEN measured[b] ELSE 0]

metrics(span) ==
    LET window == resolve_range(span)
        size == bucket_seconds_for_span(span)
    IN fill_buckets(bucket_starts(window, size), aggregate(window, size))

----------------------------------------------------------------------------
(* Properties                                                              *)

InFlight == {i.id : i \in Range(queue) \cup Range(batch) \cup Range(retry)} \ {STOP.id}

Ever == {r.id : r \in rows} \cup purged

(* Rows that were taken in and are nowhere any more.                       *)
Lost == Made \ (InFlight \cup Ever)

(* How many batches may be gone: one for each write that failed, but not   *)
(* while its batch is still deferred, one that was being collected when    *)
(* the stop mark was found, and one whose write was cancelled.             *)
GoneBatches ==
    (IF retry = <<>> THEN stats.failures ELSE stats.failures - 1)
    + (IF flusher = "stopped" THEN 2
       ELSE IF flusher \in {"ending", "last_events", "last_invocations"} THEN 1 ELSE 0)

(* Whatever fails or is stopped, a row that was taken into the queue is on *)
(* its way, stored or purged by age, but for a batch of rows at most for   *)
(* each failed write, and for what is collected or written when the task   *)
(* is stopped: a failed batch is kept, and only what does not fit into one *)
(* with it is lost, which no counter but that of the failures shows.       *)
(* Nothing that is stored waits in the queue; without a failed write no    *)
(* row is written twice; and the written counter never claims rows that    *)
(* were not stored (_collect, _drain_available, _write).                   *)
Accounted ==
    LET writing == IF flusher \in {"invocations", "last_invocations"} THEN {r.id : r \in Events} ELSE {}
    IN /\ Cardinality(Lost) <= BatchSize * GoneBatches
       /\ {i.id : i \in Range(queue)} \cap Ever = {}
       /\ stats.failures = 0 => InFlight \cap Ever \subseteq writing
       /\ stats.written <= Cardinality(Ever)

(* A database that fails for good costs the process a bounded amount of    *)
(* memory (_enqueue, _write).                                              *)
MemoryBounded ==
    Len(queue) <= MaxQueue /\ Len(batch) <= BatchSize /\ Len(retry) <= BatchSize

(* A listing shows every row that was in its range from the first page to  *)
(* the last, none twice and the newest first, while rows of the same       *)
(* instant, late rows and the retention come in between (list_events,      *)
(* list_invocations).                                                      *)
PagedOnce ==
    /\ \A i \in 1..(Len(reader.listed) - 1) : Newer(reader.listed[i], reader.listed[i + 1])
    /\ reader.pc = "done" => reader.owed \subseteq Range(reader.listed)

(* Whenever it is drawn, the chart of a range has every request the range  *)
(* has logged at the point of its time and at no other, but for those past *)
(* the last bucket a chart may have (metrics, bucket_starts).              *)
ChartComplete ==
    \A span \in Ranges :
        LET window == resolve_range(span)
            size == bucket_seconds_for_span(span)
            logged == InRange("event", window)
            chart == metrics(span)
            Past(r) == r.at >= align_to_bucket(window.start, size) + MaxBuckets * size
        IN /\ \A r \in logged : Past(r) \/ \E b \in DOMAIN chart : r.at \in b..(b + size - 1)
           /\ \A b \in DOMAIN chart : chart[b] = Cardinality({r \in logged : r.at \in b..(b + size - 1)})
=============================================================================
