----------------------------- MODULE JobEvents -----------------------------
(***************************************************************************)
(* The progress of jobs as a browser follows it: one capped stream for the *)
(* events of all jobs, and a connection that replays it from the start and *)
(* then waits for more.                                                    *)
(***************************************************************************)
EXTENDS Integers, Sequences, SequencesExt

CONSTANTS WatchedJobs,    \* bound: jobs with events in the stream
          MaxEvents,      \* bound: events ever published
          KeptEvents,     \* _EVENT_STREAM_MAXLEN
          ReadCount       \* entries of one xread

ASSUME EventAssumption ==
    MaxEvents \in Nat /\ KeptEvents \in Nat \ {0} /\ ReadCount \in Nat \ {0}

VARIABLES feed,       \* the stream's entries, oldest first
          published,  \* how many were ever published: their ids
          watcher     \* a connection: its cursor, what it has read and what it has passed on

eventVars == <<feed, published, watcher>>

Closed == [pc |-> "closed", job |-> {}, cursor |-> 0, batch |-> <<>>, shown |-> <<>>]

JobEvent == [id : 1..MaxEvents, job : WatchedJobs, status : {"PROCESSING", "COMPLETED", "FAILED"}]
Terminal(e) == e.status \in {"COMPLETED", "FAILED"}

TypeOKEvents ==
    /\ Range(feed) \cup Range(watcher.batch) \cup Range(watcher.shown) \subseteq JobEvent
    /\ published \in 0..MaxEvents /\ watcher.cursor \in 0..published
    /\ watcher.pc \in {"closed", "open", "ended"} /\ watcher.job \subseteq WatchedJobs

InitEvents == feed = <<>> /\ published = 0 /\ watcher = Closed

(* A job that is retried or delivered twice has events after its end.  The *)
(* cap is approximate: Redis removes the surplus when it can remove enough *)
(* of it.                                                                  *)
publish(j, status) ==
    LET longer == Append(feed, [id |-> published + 1, job |-> j, status |-> status])
        surplus == Len(longer) - KeptEvents
    IN /\ published < MaxEvents /\ published' = published + 1
       /\ \E drop \in {0} \cup (IF surplus > 0 THEN {surplus} ELSE {}) :
             feed' = SubSeq(longer, drop + 1, Len(longer))
       /\ UNCHANGED watcher

(* Mutant of Start: only what is published from now on.                    *)
StartNow == published

(* A connection begins with the oldest event there is.                     *)
Start == 0

stream_job_events(j) ==
    /\ watcher.pc # "open"
    /\ watcher' = [Closed EXCEPT !.pc = "open", !.job = {j}, !.cursor = Start]
    /\ UNCHANGED <<feed, published>>

(* One read of the stream: its entries behind the cursor.                  *)
xread ==
    /\ watcher.pc = "open" /\ watcher.batch = <<>>
    /\ \E i \in DOMAIN feed :
          /\ feed[i].id > watcher.cursor /\ \A k \in 1..(i - 1) : feed[k].id <= watcher.cursor
          /\ watcher' = [watcher EXCEPT !.batch =
                SubSeq(feed, i, IF i + ReadCount <= Len(feed) THEN i + ReadCount - 1 ELSE Len(feed))]
    /\ UNCHANGED <<feed, published>>

(* One entry of what was read.  It moves the cursor whichever job it is    *)
(* of; one of the job is passed on, and the one that ends the job is the   *)
(* last.                                                                   *)
iter_events ==
    LET e == Head(watcher.batch)
        mine == e.job \in watcher.job
        terminal_seen == mine /\ Terminal(e)
    IN /\ watcher.pc = "open" /\ watcher.batch # <<>>
       /\ watcher' = [watcher EXCEPT
             !.pc = IF terminal_seen THEN "ended" ELSE "open", !.cursor = e.id,
             !.batch = IF terminal_seen THEN <<>> ELSE Tail(@),
             !.shown = IF mine THEN Append(@, e) ELSE @]
       /\ UNCHANGED <<feed, published>>

Disconnect == watcher.pc = "open" /\ watcher' = Closed /\ UNCHANGED <<feed, published>>

----------------------------------------------------------------------------

(* A connection passes on every event of its job that the stream still     *)
(* has, in their order and none twice, whichever other jobs' events and    *)
(* whatever trimming come in between, and it ends with the first that ends *)
(* the job and not before (iter_events, stream_job_events).                *)
WatchedInOrder ==
    LET shown == watcher.shown
    IN /\ \A i \in 1..(Len(shown) - 1) : shown[i].id < shown[i + 1].id /\ ~Terminal(shown[i])
       /\ watcher.pc = "ended" <=> shown # <<>> /\ Terminal(Last(shown))
       /\ watcher.pc # "closed" =>
             \A e \in Range(feed) : e.job \in watcher.job /\ e.id <= watcher.cursor => e \in Range(shown)
=============================================================================
