----------------------------- MODULE StaleSweep -----------------------------
(***************************************************************************)
(* JobStream with a clock: which pending entries the stale sweep of        *)
(* worker.py finds.  Redis counts for how long an entry has been pending    *)
(* since it was delivered or claimed, also while it waits in a buffer      *)
(* behind other entries of the same read, and stale_min_idle_ms is derived *)
(* from how long a worker is expected to need for all of them.             *)
(*                                                                         *)
(* Only a conversion takes time: it is stopped after                       *)
(* WORKER_CONVERSION_TIMEOUT and tried again, as _convert_file does on any *)
(* exception (retry.py).  Redis calls and the rest of process_job are far  *)
(* below a tick and are what the margin is for.                            *)
(***************************************************************************)
EXTENDS JobStream

CONSTANTS
    Timeout,    \* WORKER_CONVERSION_TIMEOUT, in ticks
    Margin,     \* _STALE_IDLE_MARGIN_MS, in ticks
    Tries       \* attempts of retry_on_exception at a conversion

ASSUME SweepAssumption ==
    /\ Timeout \in Nat \ {0} /\ Margin \in Nat \ {0} /\ Tries \in Nat \ {0}

VARIABLES
    idle,       \* pending entry -> ticks since it was delivered or claimed
    spent,      \* worker -> ticks it has been converting the entry in hand
    late,       \* messages a worker held while one of them took it more than Timeout
    doubled     \* messages whose entry stayed although a sweep had made its copy

clocks == <<idle, spent, late, doubled>>
timed == <<vars, clocks>>

\* Entries one read delivers beyond the one it returns.
MAX_BUFFERED == NStreams - 1

\* Mutant of stale_min_idle: the timeout of one conversion.
stale_min_idle_single == Timeout + Margin

\* The timeout once for each entry a worker can hold, and the margin.
stale_min_idle == Timeout * (1 + MAX_BUFFERED) + Margin

Stale(s) == {e \in Pending(s) : idle[e] >= stale_min_idle}

StaleInit ==
    /\ Init
    /\ idle = [e \in {} |-> 0]
    /\ spent = [w \in Workers |-> 0]
    /\ late = {} /\ doubled = {}

\* A sweep is given what is stale, and what is claimed or delivered starts anew.
NewlyClaimed(w) == claimed'[w] \ claimed[w]
Fresh == pel' \ (pel \ UNION {NewlyClaimed(w) : w \in Workers})
Abandoned == {w \in Workers : pc[w] = "reack" /\ pc'[w] # "reack" /\ cur[w] \in pel'}
Clocks ==
    /\ \A w \in Workers : NewlyClaimed(w) \subseteq Stale(sweepAt[w])
    /\ idle' = [e \in pel' |-> IF e \in Fresh THEN 0 ELSE idle[e]]
    /\ spent' = [w \in Workers |-> IF pc[w] = "run" /\ pc'[w] = "run" THEN spent[w] ELSE 0]
    /\ doubled' = doubled \cup {Msg(cur[w]) : w \in Abandoned}
    /\ UNCHANGED late

\* Time passes while workers convert, and while they have nothing to do.
Converting(w) == pc[w] = "run" /\ spent[w] < Tries * Timeout
Waiting(w) == pc[w] \in {"fetch", "claim", "requeue"} /\ buffer[w] \cup claimed[w] = {}
Overtime(w) == pc[w] = "run" /\ spent[w] >= Timeout
Tick ==
    /\ \A w \in Workers : Converting(w) \/ Waiting(w)
    /\ idle' = [e \in pel |-> IF idle[e] < stale_min_idle THEN idle[e] + 1 ELSE idle[e]]
    /\ spent' = [w \in Workers |-> IF pc[w] = "run" THEN spent[w] + 1 ELSE 0]
    /\ late' = late \cup {Msg(e) : e \in UNION {Held(w) : w \in {v \in Workers : Overtime(v)}}}
    /\ UNCHANGED <<vars, doubled>>

StaleNext == (Next /\ Clocks) \/ Tick
StaleSpec == StaleInit /\ [][StaleNext]_timed

\* Workers that are up keep going, time passes, and an orphan that is stale is
\* taken by some later sweep.
StaleFairness ==
    /\ SF_timed(Tick)
    /\ \A w \in Workers :
        /\ WF_timed((Fetch(w) \/ Settle(w) \/ Sweep(w)) /\ Clocks)
        /\ SF_timed(LET found == Orphans(sweepAt[w]) \cap Stale(sweepAt[w])
                    IN  found # {} /\ Autoclaim(w, found) /\ Clocks)
FairStaleSpec == StaleSpec /\ StaleFairness

------------------------------------------------------------------------------
(* Properties *)

StaleTypeOK ==
    /\ idle \in [pel -> 0..stale_min_idle]
    /\ spent \in [Workers -> 0..Tries * Timeout]
    /\ late \subseteq Messages
    /\ doubled \subseteq Messages

\* stale_min_idle_ms: "If the threshold were just the conversion timeout, a
\* legitimately running long conversion would be 'reclaimed' by an idle peer,
\* converted twice and [...] charged twice".  A message is processed by one worker
\* at a time, unless a sweep failed between the copy and the acknowledgement, or a
\* worker that held it needed more than the timeout for one of its messages.
HeldOnce ==
    \A v, w \in Workers :
        v # w /\ pc[v] = "run" /\ pc[w] = "run" =>
            Msg(cur[v]) # Msg(cur[w]) \/ Msg(cur[v]) \in late \cup doubled
==============================================================================
