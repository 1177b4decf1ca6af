-------------------------- MODULE AtLeastOnceQueue --------------------------
(***************************************************************************)
(* What the job queue promises its users, with Redis left out: a published *)
(* message stays available until some worker has processed it to the end   *)
(* (process_job returned or raised).  Afterwards it may be forgotten, and  *)
(* it may also come back, because delivery is at least once.               *)
(***************************************************************************)
CONSTANT Messages

VARIABLES
    pool,       \* messages the queue can still hand to a worker
    handled     \* messages some worker has processed to the end

vars == <<pool, handled>>

Init == pool = {} /\ handled = {}

Publish(m) ==
    /\ m \notin pool \cup handled
    /\ pool' = pool \cup {m}
    /\ UNCHANGED handled

Handle(m) ==
    /\ m \in pool
    /\ handled' = handled \cup {m}
    /\ UNCHANGED pool

\* Only a handled message may leave the pool.
Forget(m) ==
    /\ m \in pool \cap handled
    /\ pool' = pool \ {m}
    /\ UNCHANGED handled

\* A duplicate of a message that was already handled.
Redeliver(m) ==
    /\ m \in handled \ pool
    /\ pool' = pool \cup {m}
    /\ UNCHANGED handled

Next ==
    \E m \in Messages : Publish(m) \/ Handle(m) \/ Forget(m) \/ Redeliver(m)

Spec == Init /\ [][Next]_vars
=============================================================================
