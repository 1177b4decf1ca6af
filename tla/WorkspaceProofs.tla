--------------------------- MODULE WorkspaceProofs ---------------------------
(***************************************************************************)
(* Proofs about WorkspaceExecution for any sets of requests, workers,      *)
(* configurations and keys and any bounds.  Typed is the type invariant    *)
(* with the control state of every caller; on it rest the invariant of the *)
(* claims (RanOnce), of the carriers of an execution (NoStuckExecution)    *)
(* and of what the rows say of the container (RuntimeSound).               *)
(***************************************************************************)
EXTENDS WorkspaceExecution, TLAPS, FiniteSetTheorems, WellFoundedInduction

------------------------------------------------------------------------------
(* Naturals and finite sets *)

\* A set of naturals that is not empty has a least element.
LEMMA Least ==
    ASSUME NEW T, T \subseteq Nat, T # {}
    PROVE  \E m \in T : \A n \in T : m <= n
<1> DEFINE R == OpToRel(<, Nat)
<1>1. IsWellFoundedOn(R, Nat)
  BY NatLessThanWellFounded
<1>2. PICK m \in T : \A n \in T : ~(<<n, m>> \in R)
  <2> HIDE DEF R
  <2> QED BY <1>1, WFMin
<1>3. \A n \in T : ~(n < m)
  <2> TAKE n \in T
  <2>1. n \in Nat /\ m \in Nat
    OBVIOUS
  <2>2. R = {ss \in Nat \X Nat : ss[1] < ss[2]}
    BY DEF OpToRel
  <2>3. n < m => <<n, m>> \in R
    <3> HIDE DEF R
    <3> QED BY <2>1, <2>2
  <2> QED BY <1>2, <2>3
<1> QED BY <1>3

\* A set of naturals below a bound that is not empty has a greatest element.
LEMMA Greatest ==
    ASSUME NEW k \in Nat, NEW T, T \subseteq 0 .. k, T # {}
    PROVE  \E m \in T : \A n \in T : n <= m
<1> DEFINE D == {k - n : n \in T}
<1>1. D \subseteq Nat /\ D # {}
  <2>1. \A n \in T : k - n \in Nat
    OBVIOUS
  <2> QED BY <2>1
<1>2. PICK d \in D : \A n \in D : d <= n
  <2> HIDE DEF D
  <2> QED BY <1>1, Least
<1>3. PICK m \in T : d = k - m
  OBVIOUS
<1>4. ASSUME NEW n \in T PROVE n <= m
  <2>1. k - n \in D
    OBVIOUS
  <2>2. k - m <= k - n
    BY <1>2, <1>3, <2>1
  <2> QED BY <2>2
<1> QED BY <1>4

\* Of a finite set of naturals at most k members have fewer than k members
\* above them.
LEMMA KeptBound ==
    ASSUME NEW R, R \subseteq Nat, IsFiniteSet(R), NEW k \in Nat \ {0}
    PROVE  Cardinality({v \in R : ~(Cardinality({u \in R : u > v}) >= k)}) <= k
<1> DEFINE Above(v) == {u \in R : u > v}
           Kept == {v \in R : ~(Cardinality(Above(v)) >= k)}
<1> SUFFICES Cardinality(Kept) <= k
  OBVIOUS
<1>1. CASE Kept = {}
  <2> HIDE DEF Kept
  <2> QED BY <1>1, FS_EmptySet
<1>2. CASE Kept # {}
  <2>1. PICK m \in Kept : \A n \in Kept : m <= n
    <3>1. Kept \subseteq Nat
      OBVIOUS
    <3> HIDE DEF Kept
    <3> QED BY <1>2, <3>1, Least
  <2>2. IsFiniteSet(Above(m)) /\ Cardinality(Above(m)) \in Nat
    BY FS_Subset, FS_CardinalityType
  <2>3. Cardinality(Above(m)) <= k - 1
    BY <2>1, <2>2
  <2>4. IsFiniteSet(Above(m) \cup {m}) /\ Cardinality(Above(m) \cup {m}) = Cardinality(Above(m)) + 1
    <3>1. m \notin Above(m)
      OBVIOUS
    <3> QED BY <2>2, <3>1, FS_AddElement
  <2>5. Kept \subseteq Above(m) \cup {m}
    <3> SUFFICES ASSUME NEW v \in Kept, v # m PROVE v \in Above(m)
      OBVIOUS
    <3>1. v \in R /\ v \in Nat /\ m \in Nat
      OBVIOUS
    <3>2. m <= v
      BY <2>1
    <3> QED BY <3>1, <3>2
  <2>6. Cardinality(Kept) <= Cardinality(Above(m) \cup {m}) /\ Cardinality(Kept) \in Nat
    BY <2>4, <2>5, FS_Subset, FS_CardinalityType
  <2> QED BY <2>2, <2>3, <2>4, <2>6
<1> QED BY <1>1, <1>2

------------------------------------------------------------------------------
(* The type invariant, with the control state of every caller *)

\* What configurations, keys and arguments are made of.
Values == Configs \cup Keys \cup Nat \cup {NoConfig}

\* The steps of a start, taken by requests and by workers, and the steps
\* that only a worker takes for an execution or for a snapshot.
StartAts == {"s_read", "s_slot", "s_save", "s_reuse", "s_create", "s_run", "w_save"}
ExecAts == StartAts \cup {"h_read", "h_owner", "started", "h_claim", "h_run", "h_check", "h_save"}
SnapAts == {"v_read", "v_build", "v_commit", "v_ready", "v_fail", "v_prune"}
EndAts == {"ack", "raised"}

\* The steps of a request.
SubmitAts == {"x_touch", "x_publish", "x_fail"}
SaveAts == {"e_publish", "e_fail"}
CancelAts == {"c_read", "c_save"}
LifeAts == StartAts \cup
    {"idle", "u_read", "a_read", "d_read", "d_mark", "d_runtime", "d_box", "d_volume", "d_revs",
     "d_execs", "d_slot", "d_row", "p_read", "p_save", "p_stop", "p_done", "p_touch"}
PlainAts == LifeAts \cup
    {"x_read", "x_check", "x_insert", "e_read", "e_create", "f_check", "f_write", "f_delete"}

Steps == {"idle"} \cup EndAts \cup ExecAts \cup SnapAts \cup PlainAts \cup SubmitAts \cup SaveAts \cup CancelAts
Operations == {"none", "submit", "cancel", "save", "write", "remove", "update", "archive", "reactivate",
               "delete", "start", "stop", "restart"}

\* The rows, the copies, the messages and the tasks.
Workspaces == [state : WorkspaceStates, cfg : Values]
Runtimes == [state : RuntimeStates \cup {"NONE"}, ref : Nat, cfg : Values, rev : Nat]
Boxes == [id : Nat, up : BOOLEAN, cfg : Values, rev : Nat]
Revisions == [st : RevisionStates, cfg : Values, img : Values]
Calls == [at : Steps, op : Operations, arg : Values, w : Workspaces, r : Runtimes]
Rows == [st : Active \cup Terminal \cup {"DELETED"}, key : Values, ran : Nat]
Tasks == [kind : {"none", "exec", "snap"}, id : Nat, st : Active \cup Terminal \cup {"none", "PENDING", "DELETED"}]
Letters == {"exec", "snap"} \X Nat

\* The rows of the store, the container and the counters.
Kept ==
    /\ ws \in Workspaces /\ rt \in Runtimes /\ box \in Boxes
    /\ made \in 0 .. MaxBoxes /\ revs \in Seq(Revisions)
    /\ rt.ref <= made /\ box.id <= made /\ box.rev <= Len(revs)
    /\ ops \in Nat /\ faults \in Nat
Stored == Kept /\ disk \in Nat /\ blind \in Nat

\* The callers, with the copies they hold.
Called == pc \in [Callers -> Calls] /\ \A p \in Callers : pc[p].r.ref <= made

\* What a message or a task names is there.
Names(kind, id, E, V) == (kind = "exec" => id \in E) /\ (kind = "snap" => id \in V)
Named(kind, id) == Names(kind, id, DOMAIN exs, DOMAIN revs)

\* The executions, and the messages and tasks that name them.
Worked ==
    /\ exs \in Seq(Rows)
    /\ queue \in Seq(Letters) /\ stale \subseteq Letters /\ dead \subseteq Letters
    /\ task \in [Callers -> Tasks]
    /\ \A i \in DOMAIN queue : Named(queue[i][1], queue[i][2])
    /\ \A m \in stale \cup dead : Named(m[1], m[2])
    /\ \A p \in Callers : Named(task[p].kind, task[p].id) /\ (task[p].kind = "none" => task[p].id = 0)

\* Where a worker is and what it works on.
WorkerControl(w) ==
    /\ pc[w].at \in {"idle"} \cup EndAts \cup ExecAts \cup SnapAts
    /\ pc[w].at \in EndAts => task[w].kind # "none"
    /\ pc[w].at \in ExecAts => task[w].kind = "exec"
    /\ pc[w].at \in SnapAts => task[w].kind = "snap"
    /\ pc[w].at \in {"h_check", "h_save"} => task[w].st \in Terminal

\* Where a request is and what it works on.
RequestControl(p) ==
    /\ pc[p].at \in PlainAts \cup SubmitAts \cup SaveAts \cup CancelAts
    /\ pc[p].at \in SubmitAts => task[p].kind = "exec"
    /\ pc[p].at \in SaveAts => task[p].kind = "snap"
    /\ pc[p].at \in CancelAts => pc[p].arg \in DOMAIN exs

Controlled == (\A w \in Workers : WorkerControl(w)) /\ (\A p \in Requests : RequestControl(p))

Typed == Stored /\ Called /\ Worked /\ Controlled

\* A caller is a request or a worker, never both.
LEMMA CallerFact ==
    ASSUME NEW p \in Callers
    PROVE  (p \in Workers <=> p \notin Requests)
BY RuntimeAssumption DEF RuntimeAssumption, Callers

\* The copies of a caller that does nothing.
LEMMA IdleFact ==
    /\ NoRuntime \in Runtimes /\ NoRuntime.ref = 0
    /\ Idle \in Calls /\ Idle.at = "idle" /\ Idle.r = NoRuntime
<1>1. NoRuntime \in Runtimes /\ NoRuntime.ref = 0
  BY DEF NoRuntime, Runtimes, Values
<1>2. [state |-> "NONE", cfg |-> NoConfig] \in Workspaces
  BY DEF Workspaces, WorkspaceStates, Values
<1>3. 0 \in Values /\ "idle" \in Steps /\ "none" \in Operations
  BY DEF Values, Steps, Operations
<1>4. \A w \in Workspaces, r \in Runtimes : [at |-> "idle", op |-> "none", arg |-> 0, w |-> w, r |-> r] \in Calls
  BY <1>3 DEF Calls
<1> QED BY <1>1, <1>2, <1>4 DEF Idle

\* Only p moves, to a given step with a given copy of the runtime.
Moves(p, step, r) ==
    /\ pc' \in [Callers -> Calls]
    /\ \A q \in Callers \ {p} : pc'[q] = pc[q]
    /\ pc'[p].at = step /\ pc'[p].r = r

\* The ways a caller moves on.
LEMMA GotoFact ==
    ASSUME Called, NEW p \in Callers, NEW step \in Steps, Goto(p, step)
    PROVE  Moves(p, step, pc[p].r) /\ pc'[p].w = pc[p].w /\ pc'[p].arg = pc[p].arg
BY DEF Called, Goto, Moves, Calls

LEMMA GotoWithFact ==
    ASSUME Called, NEW p \in Callers, NEW step \in Steps, NEW w \in Workspaces, NEW r \in Runtimes,
           GotoWith(p, step, w, r)
    PROVE  Moves(p, step, r) /\ pc'[p].w = w /\ pc'[p].arg = pc[p].arg
BY DEF Called, GotoWith, Moves, Calls

LEMMA ReturnFact ==
    ASSUME Called, NEW p \in Callers, NEW r \in Runtimes, Return(p, r)
    PROVE  \/ p \in Workers /\ Moves(p, "started", r)
           \/ p \in Requests /\ Moves(p, "idle", NoRuntime)
<1>1. CASE p \in Workers
  <2> DEFINE c == [pc[p] EXCEPT !.at = "started", !.r = r]
  <2>1. pc' = [pc EXCEPT ![p] = c]
    BY <1>1 DEF Return, Called
  <2>2. c \in Calls /\ c.at = "started" /\ c.r = r
    BY DEF Called, Calls, Steps, EndAts, ExecAts
  <2> HIDE DEF c
  <2> QED BY <1>1, <2>1, <2>2 DEF Called, Moves
<1>2. CASE p \in Requests
  <2>1. pc' = [pc EXCEPT ![p] = Idle]
    BY <1>2, CallerFact DEF Return
  <2> QED BY <1>2, <2>1, IdleFact DEF Called, Moves
<1> QED BY <1>1, <1>2 DEF Callers

LEMMA RaiseFact ==
    ASSUME Called, NEW p \in Callers, RaiseError(p)
    PROVE  \/ p \in Workers /\ Moves(p, "raised", pc[p].r)
           \/ p \in Requests /\ Moves(p, "idle", NoRuntime)
<1>1. CASE p \in Workers
  <2> DEFINE c == [pc[p] EXCEPT !.at = "raised"]
  <2>1. pc' = [pc EXCEPT ![p] = c]
    BY <1>1 DEF RaiseError, Called
  <2>2. c \in Calls /\ c.at = "raised" /\ c.r = pc[p].r
    BY DEF Called, Calls, Steps, EndAts, ExecAts
  <2> HIDE DEF c
  <2> QED BY <1>1, <2>1, <2>2 DEF Called, Moves
<1>2. CASE p \in Requests
  <2>1. pc' = [pc EXCEPT ![p] = Idle]
    BY <1>2, CallerFact DEF RaiseError
  <2> QED BY <1>2, <2>1, IdleFact DEF Called, Moves
<1> QED BY <1>1, <1>2 DEF Callers

LEMMA BeginFact ==
    ASSUME Called, NEW p, NEW op \in Operations, NEW arg \in Values, NEW step \in Steps, Begin(p, op, arg, step)
    PROVE  /\ p \in Requests /\ p \in Callers /\ Moves(p, step, NoRuntime) /\ pc'[p].arg = arg
           /\ UNCHANGED <<ws, rt, box, made, volume, revs, faults>> /\ pc[p].at = "idle" /\ ops' = ops + 1
<1>1. p \in Callers /\ p \in Requests
  BY DEF Begin, Callers
<1> QED BY <1>1, IdleFact DEF Called, Begin, Moves, Calls, Idle, Store

------------------------------------------------------------------------------
(* The steps on the workspace and its runtime *)

\* Between the steps of its runtime a worker stays inside a start, and
\* reports to its handler at the end; a request ends, or goes on with a step
\* of its own operation, unless its process dies.
RuntimeMoves(p) ==
    \E step \in Steps, r \in Runtimes :
        /\ Moves(p, step, r) /\ r.ref <= made'
        /\ p \in Workers => pc[p].at \in StartAts /\ step \in StartAts \cup {"started", "raised"}
        /\ p \in Requests => step \in LifeAts /\ (pc[p].at \in LifeAts \/ faults' > 0)

\* What such a step leaves of the store.
RuntimeKeeps ==
    /\ Kept' /\ revs' = revs /\ made <= made' /\ faults <= faults'

LEMMA ReusableFact ==
    ASSUME Kept, NEW cfg
    PROVE  Reusable(cfg) \in 0 .. Len(revs)
<1> DEFINE ready == {v \in DOMAIN revs : revs[v].st = "READY" /\ revs[v].cfg = cfg}
<1>1. CASE ready = {}
  BY <1>1 DEF Reusable, Kept
<1>2. CASE ready # {}
  <2>1. ready \subseteq 0 .. Len(revs) /\ Len(revs) \in Nat
    BY DEF Kept
  <2>2. \E v \in ready : \A u \in ready : u <= v
    <3> HIDE DEF ready
    <3> QED BY <1>2, <2>1, Greatest
  <2>3. Reusable(cfg) \in ready
    BY <1>2, <2>2 DEF Reusable
  <2> QED BY <2>1, <2>3
<1> QED BY <1>1, <1>2

\* A request that begins.
LEMMA BeginMoves ==
    ASSUME Typed, NEW p, NEW op \in Operations, NEW arg \in Values, NEW step \in LifeAts, Begin(p, op, arg, step)
    PROVE  p \in Callers /\ RuntimeMoves(p) /\ RuntimeKeeps
<1>1. step \in Steps
  BY DEF Steps, PlainAts
<1>2. /\ p \in Requests /\ p \in Callers /\ Moves(p, step, NoRuntime)
      /\ UNCHANGED <<ws, rt, box, made, volume, revs, faults>> /\ pc[p].at = "idle" /\ ops' = ops + 1
  BY <1>1, BeginFact DEF Typed
<1>3. RuntimeKeeps
  BY <1>2 DEF Typed, Stored, Kept, RuntimeKeeps
<1>4. NoRuntime.ref <= made'
  BY <1>2, IdleFact DEF Typed, Stored, Kept
<1> QED BY <1>1, <1>2, <1>3, <1>4, IdleFact, CallerFact DEF RuntimeMoves, LifeAts

LEMMA EndpointStep ==
    ASSUME Typed, NEW p \in Callers, Endpoints(p)
    PROVE  RuntimeMoves(p) /\ RuntimeKeeps
<1>1. /\ {"update", "archive", "reactivate", "delete", "start", "stop", "restart"} \subseteq Operations
      /\ {"u_read", "a_read", "d_read", "s_read", "p_read"} \subseteq LifeAts
      /\ Configs \cup {0, 1} \subseteq Values
  BY DEF Operations, LifeAts, StartAts, Values
<1>2. ASSUME NEW cfg \in Configs, UpdateEndpoint(p, cfg) PROVE RuntimeMoves(p) /\ RuntimeKeeps
  BY <1>1, <1>2, BeginMoves DEF UpdateEndpoint
<1>3. CASE ArchiveEndpoint(p) \/ ReactivateEndpoint(p) \/ DeleteEndpoint(p) \/ StartEndpoint(p)
  BY <1>1, <1>3, BeginMoves DEF ArchiveEndpoint, ReactivateEndpoint, DeleteEndpoint, StartEndpoint
<1>4. ASSUME NEW force \in {0, 1}, StopEndpoint(p, force) \/ RestartEndpoint(p, force)
      PROVE  RuntimeMoves(p) /\ RuntimeKeeps
  BY <1>1, <1>4, BeginMoves DEF StopEndpoint, RestartEndpoint
<1> QED BY <1>2, <1>3, <1>4 DEF Endpoints

\* A worker among these steps is inside a start.
LEMMA LifeFact ==
    ASSUME Typed, NEW p \in Callers, pc[p].at \in LifeAts \ {"idle"}
    PROVE  p \in Workers => pc[p].at \in StartAts
BY DEF Typed, Controlled, WorkerControl, LifeAts, StartAts, ExecAts, SnapAts, EndAts

\* A caller goes on.
LEMMA Going ==
    ASSUME Typed, NEW p \in Callers, NEW step \in LifeAts, NEW r \in Runtimes, Moves(p, step, r), r.ref <= made',
           pc[p].at \in LifeAts \ {"idle"}, pc[p].at \in StartAts => step \in StartAts
    PROVE  RuntimeMoves(p)
<1>1. step \in Steps
  BY DEF Steps, PlainAts
<1> QED BY <1>1, LifeFact, CallerFact DEF RuntimeMoves

\* A caller ends its call.
LEMMA Ending ==
    ASSUME Typed, NEW p \in Callers, pc[p].at \in LifeAts \ {"idle"}, made' \in Nat, made <= made',
           NEW r \in Runtimes, r.ref <= made', Return(p, r) \/ RaiseError(p)
    PROVE  RuntimeMoves(p)
<1>1. {"started", "raised", "idle"} \subseteq Steps /\ "idle" \in LifeAts
  BY DEF Steps, ExecAts, EndAts, LifeAts
<1>2. pc[p].r \in Runtimes /\ pc[p].r.ref <= made'
  BY DEF Typed, Called, Calls, Runtimes, Stored, Kept
<1>3. NoRuntime \in Runtimes /\ NoRuntime.ref <= made'
  BY IdleFact
<1>4. CASE p \in Workers
  BY <1>1, <1>2, <1>4, LifeFact, CallerFact, ReturnFact, RaiseFact DEF RuntimeMoves, Typed
<1>5. CASE p \in Requests
  BY <1>1, <1>3, <1>5, CallerFact, ReturnFact, RaiseFact DEF RuntimeMoves, Typed
<1> QED BY <1>4, <1>5 DEF Callers

LEMMA GoOn ==
    ASSUME Typed, NEW p \in Callers, NEW step \in LifeAts, Goto(p, step), made' \in Nat, made <= made',
           pc[p].at \in LifeAts \ {"idle"}, pc[p].at \in StartAts => step \in StartAts
    PROVE  RuntimeMoves(p)
<1>1. step \in Steps
  BY DEF Steps, PlainAts
<1>2. pc[p].r \in Runtimes /\ pc[p].r.ref <= made'
  BY DEF Typed, Called, Calls, Runtimes, Stored, Kept
<1> QED BY <1>1, <1>2, GotoFact, Going DEF Typed

LEMMA GoOnWith ==
    ASSUME Typed, NEW p \in Callers, NEW step \in LifeAts, NEW w \in Workspaces, NEW r \in Runtimes,
           GotoWith(p, step, w, r), r.ref <= made',
           pc[p].at \in LifeAts \ {"idle"}, pc[p].at \in StartAts => step \in StartAts
    PROVE  RuntimeMoves(p)
<1>1. step \in Steps
  BY DEF Steps, PlainAts
<1> QED BY <1>1, GotoWithFact, Going DEF Typed

\* What a caller holds.
LEMMA HoldsFact ==
    ASSUME Typed, NEW p \in Callers
    PROVE  /\ pc[p] \in Calls /\ pc[p].r \in Runtimes /\ pc[p].w \in Workspaces /\ pc[p].arg \in Values
           /\ pc[p].w.cfg \in Values /\ pc[p].r.ref \in Nat /\ pc[p].r.ref <= made /\ made \in Nat
           /\ ws \in Workspaces /\ rt \in Runtimes /\ rt.ref <= made /\ Kept /\ Called
           /\ NoRuntime \in Runtimes /\ NoRuntime.ref = 0
BY IdleFact DEF Typed, Stored, Called, Calls, Kept, Workspaces, Runtimes

\* What the provider makes of the container without creating one.
LEMMA BoxFact ==
    ASSUME Kept, NEW b \in {box, NoBox, [box EXCEPT !.up = TRUE], [box EXCEPT !.up = FALSE]}
    PROVE  b \in Boxes /\ b.id <= made /\ b.rev <= Len(revs)
<1>1. box \in Boxes /\ box.id <= made /\ box.rev <= Len(revs) /\ made \in Nat /\ Len(revs) \in Nat
  BY DEF Kept
<1>2. NoConfig \in Values
  BY DEF Values
<1>3. CASE b = NoBox
  BY <1>1, <1>2, <1>3 DEF NoBox, Boxes
<1>4. CASE b \in {[box EXCEPT !.up = TRUE], [box EXCEPT !.up = FALSE]}
  BY <1>1, <1>4 DEF Boxes
<1> QED BY <1>1, <1>3, <1>4

LEMMA StartStep ==
    ASSUME Typed, NEW p \in Callers, StartSteps(p)
    PROVE  RuntimeMoves(p) /\ RuntimeKeeps
<1>a. /\ StartAts \subseteq LifeAts \ {"idle"}
      /\ {"s_read", "s_slot", "s_save", "s_reuse", "s_create", "s_run", "w_save"} \subseteq StartAts
  BY DEF LifeAts, StartAts
<1>1. CASE StartRead(p)
  <2>1. RuntimeKeeps /\ made' = made
    BY <1>1, HoldsFact DEF StartRead, RuntimeKeeps, Kept, Store
  <2> QED BY <1>a, <1>1, <2>1, HoldsFact, GoOnWith, Ending DEF StartRead
<1>2. CASE StartSlot(p)
  <2>1. InsertRuntime \in Runtimes /\ InsertRuntime.ref <= made /\ BeginStart(InsertRuntime) \in Runtimes
        /\ BeginStart(InsertRuntime).ref <= made
    BY HoldsFact DEF InsertRuntime, Runtimes, RuntimeStates, BeginStart
  <2>2. RuntimeKeeps /\ made' = made
    BY <1>2, <2>1, HoldsFact DEF StartSlot, RuntimeKeeps, Kept
  <2> QED BY <1>a, <1>2, <2>1, <2>2, HoldsFact, GoOnWith, Ending DEF StartSlot
<1>3. CASE StartSave(p)
  <2>1. RuntimeKeeps /\ made' = made
    BY <1>3, HoldsFact DEF StartSave, SaveRuntime, RuntimeKeeps, Kept
  <2> QED BY <1>a, <1>3, <2>1, HoldsFact, GoOn DEF StartSave
<1>4. CASE StartReuse(p)
  <2>1. box' \in Boxes /\ box'.id <= made /\ box'.rev <= Len(revs)
    BY <1>4, HoldsFact, BoxFact DEF StartReuse, ResumeContainer, DeleteContainer
  <2>2. RuntimeKeeps /\ made' = made
    BY <1>4, <2>1, HoldsFact DEF StartReuse, RuntimeKeeps, Kept
  <2> QED BY <1>a, <1>4, <2>2, HoldsFact, GoOn DEF StartReuse
<1>5. CASE StartCreate(p)
  <2> DEFINE cfg == pc[p].w.cfg
             r == [pc[p].r EXCEPT !.ref = made + 1, !.rev = Reusable(cfg)]
  <2>1. Reusable(cfg) \in 0 .. Len(revs) /\ Reusable(cfg) \in Nat /\ Len(revs) \in Nat
    BY HoldsFact, ReusableFact DEF Kept
  <2>2. made' = made + 1 /\ made' \in 0 .. MaxBoxes
    BY <1>5, HoldsFact, RuntimeAssumption DEF StartCreate, CreateContainer, Kept, RuntimeAssumption
  <2>3. box' = [id |-> made + 1, up |-> TRUE, cfg |-> cfg, rev |-> Reusable(cfg)]
    BY <1>5 DEF StartCreate, CreateContainer
  <2>4. box' \in Boxes /\ box'.id <= made' /\ box'.rev <= Len(revs)
    <3> HIDE DEF cfg
    <3>1. cfg \in Values
      BY HoldsFact DEF cfg
    <3> QED BY <3>1, <2>1, <2>2, <2>3, HoldsFact DEF Boxes
  <2>5. RuntimeKeeps
    <3>1. UNCHANGED <<ws, rt, revs, ops, faults>> /\ Kept /\ made \in Nat
      BY <1>5, HoldsFact DEF StartCreate
    <3>2. rt.ref <= made'
      BY <2>2, <3>1 DEF Kept, Runtimes
    <3> HIDE DEF cfg
    <3> QED BY <2>2, <2>4, <3>1, <3>2 DEF RuntimeKeeps, Kept
  <2>6. r \in Runtimes /\ r.ref = made'
    <3>1. pc[p].r \in Runtimes /\ made + 1 \in Nat
      BY HoldsFact
    <3> HIDE DEF cfg
    <3> QED BY <2>1, <2>2, <3>1 DEF Runtimes
  <2>7. GotoWith(p, "s_run", pc[p].w, r) /\ pc[p].at = "s_create"
    BY <1>5 DEF StartCreate
  <2> HIDE DEF cfg, r
  <2>8. RuntimeMoves(p)
    BY <1>a, <2>2, <2>6, <2>7, HoldsFact, GoOnWith
  <2> QED BY <2>5, <2>8
<1>6. CASE StartRunning(p)
  <2> DEFINE r == MarkRunning(pc[p].r, pc[p].w.cfg)
  <2>1. r \in Runtimes /\ r.ref <= made
    BY HoldsFact DEF MarkRunning, Runtimes, RuntimeStates
  <2>2. /\ SaveRuntime(r) /\ GotoWith(p, "w_save", pc[p].w, r) /\ pc[p].at = "s_run"
        /\ UNCHANGED <<ws, box, made, volume, revs, ops, faults>>
    BY <1>6 DEF StartRunning
  <2> HIDE DEF r
  <2>3. RuntimeKeeps
    BY <2>1, <2>2, HoldsFact DEF SaveRuntime, RuntimeKeeps, Kept
  <2>4. RuntimeMoves(p)
    BY <1>a, <2>1, <2>2, HoldsFact, GoOnWith
  <2> QED BY <2>3, <2>4
<1>7. CASE WorkspaceSave(p)
  <2>1. RuntimeKeeps /\ made' = made
    BY <1>7, HoldsFact DEF WorkspaceSave, SaveWorkspace, RuntimeKeeps, Kept
  <2> QED BY <1>a, <1>7, <2>1, HoldsFact, Ending DEF WorkspaceSave
<1> QED BY <1>1, <1>2, <1>3, <1>4, <1>5, <1>6, <1>7 DEF StartSteps

LEMMA StopStep ==
    ASSUME Typed, NEW p \in Callers, NEW active, StopSteps(p, active)
    PROVE  RuntimeMoves(p) /\ RuntimeKeeps
<1>a. /\ {"p_read", "p_save", "p_stop", "p_done", "p_touch", "s_read"} \subseteq LifeAts \ {"idle"}
      /\ {"p_read", "p_save", "p_stop", "p_done", "p_touch"} \cap StartAts = {}
  BY DEF LifeAts, StartAts
<1>1. CASE StopRead(p, active)
  <2>1. RuntimeKeeps /\ made' = made
    BY <1>1, HoldsFact DEF StopRead, RuntimeKeeps, Kept, Store
  <2>2. BeginStop(rt) \in Runtimes /\ BeginStop(rt).ref <= made
    BY HoldsFact DEF BeginStop, Runtimes, RuntimeStates
  <2>3. \/ Goto(p, "s_read") \/ RaiseError(p) \/ GotoWith(p, "p_save", ws, BeginStop(rt))
    BY <1>1 DEF StopRead
  <2>4. pc[p].at = "p_read"
    BY <1>1 DEF StopRead
  <2> QED BY <1>a, <2>1, <2>2, <2>3, <2>4, HoldsFact, GoOn, GoOnWith, Ending
<1>2. CASE StopSave(p)
  <2>1. RuntimeKeeps /\ made' = made
    BY <1>2, HoldsFact DEF StopSave, SaveRuntime, RuntimeKeeps, Kept
  <2> QED BY <1>a, <1>2, <2>1, HoldsFact, GoOn DEF StopSave
<1>3. CASE StopProvider(p)
  <2>1. box' \in Boxes /\ box'.id <= made /\ box'.rev <= Len(revs)
    BY <1>3, HoldsFact, BoxFact DEF StopProvider, StopContainer
  <2>2. RuntimeKeeps /\ made' = made
    BY <1>3, <2>1, HoldsFact DEF StopProvider, RuntimeKeeps, Kept
  <2> QED BY <1>a, <1>3, <2>2, HoldsFact, GoOn DEF StopProvider
<1>4. CASE StopDone(p)
  <2> DEFINE r == MarkStopped(pc[p].r)
  <2>1. r \in Runtimes /\ r.ref <= made
    BY HoldsFact DEF MarkStopped, Runtimes, RuntimeStates
  <2>2. /\ SaveRuntime(r) /\ GotoWith(p, "p_touch", pc[p].w, r) /\ pc[p].at = "p_done"
        /\ UNCHANGED <<ws, box, made, volume, revs, ops, faults>>
    BY <1>4 DEF StopDone
  <2> HIDE DEF r
  <2>3. RuntimeKeeps
    BY <2>1, <2>2, HoldsFact DEF SaveRuntime, RuntimeKeeps, Kept
  <2>4. RuntimeMoves(p)
    BY <1>a, <2>1, <2>2, HoldsFact, GoOnWith
  <2> QED BY <2>3, <2>4
<1>5. CASE StopTouch(p)
  <2>1. RuntimeKeeps /\ made' = made
    BY <1>5, HoldsFact DEF StopTouch, SaveWorkspace, RuntimeKeeps, Kept
  <2>2. pc[p].at = "p_touch" /\ (Goto(p, "s_read") \/ Return(p, pc[p].r))
    BY <1>5 DEF StopTouch
  <2> QED BY <1>a, <2>1, <2>2, HoldsFact, GoOn, Ending
<1> QED BY <1>1, <1>2, <1>3, <1>4, <1>5 DEF StopSteps

LEMMA LifecycleStep ==
    ASSUME Typed, NEW p \in Callers, LifecycleSteps(p)
    PROVE  RuntimeMoves(p) /\ RuntimeKeeps
<1>a. /\ {"u_read", "a_read", "d_read", "d_mark", "d_runtime", "d_box", "d_volume", "d_revs", "d_slot", "d_row", "w_save"}
             \subseteq LifeAts \ {"idle"}
      /\ {"u_read", "a_read", "d_read", "d_mark", "d_runtime", "d_box", "d_volume", "d_slot"} \cap StartAts = {}
  BY DEF LifeAts, StartAts
<1>b. ASSUME NEW step \in {"w_save", "d_mark"}, NEW w \in Workspaces, pc[p].at \in {"u_read", "a_read", "d_read"},
             GotoWith(p, step, w, NoRuntime) \/ RaiseError(p), UNCHANGED <<Store, ops, faults>>
      PROVE  RuntimeMoves(p) /\ RuntimeKeeps
  <2>1. RuntimeKeeps /\ made' = made
    BY <1>b, HoldsFact DEF RuntimeKeeps, Kept, Store
  <2> QED BY <1>a, <1>b, <2>1, HoldsFact, GoOnWith, Ending
<1>1. CASE UpdateRead(p)
  <2>1. Reconfigured(ws, pc[p].arg) \in Workspaces
    BY HoldsFact DEF Reconfigured, Workspaces
  <2> QED BY <1>1, <1>b, <2>1 DEF UpdateRead
<1>2. CASE RetireRead(p)
  <2>1. [ws EXCEPT !.state = "ARCHIVED"] \in Workspaces /\ [ws EXCEPT !.state = "ACTIVE"] \in Workspaces
    BY HoldsFact DEF Workspaces, WorkspaceStates
  <2>2. \E w \in Workspaces : GotoWith(p, "w_save", w, NoRuntime) \/ RaiseError(p)
    BY <1>2, <2>1 DEF RetireRead
  <2>3. pc[p].at = "a_read" /\ UNCHANGED <<Store, ops, faults>>
    BY <1>2 DEF RetireRead
  <2> QED BY <1>b, <2>2, <2>3
<1>3. CASE DeleteRead(p)
  <2>1. [ws EXCEPT !.state = "DELETING"] \in Workspaces
    BY HoldsFact DEF Workspaces, WorkspaceStates
  <2>2. \E w \in Workspaces : GotoWith(p, "d_mark", w, NoRuntime) \/ RaiseError(p)
    BY <1>3, <2>1 DEF DeleteRead
  <2>3. pc[p].at = "d_read" /\ UNCHANGED <<Store, ops, faults>>
    BY <1>3 DEF DeleteRead
  <2> QED BY <1>b, <2>2, <2>3
<1>4. CASE DeleteMark(p)
  <2>1. RuntimeKeeps /\ made' = made
    BY <1>4, HoldsFact DEF DeleteMark, SaveWorkspace, RuntimeKeeps, Kept
  <2> QED BY <1>a, <1>4, <2>1, HoldsFact, GoOn DEF DeleteMark
<1>5. CASE DeleteBox(p)
  <2>1. box' \in Boxes /\ box'.id <= made /\ box'.rev <= Len(revs)
    BY <1>5, HoldsFact, BoxFact DEF DeleteBox, DeleteContainer
  <2>2. faults' \in Nat /\ faults <= faults' /\ UNCHANGED <<ws, rt, made, revs, ops>>
    BY <1>5, HoldsFact DEF DeleteBox, Fault, NoFault, Kept
  <2>3. RuntimeKeeps
    BY <2>1, <2>2, HoldsFact DEF RuntimeKeeps, Kept
  <2>4. pc[p].at = "d_box" /\ (Goto(p, "d_volume") \/ RaiseError(p))
    BY <1>5 DEF DeleteBox
  <2> QED BY <1>a, <2>2, <2>3, <2>4, HoldsFact, GoOn, Ending
<1>6. CASE DeleteLookup(p)
  <2>1. RuntimeKeeps /\ made' = made
    BY <1>6, HoldsFact DEF DeleteLookup, RuntimeKeeps, Kept, Store
  <2>2. pc[p].at = "d_runtime" /\ \E step \in {"d_volume", "d_box"} : GotoWith(p, step, pc[p].w, rt)
    BY <1>6 DEF DeleteLookup
  <2> QED BY <1>a, <2>1, <2>2, HoldsFact, GoOnWith
<1>7. CASE DeleteState(p)
  <2>1. faults' \in Nat /\ faults <= faults' /\ UNCHANGED <<ws, rt, box, made, revs, ops>>
    BY <1>7, HoldsFact DEF DeleteState, Fault, NoFault, Kept
  <2>2. RuntimeKeeps
    BY <2>1, HoldsFact DEF RuntimeKeeps, Kept
  <2> QED BY <1>a, <1>7, <2>1, <2>2, HoldsFact, GoOn DEF DeleteState
<1>8. CASE DeleteSlot(p)
  <2>1. RuntimeKeeps /\ made' = made
    BY <1>8, HoldsFact, IdleFact DEF DeleteSlot, DeleteRuntimeRow, RuntimeKeeps, Kept
  <2> QED BY <1>a, <1>8, <2>1, HoldsFact, GoOn DEF DeleteSlot
<1> QED BY <1>1, <1>2, <1>3, <1>4, <1>5, <1>6, <1>7, <1>8 DEF LifecycleSteps

LEMMA FaultStep ==
    ASSUME Typed, NEW p \in Callers, ProviderFaults(p)
    PROVE  RuntimeMoves(p) /\ RuntimeKeeps
<1>a. {"s_create", "s_reuse", "p_stop"} \subseteq LifeAts \ {"idle"}
  BY DEF LifeAts, StartAts
<1>b. ASSUME pc[p].at \in {"s_create", "s_reuse", "p_stop"}, RaiseError(p), Fault, SaveRuntime(MarkFailed(pc[p].r)) \/ rt' = rt,
             UNCHANGED <<ws, box, made, revs, ops>>
      PROVE  RuntimeMoves(p) /\ RuntimeKeeps
  <2> DEFINE r == MarkFailed(pc[p].r)
  <2>1. r \in Runtimes /\ r.ref <= made
    BY HoldsFact DEF MarkFailed, Runtimes, RuntimeStates
  <2>2. SaveRuntime(r) \/ rt' = rt
    BY <1>b
  <2> HIDE DEF r
  <2>3. RuntimeKeeps
    BY <1>b, <2>1, <2>2, HoldsFact DEF SaveRuntime, RuntimeKeeps, Kept, Fault
  <2> QED BY <1>a, <1>b, <2>3, HoldsFact, Ending
<1>1. CASE StartError(p) \/ StopError(p) \/ StopTimeout(p)
  <2>1. /\ pc[p].at \in {"s_create", "s_reuse", "p_stop"} /\ RaiseError(p) /\ Fault
        /\ SaveRuntime(MarkFailed(pc[p].r)) \/ rt' = rt
        /\ UNCHANGED <<ws, box, made, revs, ops>>
    BY <1>1 DEF StartError, StopError, StopTimeout
  <2> QED BY <1>b, <2>1
<1>2. CASE StartTimeout(p)
  <2>1. pc[p].at \in {"s_create", "s_reuse"} /\ RaiseError(p) /\ Fault /\ UNCHANGED <<ws, rt, revs, ops>>
    BY <1>2 DEF StartTimeout
  <2>2. CASE CreateContainer(pc[p].w.cfg, Reusable(pc[p].w.cfg))
    <3>1. Reusable(pc[p].w.cfg) \in 0 .. Len(revs) /\ Reusable(pc[p].w.cfg) \in Nat /\ Len(revs) \in Nat
      BY HoldsFact, ReusableFact DEF Kept
    <3>2. made' = made + 1 /\ made' \in 0 .. MaxBoxes
      BY <2>2, HoldsFact, RuntimeAssumption DEF CreateContainer, Kept, RuntimeAssumption
    <3>3. box' \in Boxes /\ box'.id <= made' /\ box'.rev <= Len(revs)
      BY <2>2, <3>1, <3>2, HoldsFact DEF CreateContainer, Boxes
    <3>4. Kept /\ made \in Nat /\ rt.ref <= made' /\ faults' \in Nat /\ faults <= faults'
      BY <2>1, <3>2, HoldsFact DEF Kept, Runtimes, Fault
    <3>5. RuntimeKeeps
      BY <2>1, <3>2, <3>3, <3>4 DEF RuntimeKeeps, Kept
    <3> QED BY <1>a, <2>1, <3>2, <3>5, HoldsFact, Ending
  <2>3. CASE made' = made /\ (ResumeContainer(pc[p].r.ref) \/ UNCHANGED box)
    <3>1. box' \in Boxes /\ box'.id <= made /\ box'.rev <= Len(revs)
      BY <2>3, HoldsFact, BoxFact DEF ResumeContainer
    <3>2. RuntimeKeeps
      BY <2>1, <2>3, <3>1, HoldsFact DEF RuntimeKeeps, Kept, Fault
    <3> QED BY <1>a, <2>1, <2>3, <3>2, HoldsFact, Ending
  <2> QED BY <1>2, <2>2, <2>3 DEF StartTimeout
<1> QED BY <1>1, <1>2 DEF ProviderFaults

LEMMA CrashStep ==
    ASSUME Typed, NEW p \in Callers, RequestCrash(p)
    PROVE  RuntimeMoves(p) /\ RuntimeKeeps
<1>1. pc' = [pc EXCEPT ![p] = Idle] /\ Fault /\ UNCHANGED <<ws, rt, box, made, volume, revs, ops>> /\ p \in Requests
  BY DEF RequestCrash, Store
<1>2. Moves(p, "idle", NoRuntime)
  BY <1>1, IdleFact, HoldsFact DEF Moves, Called
<1>3. RuntimeKeeps /\ faults' > 0
  BY <1>1, HoldsFact DEF RuntimeKeeps, Kept, Fault
<1>4. "idle" \in Steps /\ "idle" \in LifeAts /\ 0 <= made' /\ p \notin Workers
  BY <1>1, HoldsFact, CallerFact DEF Steps, LifeAts
<1> QED BY <1>1, <1>2, <1>3, <1>4, IdleFact DEF RuntimeMoves

\* What the steps on the workspace and its runtime do.
LEMMA RuntimeStep ==
    ASSUME Typed, NEW p \in Callers, RuntimeSteps(p)
    PROVE  /\ RuntimeMoves(p) /\ RuntimeKeeps /\ disk' \in {disk, 0}
           /\ UNCHANGED <<exs, queue, stale, task, blind, dead>>
<1>1. disk' \in {disk, 0} /\ UNCHANGED <<exs, queue, stale, task, blind, dead>>
  BY DEF RuntimeSteps
<1> QED BY <1>1, StartStep, StopStep, LifecycleStep, FaultStep, CrashStep, EndpointStep DEF RuntimeSteps

------------------------------------------------------------------------------
(* What a step of one caller may do *)

\* Only p moves.
CallFrame(p) == \E step \in Steps, r \in Runtimes : Moves(p, step, r) /\ r.ref <= made' /\ made <= made'

\* Rows are added, never taken away; messages come from M; only p changes
\* its task.
WorkFrame(p, M) ==
    /\ exs' \in Seq(Rows) /\ Len(exs) <= Len(exs') /\ Len(revs) <= Len(revs')
    /\ M \subseteq Letters /\ \A m \in M : Named(m[1], m[2])'
    /\ \/ queue' \in {queue} \cup {Append(queue, m) : m \in M}
       \/ queue # <<>> /\ queue' = Tail(queue)
    /\ stale' \subseteq stale \cup M /\ dead' \subseteq dead \cup M
    /\ task' \in [Callers -> Tasks]
    /\ \A q \in Callers \ {p} : task'[q] = task[q]
    /\ Named(task[p].kind, task[p].id)' /\ (task'[p].kind = "none" => task'[p].id = 0)

ControlFrame(p) == (p \in Workers => WorkerControl(p)') /\ (p \in Requests => RequestControl(p)')

\* Nobody else moves or changes its task.
Others(p) == \A q \in Callers \ {p} : pc'[q] = pc[q] /\ task'[q] = task[q]

\* The invariant survives such a step.
LEMMA FrameRule ==
    ASSUME Typed, NEW p \in Callers, NEW M, CallFrame(p), Stored', WorkFrame(p, M), ControlFrame(p)
    PROVE  Typed' /\ Others(p)
<1>1. PICK step \in Steps, r \in Runtimes : Moves(p, step, r) /\ r.ref <= made' /\ made <= made'
  BY DEF CallFrame
<1>2. made \in Nat /\ made' \in Nat /\ revs \in Seq(Revisions) /\ revs' \in Seq(Revisions)
  BY DEF Typed, Stored, Kept
<1>3. Called'
  <2>1. ASSUME NEW q \in Callers PROVE pc'[q].r.ref <= made'
    <3>1. CASE q = p
      BY <1>1, <3>1 DEF Moves
    <3>2. CASE q # p
      <4>1. pc'[q] = pc[q] /\ pc[q].r.ref \in Nat /\ pc[q].r.ref <= made
        BY <1>1, <3>2 DEF Moves, Typed, Called, Calls, Runtimes
      <4> QED BY <1>1, <1>2, <4>1
    <3> QED BY <3>1, <3>2
  <2> QED BY <1>1, <2>1 DEF Called, Moves
<1>4. DOMAIN exs \subseteq DOMAIN exs' /\ DOMAIN revs \subseteq DOMAIN revs'
  BY <1>2 DEF WorkFrame, Typed, Worked
<1> DEFINE N(kind, id) == Names(kind, id, DOMAIN exs', DOMAIN revs')
<1>5. \A kind, id : Named(kind, id) => N(kind, id)
  BY <1>4 DEF Named, Names
<1>a. \A m \in M : N(m[1], m[2])
  BY DEF WorkFrame, Named
<1> HIDE DEF N
<1>6. Worked'
  <2>1. queue' \in Seq(Letters) /\ \A i \in DOMAIN queue' : N(queue'[i][1], queue'[i][2])
    <3>1. queue \in Seq(Letters) /\ \A i \in DOMAIN queue : N(queue[i][1], queue[i][2])
      BY <1>5 DEF Typed, Worked
    <3>2. ASSUME NEW m \in M, queue' = Append(queue, m)
          PROVE  queue' \in Seq(Letters) /\ \A i \in DOMAIN queue' : N(queue'[i][1], queue'[i][2])
      <4>1. m \in Letters /\ N(m[1], m[2])
        BY <1>a DEF WorkFrame
      <4> QED BY <3>1, <3>2, <4>1
    <3>3. ASSUME queue # <<>>, queue' = Tail(queue)
          PROVE  queue' \in Seq(Letters) /\ \A i \in DOMAIN queue' : N(queue'[i][1], queue'[i][2])
      BY <3>1, <3>3
    <3> QED BY <3>1, <3>2, <3>3 DEF WorkFrame
  <2>2. stale' \subseteq Letters /\ dead' \subseteq Letters /\ \A m \in stale' \cup dead' : N(m[1], m[2])
    BY <1>5, <1>a DEF WorkFrame, Typed, Worked
  <2>3. ASSUME NEW q \in Callers PROVE N(task'[q].kind, task'[q].id) /\ (task'[q].kind = "none" => task'[q].id = 0)
    <3>1. CASE q = p
      BY <3>1 DEF WorkFrame, Named, N
    <3>2. CASE q # p
      BY <3>2, <1>5 DEF WorkFrame, Typed, Worked
    <3> QED BY <3>1, <3>2
  <2> QED BY <2>1, <2>2, <2>3 DEF Worked, WorkFrame, Named, N
<1>7. Controlled'
  <2>1. \A q \in Callers \ {p} : pc'[q] = pc[q] /\ task'[q] = task[q]
    BY <1>1 DEF Moves, WorkFrame
  <2>2. ASSUME NEW w \in Workers PROVE WorkerControl(w)'
    BY <2>1 DEF ControlFrame, WorkerControl, Typed, Controlled, Callers
  <2>3. ASSUME NEW q \in Requests PROVE RequestControl(q)'
    BY <1>4, <2>1 DEF ControlFrame, RequestControl, Typed, Controlled, Callers
  <2> QED BY <2>2, <2>3 DEF Controlled
<1>8. Others(p)
  BY <1>1 DEF Moves, WorkFrame, Others
<1> QED BY <1>3, <1>6, <1>7, <1>8 DEF Typed

\* A step on the runtime is such a step.
LEMMA RuntimeTyped ==
    ASSUME Typed, NEW p \in Callers, RuntimeSteps(p)
    PROVE  Typed' /\ Others(p)
<1>1. /\ RuntimeMoves(p) /\ RuntimeKeeps /\ disk' \in {disk, 0}
      /\ UNCHANGED <<exs, queue, stale, task, blind, dead>>
  BY RuntimeStep
<1>2. Stored' /\ CallFrame(p)
  BY <1>1 DEF RuntimeKeeps, Stored, Typed, RuntimeMoves, CallFrame
<1>3. WorkFrame(p, {})
  BY <1>1 DEF RuntimeKeeps, WorkFrame, Typed, Worked, Stored, Kept, Named, Names
<1>4. ControlFrame(p)
  BY <1>1, CallerFact DEF RuntimeMoves, Moves, ControlFrame, WorkerControl, RequestControl, Typed, Controlled,
     LifeAts, StartAts, ExecAts, SnapAts, EndAts, PlainAts, SubmitAts, SaveAts, CancelAts
<1> QED BY <1>2, <1>3, <1>4, FrameRule

------------------------------------------------------------------------------
(* The steps of submit, cancel, save and the files *)

\* A step that leaves the executions, the messages and the tasks alone.
LEMMA SameWork ==
    ASSUME Typed, NEW p \in Callers, UNCHANGED <<exs, queue, stale, dead, task>>, revs' \in Seq(Revisions), Len(revs) <= Len(revs')
    PROVE  WorkFrame(p, {})
<1>1. DOMAIN revs \subseteq DOMAIN revs'
  BY DEF Typed, Stored, Kept
<1> QED BY <1>1 DEF WorkFrame, Typed, Worked, Named, Names

\* A step of p that leaves the store alone and keeps to the steps of p.
LEMMA SameStore ==
    ASSUME Typed, UNCHANGED <<ws, rt, box, made, revs>>, ops' \in Nat, faults' \in Nat, disk' \in Nat, blind' \in Nat
    PROVE  Stored' /\ revs' \in Seq(Revisions) /\ Len(revs) <= Len(revs')
BY DEF Typed, Stored, Kept

LEMMA MovesFrame ==
    ASSUME Typed, NEW p \in Callers, NEW step \in Steps, NEW r \in Runtimes, Moves(p, step, r), r.ref <= made, made' = made
    PROVE  CallFrame(p)
BY DEF CallFrame, Typed, Stored, Kept

\* A request that begins.
LEMMA BeginTyped ==
    ASSUME Typed, NEW p, NEW op \in Operations, NEW arg \in Values, NEW step \in PlainAts \cup CancelAts,
           Begin(p, op, arg, step), UNCHANGED workVars, step \in CancelAts => arg \in DOMAIN exs
    PROVE  Typed' /\ Others(p)
<1>1. step \in Steps
  BY DEF Steps
<1>2. /\ p \in Requests /\ p \in Callers /\ Moves(p, step, NoRuntime) /\ pc'[p].arg = arg
      /\ UNCHANGED <<ws, rt, box, made, volume, revs, faults>> /\ pc[p].at = "idle" /\ ops' = ops + 1
  BY <1>1, BeginFact DEF Typed
<1>3. Stored' /\ revs' \in Seq(Revisions) /\ Len(revs) <= Len(revs')
  BY <1>2, SameStore DEF workVars, Typed, Stored, Kept
<1>4. WorkFrame(p, {})
  BY <1>2, <1>3, SameWork DEF workVars
<1>5. CallFrame(p)
  BY <1>1, <1>2, IdleFact, MovesFrame DEF Typed, Stored, Kept
<1>6. ControlFrame(p)
  BY <1>2, CallerFact DEF ControlFrame, RequestControl, Moves, workVars, PlainAts, LifeAts, StartAts, SubmitAts,
     SaveAts, CancelAts
<1> QED BY <1>2, <1>3, <1>4, <1>5, <1>6, FrameRule

LEMMA RequestEndpoints ==
    ASSUME Typed, NEW p,
           \/ \E key \in Keys : SubmitEndpoint(p, key)
           \/ \E e \in DOMAIN exs : CancelEndpoint(p, e)
           \/ SaveEnvironmentEndpoint(p) \/ WriteFileEndpoint(p) \/ DeleteFileEndpoint(p)
    PROVE  Typed' /\ Others(p)
<1>1. /\ {"submit", "cancel", "save", "write", "remove"} \subseteq Operations
      /\ {"x_read", "e_read", "f_check", "f_delete"} \subseteq PlainAts \ CancelAts /\ "c_read" \in CancelAts
      /\ Keys \subseteq Values /\ 0 \in Values /\ DOMAIN exs \subseteq Values
  BY DEF Operations, PlainAts, CancelAts, Values, LifeAts, StartAts, Typed, Worked
<1>2. ASSUME NEW key \in Keys, SubmitEndpoint(p, key) PROVE Typed' /\ Others(p)
  BY <1>1, <1>2, BeginTyped DEF SubmitEndpoint
<1>3. ASSUME NEW e \in DOMAIN exs, CancelEndpoint(p, e) PROVE Typed' /\ Others(p)
  BY <1>1, <1>3, BeginTyped DEF CancelEndpoint
<1>4. CASE SaveEnvironmentEndpoint(p) \/ WriteFileEndpoint(p) \/ DeleteFileEndpoint(p)
  BY <1>1, <1>4, BeginTyped DEF SaveEnvironmentEndpoint, WriteFileEndpoint, DeleteFileEndpoint
<1> QED BY <1>2, <1>3, <1>4

\* A request that answers.
LEMMA AnswerFact ==
    ASSUME Typed, NEW p \in Requests, Return(p, NoRuntime) \/ RaiseError(p), made' = made
    PROVE  /\ p \in Callers /\ CallFrame(p) /\ ControlFrame(p) /\ Moves(p, "idle", NoRuntime)
<1>1. p \in Callers /\ p \notin Workers
  BY CallerFact DEF Callers
<1>2. Moves(p, "idle", NoRuntime)
  BY <1>1, ReturnFact, RaiseFact, IdleFact DEF Typed
<1>3. "idle" \in Steps
  BY DEF Steps
<1>4. CallFrame(p)
  BY <1>1, <1>2, <1>3, IdleFact, MovesFrame DEF Typed, Stored, Kept
<1>5. ControlFrame(p)
  BY <1>1, <1>2 DEF ControlFrame, RequestControl, Moves, PlainAts, LifeAts, StartAts, SubmitAts, SaveAts, CancelAts
<1> QED BY <1>1, <1>2, <1>4, <1>5

\* A request that goes on.
LEMMA AdvanceFact ==
    ASSUME Typed, NEW p \in Requests, NEW step \in PlainAts \cup SubmitAts \cup SaveAts \cup CancelAts, made' = made,
           \/ Goto(p, step)
           \/ \E w \in Workspaces, r \in Runtimes : GotoWith(p, step, w, r) /\ r.ref <= made,
           step \in SubmitAts => task'[p].kind = "exec", step \in SaveAts => task'[p].kind = "snap",
           step \in CancelAts => pc[p].arg \in DOMAIN exs'
    PROVE  /\ p \in Callers /\ CallFrame(p) /\ ControlFrame(p)
<1>1. p \in Callers /\ p \notin Workers /\ step \in Steps
  BY CallerFact DEF Callers, Steps
<1>2. PICK r \in Runtimes : Moves(p, step, r) /\ r.ref <= made /\ pc'[p].arg = pc[p].arg
  BY <1>1, GotoFact, GotoWithFact, HoldsFact DEF Typed
<1>3. CallFrame(p)
  BY <1>1, <1>2, MovesFrame
<1>4. ControlFrame(p)
  BY <1>1, <1>2 DEF ControlFrame, RequestControl, Moves
<1> QED BY <1>1, <1>3, <1>4

\* What a request knows of itself.
LEMMA RequestFact ==
    ASSUME Typed, NEW p \in Requests
    PROVE  /\ p \in Callers /\ task[p] \in Tasks /\ RequestControl(p) /\ Named(task[p].kind, task[p].id)
           /\ exs \in Seq(Rows) /\ revs \in Seq(Revisions)
           /\ ops \in Nat /\ faults \in Nat /\ disk \in Nat /\ blind \in Nat
BY DEF Typed, Stored, Kept, Worked, Controlled, Callers

\* update_execution keeps the rows well formed.
LEMMA SaveExecutionFact ==
    ASSUME Typed, NEW e \in DOMAIN exs, NEW state \in Active \cup Terminal, SaveExecution(e, state)
    PROVE  exs' \in Seq(Rows) /\ Len(exs') = Len(exs) /\ DOMAIN exs' = DOMAIN exs
<1> DEFINE row == [exs[e] EXCEPT !.st = state]
<1>1. exs \in Seq(Rows) /\ exs[e] \in Rows
  BY DEF Typed, Worked
<1>2. row \in Rows
  BY <1>1 DEF Rows
<1>3. exs' = exs \/ exs' = [exs EXCEPT ![e] = row]
  BY DEF SaveExecution
<1> HIDE DEF row
<1> QED BY <1>1, <1>2, <1>3

\* So does update_revision.
LEMMA SaveRevisionFact ==
    ASSUME Typed, NEW v \in DOMAIN revs, NEW state \in RevisionStates, SaveRevision(v, state)
    PROVE  revs' \in Seq(Revisions) /\ Len(revs') = Len(revs) /\ DOMAIN revs' = DOMAIN revs
<1> DEFINE row == [revs[v] EXCEPT !.st = state]
<1>1. revs \in Seq(Revisions) /\ revs[v] \in Revisions
  BY DEF Typed, Stored, Kept
<1>2. row \in Revisions
  BY <1>1 DEF Revisions
<1>3. revs' = revs \/ revs' = [revs EXCEPT ![v] = row]
  BY DEF SaveRevision
<1> HIDE DEF row
<1> QED BY <1>1, <1>2, <1>3

\* Steps that only move the request.
LEMMA RequestReads ==
    ASSUME Typed, NEW p \in Requests,
           SubmitRead(p) \/ SubmitInvalid(p) \/ SubmitCheck(p) \/ CancelRead(p) \/ SaveEnvironmentRead(p)
    PROVE  Typed' /\ Others(p)
<1>a. UNCHANGED <<ws, rt, box, made, volume, revs, ops, faults, exs, queue, stale, dead, task, disk, blind>>
  BY DEF SubmitRead, SubmitInvalid, SubmitCheck, CancelRead, SaveEnvironmentRead, Store, workVars
<1>b. p \in Callers /\ Stored' /\ WorkFrame(p, {})
  BY <1>a, RequestFact, SameStore, SameWork
<1>c. {"x_check", "x_insert", "e_create"} \subseteq PlainAts /\ {"x_check", "x_insert", "e_create"} \cap (SubmitAts \cup SaveAts \cup CancelAts) = {}
      /\ "c_save" \in CancelAts /\ "c_save" \notin SubmitAts \cup SaveAts
  BY DEF PlainAts, SubmitAts, SaveAts, CancelAts
<1>d. ws \in Workspaces /\ NoRuntime \in Runtimes /\ NoRuntime.ref <= made
  BY <1>b, HoldsFact
<1>1. CASE Return(p, NoRuntime) \/ RaiseError(p)
  BY <1>1, <1>a, <1>b, AnswerFact, FrameRule
<1>2. ASSUME NEW step \in {"x_check", "x_insert", "e_create"}, Goto(p, step) \/ GotoWith(p, step, ws, NoRuntime)
      PROVE  Typed' /\ Others(p)
  <2>1. CallFrame(p) /\ ControlFrame(p)
    BY <1>2, <1>a, <1>c, <1>d, AdvanceFact
  <2> QED BY <2>1, <1>b, FrameRule
<1>3. CASE pc[p].at = "c_read" /\ Goto(p, "c_save")
  <2>1. pc[p].arg \in DOMAIN exs'
    BY <1>3, <1>a, RequestFact DEF RequestControl, CancelAts
  <2>2. CallFrame(p) /\ ControlFrame(p)
    BY <1>3, <1>a, <1>c, <2>1, AdvanceFact
  <2> QED BY <2>2, <1>b, FrameRule
<1>4. CASE SubmitRead(p)
  BY <1>4, <1>1, <1>2 DEF SubmitRead
<1>5. CASE SubmitInvalid(p)
  BY <1>5, <1>1 DEF SubmitInvalid
<1>6. CASE SubmitCheck(p)
  BY <1>6, <1>1, <1>2 DEF SubmitCheck
<1>7. CASE CancelRead(p)
  BY <1>7, <1>1, <1>3 DEF CancelRead
<1>8. CASE SaveEnvironmentRead(p)
  BY <1>8, <1>1, <1>2 DEF SaveEnvironmentRead
<1> QED BY <1>4, <1>5, <1>6, <1>7, <1>8

LEMMA SubmitInsertTyped ==
    ASSUME Typed, NEW p \in Requests, SubmitInsert(p)
    PROVE  Typed' /\ Others(p)
<1>a. UNCHANGED <<ws, rt, box, made, volume, revs, ops, faults, queue, stale, dead, disk, blind>>
  BY DEF SubmitInsert, Store
<1>b. p \in Callers /\ Stored'
  BY <1>a, RequestFact, SameStore
<1>1. CASE RaiseError(p) /\ UNCHANGED <<exs, task>>
  BY <1>1, <1>a, <1>b, AnswerFact, FrameRule, SameWork, RequestFact
<1>2. CASE /\ InsertExecution(pc[p].arg)
           /\ task' = [task EXCEPT ![p] = [kind |-> "exec", id |-> Len(exs) + 1, st |-> "QUEUED"]]
           /\ Goto(p, "x_touch")
  <2>1. [st |-> "QUEUED", key |-> pc[p].arg, ran |-> 0] \in Rows
    BY <1>b, HoldsFact DEF Rows, Active
  <2>2. exs' \in Seq(Rows) /\ Len(exs') = Len(exs) + 1 /\ Len(exs) \in Nat
    BY <1>2, <2>1, RequestFact DEF InsertExecution
  <2>3. [kind |-> "exec", id |-> Len(exs) + 1, st |-> "QUEUED"] \in Tasks
    BY <2>2 DEF Tasks, Active
  <2>4. /\ task' \in [Callers -> Tasks] /\ \A q \in Callers \ {p} : task'[q] = task[q]
        /\ task'[p].kind = "exec" /\ task'[p].id = Len(exs) + 1
    BY <1>2, <1>b, <2>3 DEF Typed, Worked
  <2>5. WorkFrame(p, {})
    BY <1>a, <2>2, <2>4, RequestFact DEF WorkFrame, Named, Names
  <2>6. "x_touch" \in SubmitAts /\ "x_touch" \notin SaveAts \cup CancelAts
    BY DEF SubmitAts, SaveAts, CancelAts
  <2>7. CallFrame(p) /\ ControlFrame(p)
    BY <1>2, <1>a, <2>4, <2>6, AdvanceFact
  <2> QED BY <1>b, <2>5, <2>7, FrameRule
<1> QED BY <1>1, <1>2 DEF SubmitInsert

LEMMA SubmitTouchTyped ==
    ASSUME Typed, NEW p \in Requests, SubmitTouch(p)
    PROVE  Typed' /\ Others(p)
<1>1. /\ UNCHANGED <<rt, box, made, revs, ops, faults, exs, queue, stale, dead, task, disk, blind>>
      /\ SaveWorkspace(pc[p].w) /\ Goto(p, "x_publish") /\ pc[p].at = "x_touch"
  BY DEF SubmitTouch, workVars
<1>2. p \in Callers /\ ws' \in Workspaces
  BY <1>1, RequestFact, HoldsFact DEF SaveWorkspace
<1>3. Stored' /\ WorkFrame(p, {})
  BY <1>1, <1>2, RequestFact, SameWork DEF Typed, Stored, Kept
<1>4. "x_publish" \in SubmitAts /\ "x_publish" \notin SaveAts \cup CancelAts /\ task'[p].kind = "exec"
  BY <1>1, RequestFact DEF SubmitAts, SaveAts, CancelAts, RequestControl
<1> QED BY <1>1, <1>2, <1>3, <1>4, AdvanceFact, FrameRule

\* The message of a request that publishes.
LEMMA MessageFact ==
    ASSUME Typed, NEW p \in Callers, task[p].kind # "none"
    PROVE  Message(p) \in Letters /\ Message(p)[1] = task[p].kind /\ Message(p)[2] = task[p].id /\ Named(Message(p)[1], Message(p)[2])
BY DEF Typed, Worked, Message, Letters, Tasks

LEMMA PublishTyped ==
    ASSUME Typed, NEW p \in Requests, SubmitPublish(p) \/ SaveEnvironmentPublish(p)
    PROVE  Typed' /\ Others(p)
<1>1. /\ UNCHANGED <<ws, rt, box, made, volume, revs, ops, exs, stale, dead, task, disk, blind>>
      /\ faults' \in Nat /\ p \in Callers
  BY RequestFact DEF SubmitPublish, SaveEnvironmentPublish, Store, Fault, NoFault
<1>2. Stored' /\ revs' \in Seq(Revisions) /\ Len(revs) <= Len(revs')
  BY <1>1, SameStore, RequestFact
<1>3. task[p].kind # "none"
  BY RequestFact DEF SubmitPublish, SaveEnvironmentPublish, RequestControl, SubmitAts, SaveAts
<1>4. ASSUME Publish(Message(p)), Return(p, NoRuntime) PROVE Typed' /\ Others(p)
  <2>1. WorkFrame(p, {Message(p)})
    BY <1>1, <1>2, <1>3, <1>4, MessageFact, RequestFact DEF WorkFrame, Publish, Typed, Worked, Named
  <2> QED BY <1>1, <1>2, <1>4, <2>1, AnswerFact, FrameRule
<1>5. ASSUME UNCHANGED queue, NEW step \in {"x_fail", "e_fail"}, Goto(p, step),
             step = "x_fail" => task[p].kind = "exec", step = "e_fail" => task[p].kind = "snap"
      PROVE  Typed' /\ Others(p)
  <2>1. WorkFrame(p, {})
    BY <1>1, <1>2, <1>5, SameWork
  <2>2. CallFrame(p) /\ ControlFrame(p)
    BY <1>1, <1>5, AdvanceFact DEF SubmitAts, SaveAts, CancelAts
  <2> QED BY <1>1, <1>2, <2>1, <2>2, FrameRule
<1>6. CASE SubmitPublish(p)
  <2>1. task[p].kind = "exec"
    BY <1>6, RequestFact DEF SubmitPublish, RequestControl, SubmitAts
  <2> QED BY <1>4, <1>5, <1>6, <2>1 DEF SubmitPublish
<1>7. CASE SaveEnvironmentPublish(p)
  <2>1. task[p].kind = "snap"
    BY <1>7, RequestFact DEF SaveEnvironmentPublish, RequestControl, SaveAts
  <2> QED BY <1>4, <1>5, <1>7, <2>1 DEF SaveEnvironmentPublish
<1> QED BY <1>6, <1>7

LEMMA SaveRowTyped ==
    ASSUME Typed, NEW p \in Requests, SubmitFail(p) \/ CancelSave(p)
    PROVE  Typed' /\ Others(p)
<1>1. /\ UNCHANGED <<ws, rt, box, made, volume, revs, ops, faults, queue, stale, dead, task, disk, blind>>
      /\ p \in Callers /\ (Return(p, NoRuntime) \/ RaiseError(p))
  BY RequestFact DEF SubmitFail, CancelSave, Store
<1>2. Stored' /\ revs' \in Seq(Revisions) /\ Len(revs) <= Len(revs')
  BY <1>1, SameStore, RequestFact
<1>3. \E e \in DOMAIN exs, state \in Active \cup Terminal : SaveExecution(e, state)
  <2>1. CASE SubmitFail(p)
    <3>1. task[p].id \in DOMAIN exs
      BY <2>1, RequestFact DEF SubmitFail, RequestControl, SubmitAts, Named, Names
    <3> QED BY <2>1, <3>1 DEF SubmitFail, Terminal
  <2>2. CASE CancelSave(p)
    <3>1. pc[p].arg \in DOMAIN exs
      BY <2>2, RequestFact DEF CancelSave, RequestControl, CancelAts
    <3> QED BY <2>2, <3>1 DEF CancelSave, Terminal
  <2> QED BY <2>1, <2>2
<1>4. exs' \in Seq(Rows) /\ Len(exs') = Len(exs) /\ DOMAIN exs' = DOMAIN exs
  BY <1>3, SaveExecutionFact
<1>5. WorkFrame(p, {})
  BY <1>1, <1>2, <1>4, RequestFact DEF WorkFrame, Typed, Worked, Named, Names
<1> QED BY <1>1, <1>2, <1>5, AnswerFact, FrameRule

LEMMA SaveEnvironmentTyped ==
    ASSUME Typed, NEW p \in Requests, SaveEnvironmentCreate(p) \/ SaveEnvironmentFail(p)
    PROVE  Typed' /\ Others(p)
<1>1. CASE SaveEnvironmentFail(p)
  <2>1. /\ UNCHANGED <<ws, rt, box, made, volume, ops, faults, exs, queue, stale, dead, task, disk, blind>>
        /\ p \in Callers /\ RaiseError(p) /\ SaveRevision(task[p].id, "FAILED") /\ pc[p].at = "e_fail"
    BY <1>1, RequestFact DEF SaveEnvironmentFail, workVars
  <2>2. task[p].id \in DOMAIN revs
    BY <2>1, RequestFact DEF RequestControl, SaveAts, Named, Names
  <2>3. revs' \in Seq(Revisions) /\ Len(revs') = Len(revs)
    BY <2>1, <2>2, SaveRevisionFact DEF RevisionStates
  <2>4. Stored'
    BY <2>1, <2>3 DEF Typed, Stored, Kept
  <2>5. WorkFrame(p, {})
    BY <2>1, <2>3, SameWork, RequestFact
  <2> QED BY <2>1, <2>4, <2>5, AnswerFact, FrameRule
<1>2. CASE SaveEnvironmentCreate(p)
  <2>a. UNCHANGED <<ws, rt, box, made, volume, ops, faults, exs, queue, stale, dead, disk, blind>> /\ p \in Callers
    BY <1>2, RequestFact DEF SaveEnvironmentCreate
  <2>1. CASE RaiseError(p) /\ UNCHANGED <<revs, task>>
    <3>1. Stored' /\ WorkFrame(p, {})
      BY <2>1, <2>a, SameStore, SameWork, RequestFact
    <3> QED BY <2>1, <2>a, <3>1, AnswerFact, FrameRule
  <2>2. CASE /\ InsertRevision(pc[p].w.cfg)
             /\ task' = [task EXCEPT ![p] = [kind |-> "snap", id |-> Len(revs) + 1, st |-> "PENDING"]]
             /\ Goto(p, "e_publish")
    <3>1. [st |-> "PENDING", cfg |-> pc[p].w.cfg, img |-> NoConfig] \in Revisions
      BY <2>a, HoldsFact DEF Revisions, RevisionStates, Values
    <3>2. revs' \in Seq(Revisions) /\ Len(revs') = Len(revs) + 1 /\ Len(revs) \in Nat
      BY <2>2, <3>1, RequestFact DEF InsertRevision
    <3>3. Stored'
      <4>1. box \in Boxes /\ box.rev <= Len(revs)
        BY DEF Typed, Stored, Kept
      <4>2. box.rev <= Len(revs')
        BY <4>1, <3>2 DEF Boxes
      <4> QED BY <2>a, <3>2, <4>2 DEF Typed, Stored, Kept
    <3>4. [kind |-> "snap", id |-> Len(revs) + 1, st |-> "PENDING"] \in Tasks
      BY <3>2 DEF Tasks
    <3>5. /\ task' \in [Callers -> Tasks] /\ \A q \in Callers \ {p} : task'[q] = task[q]
          /\ task'[p].kind = "snap" /\ task'[p].id = Len(revs) + 1
      BY <2>2, <2>a, <3>4 DEF Typed, Worked
    <3>6. WorkFrame(p, {})
      BY <2>a, <3>2, <3>5, RequestFact DEF WorkFrame, Named, Names
    <3>7. "e_publish" \in SaveAts /\ "e_publish" \notin SubmitAts \cup CancelAts
      BY DEF SubmitAts, SaveAts, CancelAts
    <3>8. CallFrame(p) /\ ControlFrame(p)
      BY <2>2, <2>a, <3>5, <3>7, AdvanceFact
    <3> QED BY <2>a, <3>3, <3>6, <3>8, FrameRule
  <2> QED BY <1>2, <2>1, <2>2 DEF SaveEnvironmentCreate
<1> QED BY <1>1, <1>2

LEMMA FilesTyped ==
    ASSUME Typed, NEW p \in Requests, WriteFileCheck(p) \/ WriteFile(p) \/ DeleteFile(p)
    PROVE  Typed' /\ Others(p)
<1>1. /\ UNCHANGED <<ws, rt, box, made, volume, revs, ops, faults, exs, queue, stale, dead, task>> /\ p \in Callers
      /\ disk' \in Nat /\ blind' \in Nat
  BY RequestFact DEF WriteFileCheck, WriteFile, DeleteFile, PutFile, RemoveFile, Store
<1>2. Stored' /\ WorkFrame(p, {})
  BY <1>1, RequestFact, SameStore, SameWork
<1>3. CASE Return(p, NoRuntime) \/ RaiseError(p)
  BY <1>1, <1>2, <1>3, AnswerFact, FrameRule
<1>4. CASE GotoWith(p, "f_write", ws, rt)
  <2>1. ws \in Workspaces /\ rt \in Runtimes /\ rt.ref <= made
    BY <1>1, HoldsFact
  <2>2. "f_write" \in PlainAts /\ "f_write" \notin SubmitAts \cup SaveAts \cup CancelAts
    BY DEF PlainAts, SubmitAts, SaveAts, CancelAts
  <2>3. CallFrame(p) /\ ControlFrame(p)
    BY <1>1, <1>4, <2>1, <2>2, AdvanceFact
  <2> QED BY <1>1, <1>2, <2>3, FrameRule
<1> QED BY <1>3, <1>4 DEF WriteFileCheck, WriteFile, DeleteFile

\* Every step of a request keeps the types.
LEMMA RequestTyped ==
    ASSUME Typed, NEW p \in Requests, RequestSteps(p)
    PROVE  Typed' /\ Others(p)
BY RequestEndpoints, RequestReads, SubmitInsertTyped, SubmitTouchTyped, PublishTyped, SaveRowTyped,
   SaveEnvironmentTyped, FilesTyped DEF RequestSteps

------------------------------------------------------------------------------
(* The steps of a worker *)

\* What a worker knows of itself.
LEMMA WorkerFact ==
    ASSUME Typed, NEW w \in Workers
    PROVE  /\ w \in Callers /\ w \notin Requests /\ task[w] \in Tasks /\ task \in [Callers -> Tasks] /\ WorkerControl(w)
           /\ Named(task[w].kind, task[w].id)
           /\ exs \in Seq(Rows) /\ revs \in Seq(Revisions)
           /\ ops \in Nat /\ faults \in Nat /\ disk \in Nat /\ blind \in Nat
           /\ pc[w].at \in ExecAts => task[w].id \in DOMAIN exs
           /\ pc[w].at \in SnapAts => task[w].id \in DOMAIN revs
<1>1. w \in Callers /\ w \notin Requests
  BY CallerFact DEF Callers
<1>2. WorkerControl(w) /\ Named(task[w].kind, task[w].id)
  BY <1>1 DEF Typed, Controlled, Worked
<1> QED BY <1>1, <1>2 DEF Typed, Stored, Kept, Worked, WorkerControl, Named, Names

\* The steps of a worker are apart.
LEMMA ApartFact ==
    /\ {"h_check", "h_save"} \subseteq ExecAts
    /\ ExecAts \cap SnapAts = {} /\ ExecAts \cap EndAts = {} /\ SnapAts \cap EndAts = {}
    /\ "idle" \notin ExecAts \cup SnapAts \cup EndAts
    /\ {"idle"} \cup ExecAts \cup SnapAts \cup EndAts \subseteq Steps
BY DEF ExecAts, SnapAts, EndAts, StartAts, Steps

\* A worker goes on with its unit of work.
LEMMA HandFact ==
    ASSUME Typed, NEW w \in Workers, NEW step \in ExecAts \cup SnapAts \cup EndAts, made' = made,
           \/ Goto(w, step)
           \/ \E v \in Workspaces, r \in Runtimes : GotoWith(w, step, v, r) /\ r.ref <= made,
           pc[w].at # "idle",
           task'[w].kind = task[w].kind, step \in {"h_check", "h_save"} => task'[w].st \in Terminal,
           (pc[w].at \in ExecAts /\ step \notin SnapAts) \/ (pc[w].at \in SnapAts /\ step \notin ExecAts)
    PROVE  CallFrame(w) /\ ControlFrame(w) /\ pc'[w].at = step
<1>1. w \in Callers /\ w \notin Requests /\ step \in Steps /\ WorkerControl(w)
  BY WorkerFact, ApartFact
<1>2. PICK r \in Runtimes : Moves(w, step, r) /\ r.ref <= made
  BY <1>1, GotoFact, GotoWithFact, HoldsFact DEF Typed
<1>3. CallFrame(w)
  BY <1>1, <1>2, MovesFrame
<1>4. ControlFrame(w)
  BY <1>1, <1>2, ApartFact DEF ControlFrame, WorkerControl, Moves
<1> QED BY <1>2, <1>3, <1>4 DEF Moves

\* A worker becomes idle.
LEMMA RestFact ==
    ASSUME Typed, NEW w \in Workers, made' = made, pc' = [pc EXCEPT ![w] = Idle]
    PROVE  CallFrame(w) /\ ControlFrame(w) /\ Moves(w, "idle", NoRuntime)
<1>1. w \in Callers /\ w \notin Requests /\ "idle" \in Steps
  BY WorkerFact, ApartFact
<1>2. Moves(w, "idle", NoRuntime)
  BY <1>1, IdleFact DEF Moves, Typed, Called
<1>3. NoRuntime \in Runtimes /\ NoRuntime.ref <= made
  BY <1>1, HoldsFact
<1> QED BY <1>1, <1>2, <1>3, MovesFrame, ApartFact DEF ControlFrame, WorkerControl, Moves

\* The status a worker keeps in its task.
LEMMA WorkGotoFact ==
    ASSUME Typed, NEW w \in Workers, NEW step, NEW state \in Active \cup Terminal \cup {"none", "PENDING", "DELETED"},
           WorkGoto(w, step, state)
    PROVE  /\ Goto(w, step) /\ task' \in [Callers -> Tasks] /\ \A q \in Callers \ {w} : task'[q] = task[q]
           /\ task'[w].kind = task[w].kind /\ task'[w].id = task[w].id /\ task'[w].st = state
BY WorkerFact DEF WorkGoto, Tasks

LEMMA FetchTyped ==
    ASSUME Typed, NEW w \in Workers, Fetch(w)
    PROVE  Typed' /\ Others(w)
<1> DEFINE m == Head(queue)
           t == [kind |-> m[1], id |-> m[2], st |-> "none"]
           c == [Idle EXCEPT !.at = IF m[1] = "exec" THEN "h_read" ELSE "v_read"]
<1>1. /\ UNCHANGED <<ws, rt, box, made, volume, revs, ops, faults, exs, stale, disk, blind, dead>>
      /\ queue # <<>> /\ queue' = Tail(queue)
      /\ task' = [task EXCEPT ![w] = t] /\ pc' = [pc EXCEPT ![w] = c]
  BY DEF Fetch, Store
<1>2. m \in Letters /\ Named(m[1], m[2])
  <2>1. queue \in Seq(Letters) /\ 1 \in DOMAIN queue /\ Head(queue) = queue[1]
    BY <1>1 DEF Typed, Worked
  <2> QED BY <2>1 DEF Typed, Worked
<1>3. m[1] \in {"exec", "snap"} /\ m[2] \in Nat
  BY <1>2 DEF Letters
<1> HIDE DEF m
<1>4. t \in Tasks /\ t.kind = m[1] /\ t.id = m[2]
  BY <1>3 DEF Tasks
<1>5. c \in Calls /\ c.at \in {"h_read", "v_read"} /\ (c.at = "h_read" <=> m[1] = "exec") /\ c.r = NoRuntime
  <2>1. {"h_read", "v_read"} \subseteq Steps
    BY DEF Steps, ExecAts, SnapAts
  <2> QED BY <2>1, IdleFact DEF Calls
<1> HIDE DEF t, c
<1>6. w \in Callers /\ w \notin Requests
  BY WorkerFact
<1>7. Moves(w, c.at, NoRuntime) /\ task'[w] = t
  BY <1>1, <1>5, <1>6, WorkerFact DEF Moves, Typed, Called
<1>8. Stored'
  BY <1>1, SameStore, WorkerFact
<1>9. CallFrame(w)
  <2>1. c.at \in Steps /\ NoRuntime \in Runtimes /\ NoRuntime.ref <= made
    BY <1>5, <1>6, HoldsFact DEF Steps, ExecAts, SnapAts
  <2> QED BY <1>1, <1>6, <1>7, <2>1, MovesFrame
<1>10. WorkFrame(w, {})
  <2>1. task' \in [Callers -> Tasks] /\ \A q \in Callers \ {w} : task'[q] = task[q]
    BY <1>1, <1>4, <1>6, WorkerFact
  <2> QED BY <1>1, <1>2, <1>3, <1>4, <1>7, <2>1, WorkerFact DEF WorkFrame, Named, Names
<1>11. ControlFrame(w)
  BY <1>3, <1>4, <1>5, <1>6, <1>7 DEF ControlFrame, WorkerControl, Moves, ExecAts, SnapAts, StartAts, EndAts
<1> QED BY <1>6, <1>8, <1>9, <1>10, <1>11, FrameRule

\* A worker lays its message down: acknowledged, dead-lettered or left behind.
LEMMA LayDownTyped ==
    ASSUME Typed, NEW w \in Workers, Acknowledge(w) \/ HandlerRaised(w) \/ WorkerCrash(w)
    PROVE  Typed' /\ Others(w)
<1>1. /\ UNCHANGED <<ws, rt, box, made, volume, revs, ops, exs, queue, disk, blind>>
      /\ faults' \in Nat /\ pc[w].at # "idle"
      /\ pc' = [pc EXCEPT ![w] = Idle] /\ task' = [task EXCEPT ![w] = NoTask]
      /\ stale' \subseteq stale \cup {Message(w)} /\ dead' \subseteq dead \cup {Message(w)}
  BY WorkerFact DEF Acknowledge, HandlerRaised, WorkerCrash, Store, Fault, NoFault
<1>2. w \in Callers /\ task[w].kind # "none"
  BY <1>1, WorkerFact DEF WorkerControl
<1>3. Stored'
  BY <1>1, SameStore, WorkerFact
<1>4. NoTask \in Tasks /\ NoTask.kind = "none" /\ NoTask.id = 0
  BY DEF NoTask, Tasks
<1>5. WorkFrame(w, {Message(w)})
  BY <1>1, <1>2, <1>4, MessageFact, WorkerFact DEF WorkFrame, Named, Names
<1> QED BY <1>1, <1>2, <1>3, <1>5, RestFact, FrameRule

\* A message is queued again.
LEMMA RequeueTyped ==
    ASSUME Typed, NEW w \in Workers, Sweep(w) \/ Overrun(w)
    PROVE  Typed' /\ Others(w)
<1>1. /\ UNCHANGED <<ws, rt, box, made, volume, revs, ops, exs, disk, blind, pc, task, dead>>
      /\ faults' \in Nat /\ stale' \subseteq stale
  BY WorkerFact DEF Sweep, Overrun, Store, Fault, NoFault
<1>2. w \in Callers
  BY WorkerFact
<1>3. \E m \in Letters : Named(m[1], m[2]) /\ queue' = Append(queue, m)
  <2>1. CASE Sweep(w)
    BY <2>1 DEF Sweep, Publish, Typed, Worked
  <2>2. CASE Overrun(w)
    <3>1. task[w].kind # "none"
      BY <2>2, WorkerFact DEF Overrun, WorkerControl
    <3> QED BY <1>2, <2>2, <3>1, MessageFact DEF Overrun, Publish
  <2> QED BY <2>1, <2>2
<1>4. PICK m \in Letters : Named(m[1], m[2]) /\ queue' = Append(queue, m)
  BY <1>3
<1>5. Stored'
  BY <1>1, SameStore, WorkerFact
<1>6. WorkFrame(w, {m})
  BY <1>1, <1>2, <1>4, WorkerFact DEF WorkFrame, Typed, Worked, Named
<1>7. CallFrame(w)
  <2>1. Moves(w, pc[w].at, pc[w].r) /\ pc[w].at \in Steps
    BY <1>1, <1>2, HoldsFact DEF Moves, Called, Calls
  <2> QED BY <1>1, <1>2, <2>1, HoldsFact, MovesFrame
<1>8. ControlFrame(w)
  BY <1>1, WorkerFact DEF ControlFrame, WorkerControl
<1> QED BY <1>2, <1>5, <1>6, <1>7, <1>8, FrameRule

\* A worker goes on, and at most the rows of executions, the status in its
\* task, the disk and the count of faults change.
LEMMA WorkOn ==
    ASSUME Typed, NEW w \in Workers, NEW step \in ExecAts \cup EndAts, pc[w].at \in ExecAts,
           UNCHANGED <<ws, rt, box, made, revs, ops, queue, stale, dead>>,
           Goto(w, step), faults' \in Nat, disk' \in Nat, blind' \in Nat,
           exs' \in Seq(Rows), Len(exs') = Len(exs),
           task' \in [Callers -> Tasks], \A q \in Callers \ {w} : task'[q] = task[q],
           task'[w].kind = task[w].kind, task'[w].id = task[w].id,
           step \in {"h_check", "h_save"} => task'[w].st \in Terminal
    PROVE  Typed' /\ Others(w)
<1>1. w \in Callers /\ ops' \in Nat
  BY WorkerFact
<1>2. Stored' /\ revs' \in Seq(Revisions)
  BY <1>1, SameStore
<1>3. DOMAIN exs' = DOMAIN exs /\ DOMAIN revs' = DOMAIN revs
  BY WorkerFact
<1>4. WorkFrame(w, {})
  BY <1>1, <1>2, <1>3, WorkerFact DEF WorkFrame, Typed, Worked, Named, Names
<1>5. CallFrame(w) /\ ControlFrame(w)
  BY HandFact, ApartFact
<1> QED BY <1>1, <1>2, <1>4, <1>5, FrameRule

\* A row that is changed in one place.
LEMMA RowFact ==
    ASSUME Typed, NEW e \in DOMAIN exs, NEW row \in Rows, exs' = [exs EXCEPT ![e] = row]
    PROVE  exs' \in Seq(Rows) /\ Len(exs') = Len(exs) /\ DOMAIN exs' = DOMAIN exs
BY DEF Typed, Worked

LEMMA RunFact ==
    ASSUME Typed, NEW e \in DOMAIN exs, RunProgram(e)
    PROVE  /\ exs' \in Seq(Rows) /\ Len(exs') = Len(exs) /\ DOMAIN exs' = DOMAIN exs
           /\ exs' = [exs EXCEPT ![e] = [exs[e] EXCEPT !.ran = exs[e].ran + 1]]
<1>1. exs[e] \in Rows
  BY DEF Typed, Worked
<1>2. [exs[e] EXCEPT !.ran = exs[e].ran + 1] \in Rows
  BY <1>1 DEF Rows
<1>3. exs' = [exs EXCEPT ![e] = [exs[e] EXCEPT !.ran = exs[e].ran + 1]]
  BY DEF RunProgram
<1> QED BY <1>2, <1>3, RowFact

LEMMA ClaimFact ==
    ASSUME Typed, NEW e \in DOMAIN exs, exs' = [exs EXCEPT ![e].st = "RUNNING"]
    PROVE  exs' \in Seq(Rows) /\ Len(exs') = Len(exs) /\ DOMAIN exs' = DOMAIN exs
<1>1. exs[e] \in Rows
  BY DEF Typed, Worked
<1>2. [exs[e] EXCEPT !.st = "RUNNING"] \in Rows
  BY <1>1 DEF Rows, Active
<1>3. exs' = [exs EXCEPT ![e] = [exs[e] EXCEPT !.st = "RUNNING"]]
  OBVIOUS
<1> QED BY <1>2, <1>3, RowFact

LEMMA ExecutionTyped ==
    ASSUME Typed, NEW w \in Workers,
           \/ ExecutionRead(w) \/ ExecutionOwner(w) \/ RuntimeStarted(w) \/ ClaimExecution(w) \/ Execute(w)
           \/ ExecuteError(w) \/ ExecutionReread(w) \/ ExecutionWrite(w)
    PROVE  Typed' /\ Others(w)
<1> DEFINE e == task[w].id
<1>a. /\ UNCHANGED <<ws, rt, box, made, revs, ops, queue, stale, dead>>
      /\ pc[w].at \in ExecAts /\ pc[w].at # "idle" /\ e \in DOMAIN exs
      /\ faults' \in Nat /\ disk' \in Nat /\ blind' \in Nat
  <2>1. UNCHANGED <<ws, rt, box, made, revs, ops, queue, stale, dead>>
    BY DEF ExecutionRead, ExecutionOwner, RuntimeStarted, ClaimExecution, Execute, ExecuteError, ExecutionReread, ExecutionWrite, Store, workVars
  <2>2. pc[w].at \in {"h_read", "h_owner", "started", "h_claim", "h_run", "h_check", "h_save"}
    BY DEF ExecutionRead, ExecutionOwner, RuntimeStarted, ClaimExecution, Execute, ExecuteError, ExecutionReread, ExecutionWrite
  <2>3. faults' \in Nat /\ disk' \in Nat /\ blind' \in Nat
    BY WorkerFact DEF ExecutionRead, ExecutionOwner, RuntimeStarted, ClaimExecution, Execute, ExecuteError, ExecutionReread, ExecutionWrite, Fault, workVars
  <2> QED BY <2>1, <2>2, <2>3, WorkerFact DEF ExecAts
<1>b. /\ {"h_owner", "s_read", "h_claim", "h_run", "h_check", "h_save", "ack", "raised"} \subseteq ExecAts \cup EndAts
  BY DEF ExecAts, EndAts, StartAts
<1>c. /\ exs[e].st \in Active \cup Terminal \cup {"DELETED"} /\ task[w].st \in Active \cup Terminal \cup {"none", "PENDING", "DELETED"}
      /\ exs \in Seq(Rows) /\ w \in Callers /\ task \in [Callers -> Tasks] /\ exs[e] \in Rows
  <2>1. exs \in Seq(Rows) /\ w \in Callers /\ task \in [Callers -> Tasks] /\ task[w] \in Tasks
    BY WorkerFact
  <2>2. exs[e] \in Rows
    BY <1>a, <2>1
  <2> QED BY <2>1, <2>2 DEF Rows, Tasks
<1> HIDE DEF e
<1>d. ASSUME NEW step \in ExecAts \cup EndAts, NEW state \in Active \cup Terminal \cup {"none", "PENDING", "DELETED"},
             step \in {"h_check", "h_save"} => state \in Terminal,
             WorkGoto(w, step, state), exs' \in Seq(Rows), Len(exs') = Len(exs)
      PROVE  Typed' /\ Others(w)
  BY <1>a, <1>c, <1>d, WorkGotoFact, WorkOn
<1>1. CASE ExecutionRead(w)
  BY <1>1, <1>b, <1>c, <1>d DEF ExecutionRead, e
<1>0. CASE ExecutionOwner(w)
  BY <1>0, <1>b, <1>c, <1>d DEF ExecutionOwner, Terminal
<1>2. CASE RuntimeStarted(w)
  BY <1>2, <1>b, <1>c, <1>d DEF RuntimeStarted, Terminal
<1>3. CASE ClaimExecution(w)
  <2>1. CASE exs' = [exs EXCEPT ![e].st = "RUNNING"] /\ WorkGoto(w, "h_run", "RUNNING")
    BY <2>1, <1>a, <1>b, <1>d, ClaimFact DEF Active
  <2>2. CASE UNCHANGED exs /\ WorkGoto(w, "ack", task[w].st)
    BY <2>2, <1>b, <1>c, <1>d
  <2> QED BY <1>3, <2>1, <2>2 DEF ClaimExecution, e
<1>4. CASE Execute(w)
  <2>1. ASSUME NEW outcome \in Outcomes, RunProgram(e), WorkGoto(w, "h_check", outcome) PROVE Typed' /\ Others(w)
    BY <2>1, <1>a, <1>b, <1>d, RunFact, ExecutionAssumption DEF ExecutionAssumption, Terminal
  <2>2. CASE UNCHANGED exs /\ WorkGoto(w, "h_save", "FAILED")
    BY <2>2, <1>b, <1>c, <1>d DEF Terminal
  <2> QED BY <1>4, <2>1, <2>2 DEF Execute, e
<1>5. CASE ExecuteError(w)
  <2>1. exs' \in Seq(Rows) /\ Len(exs') = Len(exs)
    BY <1>5, <1>a, <1>c, RunFact DEF ExecuteError, e
  <2> QED BY <1>5, <2>1, <1>b, <1>c, <1>d DEF ExecuteError, Terminal
<1>6. CASE ExecutionReread(w)
  <2>1. (Goto(w, "ack") \/ Goto(w, "h_save")) /\ UNCHANGED <<exs, task>> /\ task[w].st \in Terminal
    BY <1>6, WorkerFact DEF ExecutionReread, workVars, WorkerControl
  <2> QED BY <1>a, <1>b, <1>c, <2>1, WorkOn
<1>7. CASE ExecutionWrite(w)
  <2>1. exs' \in Seq(Rows) /\ Len(exs') = Len(exs)
    <3>1. task[w].st \in Terminal /\ SaveExecution(e, task[w].st)
      BY <1>7, WorkerFact DEF ExecutionWrite, e, WorkerControl
    <3> QED BY <1>a, <3>1, SaveExecutionFact
  <2> QED BY <1>7, <2>1, <1>a, <1>b, <1>c, WorkOn DEF ExecutionWrite
<1> QED BY <1>0, <1>1, <1>2, <1>3, <1>4, <1>5, <1>6, <1>7

\* A worker goes on with a snapshot; at most the snapshots and the count of
\* faults change.
LEMMA SnapOn ==
    ASSUME Typed, NEW w \in Workers, NEW step \in SnapAts \cup EndAts, pc[w].at \in SnapAts,
           UNCHANGED <<ws, rt, box, made, ops, exs, queue, stale, dead, task, disk, blind>>,
           \/ Goto(w, step)
           \/ \E v \in Workspaces, r \in Runtimes : GotoWith(w, step, v, r) /\ r.ref <= made,
           faults' \in Nat, revs' \in Seq(Revisions), Len(revs') = Len(revs)
    PROVE  Typed' /\ Others(w)
<1>1. w \in Callers
  BY WorkerFact
<1>2. Stored'
  BY DEF Typed, Stored, Kept
<1>3. WorkFrame(w, {})
  BY <1>1, WorkerFact, SameWork
<1>4. CallFrame(w) /\ ControlFrame(w)
  BY HandFact, ApartFact
<1> QED BY <1>1, <1>2, <1>3, <1>4, FrameRule

\* The container of the provider is committed.
LEMMA CommitFact ==
    ASSUME Typed, NEW v \in DOMAIN revs, CommitContainer(v)
    PROVE  /\ revs' \in Seq(Revisions) /\ Len(revs') = Len(revs)
           /\ \A u \in DOMAIN revs : revs'[u].st = revs[u].st
<1>1. revs \in Seq(Revisions) /\ revs[v] \in Revisions /\ Len(revs) \in Nat /\ box \in Boxes /\ box.rev <= Len(revs)
  BY DEF Typed, Stored, Kept
<1>2. Environment(box) \in Values
  <2>1. CASE box.rev = 0
    BY <1>1, <2>1 DEF Environment, Boxes
  <2>2. CASE box.rev # 0
    <3>1. box.rev \in 1 .. Len(revs)
      BY <1>1, <2>2 DEF Boxes
    <3>2. revs[box.rev] \in Revisions
      BY <1>1, <3>1
    <3> QED BY <2>2, <3>2 DEF Environment, Revisions
  <2> QED BY <2>1, <2>2
<1> DEFINE row == [revs[v] EXCEPT !.img = Environment(box)]
<1>3. row \in Revisions /\ row.st = revs[v].st
  BY <1>1, <1>2 DEF Revisions
<1>4. revs' = [revs EXCEPT ![v] = row]
  BY DEF CommitContainer
<1> HIDE DEF row
<1> QED BY <1>1, <1>3, <1>4

LEMMA SnapshotTyped ==
    ASSUME Typed, NEW w \in Workers,
           \/ SnapshotRead(w) \/ SnapshotBuilding(w) \/ CreateSnapshot(w) \/ SnapshotReady(w)
           \/ SnapshotFailed(w) \/ PruneRevisions(w)
    PROVE  Typed' /\ Others(w)
<1>a. /\ UNCHANGED <<ws, rt, box, made, ops, exs, queue, stale, dead, task, disk, blind>> /\ faults' \in Nat
  BY WorkerFact DEF SnapshotRead, SnapshotBuilding, CreateSnapshot, SnapshotReady, SnapshotFailed, PruneRevisions,
     Store, workVars, Fault, NoFault
<1>b. pc[w].at \in SnapAts /\ task[w].id \in DOMAIN revs /\ w \in Callers
  <2>1. pc[w].at \in SnapAts
    BY DEF SnapshotRead, SnapshotBuilding, CreateSnapshot, SnapshotReady, SnapshotFailed, PruneRevisions, SnapAts
  <2> QED BY <2>1, WorkerFact
<1>c. {"v_build", "v_commit", "v_ready", "v_fail", "v_prune", "ack", "raised"} \subseteq SnapAts \cup EndAts
  BY DEF SnapAts, EndAts
<1>d. pc[w].w \in Workspaces /\ rt \in Runtimes /\ rt.ref <= made /\ revs \in Seq(Revisions)
  BY <1>b, HoldsFact, WorkerFact
<1>1. CASE SnapshotRead(w)
  <2>1. /\ \/ Goto(w, "ack") \/ Goto(w, "v_fail") \/ Goto(w, "raised")
           \/ GotoWith(w, "v_build", pc[w].w, rt)
        /\ revs' = revs
    BY <1>1 DEF SnapshotRead, Store
  <2> QED BY <1>a, <1>b, <1>c, <1>d, <2>1, SnapOn
<1>2. CASE SnapshotBuilding(w) \/ SnapshotReady(w) \/ SnapshotFailed(w)
  <2>1. /\ \E state \in RevisionStates : SaveRevision(task[w].id, state)
        /\ Goto(w, "v_commit") \/ Goto(w, "v_prune") \/ Goto(w, "ack")
    BY <1>2 DEF SnapshotBuilding, SnapshotReady, SnapshotFailed, RevisionStates
  <2>2. revs' \in Seq(Revisions) /\ Len(revs') = Len(revs)
    BY <1>b, <2>1, SaveRevisionFact
  <2> QED BY <1>a, <1>b, <1>c, <2>1, <2>2, SnapOn
<1>3. CASE CreateSnapshot(w)
  <2>1. /\ CommitContainer(task[w].id) \/ revs' = revs
        /\ Goto(w, "v_ready") \/ Goto(w, "v_fail")
    BY <1>3 DEF CreateSnapshot
  <2>2. revs' \in Seq(Revisions) /\ Len(revs') = Len(revs)
    BY <1>b, <1>d, <2>1, CommitFact
  <2> QED BY <1>a, <1>b, <1>c, <2>1, <2>2, SnapOn
<1>4. CASE PruneRevisions(w)
  <2>1. ASSUME revs' = [v \in DOMAIN revs |-> IF v \in Surplus THEN [revs[v] EXCEPT !.st = "DELETED"] ELSE revs[v]]
        PROVE  revs' \in Seq(Revisions) /\ Len(revs') = Len(revs)
    <3>1. \A v \in DOMAIN revs : revs[v] \in Revisions /\ [revs[v] EXCEPT !.st = "DELETED"] \in Revisions
      <4> SUFFICES ASSUME NEW v \in DOMAIN revs
                   PROVE  revs[v] \in Revisions /\ [revs[v] EXCEPT !.st = "DELETED"] \in Revisions
        OBVIOUS
      <4>1. revs[v] \in Revisions
        BY <1>d
      <4> QED BY <4>1 DEF Revisions, RevisionStates
    <3>2. \A v \in DOMAIN revs : revs'[v] \in Revisions
      BY <2>1, <3>1
    <3>3. DOMAIN revs' = 1 .. Len(revs) /\ Len(revs) \in Nat /\ revs' = [v \in 1 .. Len(revs) |-> revs'[v]]
      BY <1>d, <2>1
    <3> QED BY <3>2, <3>3, <1>d
  <2>2. Goto(w, "ack") /\ revs' \in Seq(Revisions) /\ Len(revs') = Len(revs)
    BY <1>4, <1>d, <2>1 DEF PruneRevisions
  <2> QED BY <1>a, <1>b, <1>c, <2>2, SnapOn
<1> QED BY <1>1, <1>2, <1>3, <1>4

\* Every step of a worker keeps the types.
LEMMA WorkerTyped ==
    ASSUME Typed, NEW w \in Workers, WorkerSteps(w)
    PROVE  Typed' /\ Others(w)
BY FetchTyped, LayDownTyped, RequeueTyped, ExecutionTyped, SnapshotTyped DEF WorkerSteps

\* The tables of a workspace are emptied by a request, one by one.
LEMMA DeleteRowsFact ==
    ASSUME Typed, NEW p \in Callers, DeleteTables(p)
    PROVE  /\ p \in Requests /\ pc[p].at \in {"d_revs", "d_execs", "d_row"}
           /\ Return(p, NoRuntime) \/ \E step \in {"d_execs", "d_slot"} : Goto(p, step)
           /\ UNCHANGED <<box, made, volume, ops, faults, queue, stale, task, disk, blind, dead>>
           /\ rt' \in {rt, NoRuntime} /\ ws' \in Workspaces
           /\ exs' \in Seq(Rows) /\ Len(exs') = Len(exs)
           /\ \A e \in DOMAIN exs : exs'[e] = exs[e] \/ (exs'[e].st = "DELETED" /\ exs'[e].ran = exs[e].ran)
           /\ revs' \in Seq(Revisions) /\ Len(revs') = Len(revs)
           /\ \A v \in DOMAIN revs : revs'[v] = revs[v] \/ revs'[v].st = "DELETED"
<1>1. /\ pc[p].at \in {"d_revs", "d_execs", "d_row"}
      /\ Return(p, NoRuntime) \/ \E step \in {"d_execs", "d_slot"} : Goto(p, step)
      /\ UNCHANGED <<box, made, volume, ops, faults, queue, stale, task, disk, blind, dead>>
      /\ rt' \in {rt, NoRuntime} /\ (ws' = ws \/ DeleteWorkspaceRow)
      /\ exs' = exs \/ DeleteExecutions
      /\ revs' = revs \/ DeleteRevisions
  <2>1. CASE DeleteRevisionRows(p) /\ UNCHANGED workVars
    BY <2>1 DEF DeleteRevisionRows, workVars
  <2>2. CASE DeleteExecutionRows(p)
    BY <2>2 DEF DeleteExecutionRows, Store
  <2>3. CASE DeleteWorkspaceRows(p)
    BY <2>3 DEF DeleteWorkspaceRows, DeleteRows, DeleteRuntimeRow
  <2> QED BY <2>1, <2>2, <2>3 DEF DeleteTables
<1>2. p \in Requests
  <2>1. {"d_revs", "d_execs", "d_row"} \cap ({"idle"} \cup EndAts \cup ExecAts \cup SnapAts) = {}
    BY DEF EndAts, ExecAts, SnapAts, StartAts
  <2> QED BY <1>1, <2>1 DEF Typed, Controlled, WorkerControl, Callers
<1>3. ws' \in Workspaces
  BY <1>1, HoldsFact DEF DeleteWorkspaceRow, Workspaces, WorkspaceStates
<1>4. exs \in Seq(Rows) /\ revs \in Seq(Revisions)
  BY DEF Typed, Worked, Stored, Kept
<1>5. /\ exs' \in Seq(Rows) /\ Len(exs') = Len(exs)
      /\ \A e \in DOMAIN exs : exs'[e] = exs[e] \/ (exs'[e].st = "DELETED" /\ exs'[e].ran = exs[e].ran)
  <2> SUFFICES ASSUME DeleteExecutions
               PROVE  /\ exs' \in Seq(Rows) /\ Len(exs') = Len(exs)
                      /\ \A e \in DOMAIN exs : exs'[e].st = "DELETED" /\ exs'[e].ran = exs[e].ran
    BY <1>1, <1>4
  <2>1. ASSUME NEW e \in DOMAIN exs
        PROVE  /\ exs'[e] = [exs[e] EXCEPT !.st = "DELETED"] /\ exs[e] \in Rows
    BY <1>4 DEF DeleteExecutions
  <2>2. ASSUME NEW e \in DOMAIN exs
        PROVE  exs'[e] \in Rows /\ exs'[e].st = "DELETED" /\ exs'[e].ran = exs[e].ran
    BY <2>1 DEF Rows
  <2>3. DOMAIN exs' = 1 .. Len(exs) /\ Len(exs) \in Nat /\ exs' = [e \in 1 .. Len(exs) |-> exs'[e]]
    BY <1>4 DEF DeleteExecutions
  <2> QED BY <1>4, <2>2, <2>3
<1>6. /\ revs' \in Seq(Revisions) /\ Len(revs') = Len(revs)
      /\ \A v \in DOMAIN revs : revs'[v] = revs[v] \/ revs'[v].st = "DELETED"
  <2> SUFFICES ASSUME DeleteRevisions
               PROVE  /\ revs' \in Seq(Revisions) /\ Len(revs') = Len(revs)
                      /\ \A v \in DOMAIN revs : revs'[v].st = "DELETED"
    BY <1>1, <1>4
  <2>1. ASSUME NEW v \in DOMAIN revs
        PROVE  /\ revs'[v] = [revs[v] EXCEPT !.st = "DELETED"] /\ revs[v] \in Revisions
    BY <1>4 DEF DeleteRevisions
  <2>2. ASSUME NEW v \in DOMAIN revs
        PROVE  revs'[v] \in Revisions /\ revs'[v].st = "DELETED"
    BY <2>1 DEF Revisions, RevisionStates
  <2>3. DOMAIN revs' = 1 .. Len(revs) /\ Len(revs) \in Nat /\ revs' = [v \in 1 .. Len(revs) |-> revs'[v]]
    BY <1>4 DEF DeleteRevisions
  <2> QED BY <1>4, <2>2, <2>3
<1> QED BY <1>1, <1>2, <1>3, <1>5, <1>6

LEMMA DeleteTyped ==
    ASSUME Typed, NEW p \in Callers, DeleteTables(p)
    PROVE  Typed' /\ Others(p)
<1>1. Stored'
  BY DeleteRowsFact, IdleFact DEF Typed, Stored, Kept
<1>2. WorkFrame(p, {})
  <2>1. DOMAIN exs' = DOMAIN exs /\ DOMAIN revs' = DOMAIN revs
    BY DeleteRowsFact DEF Typed, Stored, Kept, Worked
  <2> QED BY <2>1, DeleteRowsFact DEF WorkFrame, Typed, Stored, Kept, Worked, Named, Names
<1>3. {"d_execs", "d_slot"} \subseteq PlainAts \ (SubmitAts \cup SaveAts \cup CancelAts)
  BY DEF PlainAts, LifeAts, SubmitAts, SaveAts, CancelAts
<1>4. p \in Requests /\ made' = made /\ (Return(p, NoRuntime) \/ \E step \in {"d_execs", "d_slot"} : Goto(p, step))
  BY DeleteRowsFact
<1>5. CallFrame(p) /\ ControlFrame(p)
  BY <1>3, <1>4, AnswerFact, AdvanceFact
<1> QED BY <1>1, <1>2, <1>5, FrameRule

\* The initial state.
LEMMA InitTyped == ExecutionInit => Typed
<1> SUFFICES ASSUME ExecutionInit PROVE Typed
  OBVIOUS
<1>a. /\ revs = <<>> /\ pc = [p \in Callers |-> Idle] /\ ops = 0 /\ faults = 0
      /\ exs = <<>> /\ queue = <<>> /\ stale = {} /\ dead = {} /\ disk = 0 /\ blind = 0
      /\ task = [p \in Callers |-> NoTask]
  BY DEF ExecutionInit, Init
<1>b. NoConfig \in Values /\ Configs \subseteq Values /\ MaxBoxes \in Nat \ {0}
  BY RuntimeAssumption DEF Values, RuntimeAssumption
<1>1. ws \in Workspaces /\ rt \in Runtimes /\ box \in Boxes /\ made \in 0 .. MaxBoxes
      /\ rt.ref <= made /\ box.id <= made /\ box.rev = 0
  <2>1. CASE /\ ws = [state |-> "NONE", cfg |-> NoConfig]
             /\ rt = NoRuntime /\ box = NoBox /\ made = 0
    BY <2>1, <1>b, IdleFact DEF NoBox, Workspaces, WorkspaceStates, Boxes
  <2>2. ASSUME NEW cfg \in Configs, ws = [state |-> "ACTIVE", cfg |-> cfg],
               rt = [state |-> "RUNNING", ref |-> 1, cfg |-> cfg, rev |-> 0],
               box = [id |-> 1, up |-> TRUE, cfg |-> cfg, rev |-> 0], made = 1
        PROVE  /\ ws \in Workspaces /\ rt \in Runtimes /\ box \in Boxes /\ made \in 0 .. MaxBoxes
               /\ rt.ref <= made /\ box.id <= made /\ box.rev = 0
    BY <2>2, <1>b DEF Workspaces, WorkspaceStates, Runtimes, RuntimeStates, Boxes
  <2> QED BY <2>1, <2>2 DEF ExecutionInit, Init
<1>2. Stored /\ Called
  BY <1>a, <1>1, IdleFact DEF Stored, Kept, Called
<1>3. Worked
  BY <1>a DEF Worked, NoTask, Tasks, Named, Names
<1>4. Controlled
  BY <1>a, IdleFact, ApartFact DEF Controlled, WorkerControl, RequestControl, Callers, PlainAts, LifeAts, StartAts,
     SubmitAts, SaveAts, CancelAts
<1> QED BY <1>2, <1>3, <1>4 DEF Typed

LEMMA StutterTyped ==
    ASSUME Typed, UNCHANGED vars
    PROVE  Typed'
BY DEF Typed, Stored, Kept, Called, Worked, Named, Names, Controlled, WorkerControl, RequestControl, vars

LEMMA NextTyped == Typed /\ [Next]_vars => Typed'
<1> SUFFICES ASSUME Typed, [Next]_vars PROVE Typed'
  OBVIOUS
<1>1. ASSUME NEW cfg \in Configs, CreateWorkspace(cfg), UNCHANGED workVars PROVE Typed'
  <2>1. ws' = [state |-> "ACTIVE", cfg |-> cfg] /\ UNCHANGED <<rt, box, made, volume, revs, pc, ops, faults>>
    BY <1>1 DEF CreateWorkspace, InsertWorkspace
  <2>2. ws' \in Workspaces
    BY <2>1 DEF Workspaces, WorkspaceStates, Values
  <2> QED BY <1>1, <2>1, <2>2
      DEF Typed, Stored, Kept, Called, Worked, Named, Names, Controlled, WorkerControl, RequestControl, workVars
<1> QED BY <1>1, RuntimeTyped, DeleteTyped, RequestTyped, WorkerTyped, StutterTyped DEF Next

LEMMA TypedTheorem == Spec => []Typed
<1>1. ExecutionInit => Typed
  BY InitTyped
<1>2. Typed /\ [Next]_vars => Typed'
  BY NextTyped
<1> QED BY <1>1, <1>2, PTL DEF Spec

------------------------------------------------------------------------------
(* Who claims, runs and carries an execution *)

Runs(w, e) == pc[w].at = "h_run" /\ task[w].id = e
Holds(w, e) == pc[w].at \in {"h_run", "h_check", "h_save"} /\ task[w].id = e
Handles(w, e) == pc[w].at \notin {"idle", "ack"} /\ task[w].kind = "exec" /\ task[w].id = e
Submits(p, e) == pc[p].at \in SubmitAts /\ task[p].id = e

\* A program that was started was claimed, and by one worker: an execution
\* that is still QUEUED has not run, and the one worker that claimed it has
\* not started it before.
Claims ==
    /\ \A e \in DOMAIN exs :
         /\ exs[e].ran <= 1
         /\ exs[e].st = "QUEUED" => exs[e].ran = 0 /\ \A w \in Workers : ~Runs(w, e)
    /\ \A w \in Workers : pc[w].at = "h_run" => exs[task[w].id].ran = 0
    /\ \A u, w \in Workers : pc[u].at = "h_run" /\ pc[w].at = "h_run" /\ task[u].id = task[w].id => u = w

\* Somebody will deal with an execution that is QUEUED.
InStream(e) == <<"exec", e>> \in stale \/ \E i \in DOMAIN queue : queue[i] = <<"exec", e>>
InHand(p, e) == (p \in Workers /\ Handles(p, e)) \/ (p \in Requests /\ Submits(p, e))
Covered(e) == InStream(e) \/ <<"exec", e>> \in dead \/ \E p \in Callers : InHand(p, e)

\* As long as nothing has failed, a RUNNING execution is in the hands of a
\* worker past its claim, and a QUEUED one is covered.
Pursued ==
    faults = 0 => \A e \in DOMAIN exs :
        /\ exs[e].st = "RUNNING" => \E w \in Workers : Holds(w, e)
        /\ exs[e].st = "QUEUED" => Covered(e)

\* What a worker runs is there.
LEMMA RunsFact ==
    ASSUME Typed, NEW w \in Workers, pc[w].at \in {"h_run", "h_check", "h_save"}
    PROVE  task[w].id \in DOMAIN exs /\ task[w].kind = "exec"
<1>1. pc[w].at \in ExecAts
  BY DEF ExecAts
<1> QED BY <1>1, WorkerFact DEF WorkerControl

\* A step that starts no program and lets no worker claim.
LEMMA ClaimsRule ==
    ASSUME Typed, Claims, NEW p \in Callers, Others(p), DOMAIN exs \subseteq DOMAIN exs',
           p \in Workers => pc'[p].at # "h_run" \/ (pc'[p].at = pc[p].at /\ task'[p] = task[p]),
           \A e \in DOMAIN exs : exs'[e].ran = exs[e].ran /\ (exs'[e].st = "QUEUED" => exs[e].st = "QUEUED"),
           \A e \in DOMAIN exs' \ DOMAIN exs : exs'[e].ran = 0
    PROVE  Claims'
<1>1. \A w \in Workers : w \in Callers
  BY DEF Callers
<1>2. ASSUME NEW w \in Workers, pc'[w].at = "h_run" PROVE pc[w].at = "h_run" /\ task'[w].id = task[w].id /\ task[w].id \in DOMAIN exs
  <2>1. pc[w].at = "h_run" /\ task'[w] = task[w]
    BY <1>1, <1>2 DEF Others
  <2> QED BY <2>1, RunsFact
<1>3. ASSUME NEW e \in DOMAIN exs'
      PROVE  exs'[e].ran <= 1 /\ (exs'[e].st = "QUEUED" => exs'[e].ran = 0 /\ \A w \in Workers : ~Runs(w, e)')
  <2>1. CASE e \in DOMAIN exs
    BY <2>1, <1>2 DEF Claims, Runs
  <2>2. CASE e \notin DOMAIN exs
    BY <2>2, <1>2 DEF Runs
  <2> QED BY <2>1, <2>2
<1>4. \A w \in Workers : pc'[w].at = "h_run" => exs'[task'[w].id].ran = 0
  BY <1>2 DEF Claims
<1>5. \A u, w \in Workers : pc'[u].at = "h_run" /\ pc'[w].at = "h_run" /\ task'[u].id = task'[w].id => u = w
  BY <1>2 DEF Claims
<1> QED BY <1>3, <1>4, <1>5 DEF Claims

\* A step of p that drops nothing p carries.
KeepsRunning(p) ==
    \A e \in DOMAIN exs' : exs'[e].st = "RUNNING" =>
        \/ p \in Workers /\ Holds(p, e)'
        \/ e \in DOMAIN exs /\ exs[e].st = "RUNNING" /\ (p \in Workers => ~Holds(p, e))

KeepsQueued(p) ==
    \A e \in DOMAIN exs' : exs'[e].st = "QUEUED" =>
        \/ Covered(e)'
        \/ /\ e \in DOMAIN exs /\ exs[e].st = "QUEUED" /\ ~InHand(p, e)
           /\ InStream(e) => InStream(e)'
           /\ dead \subseteq dead'

LEMMA PursuedRule ==
    ASSUME Typed, Pursued, NEW p \in Callers, Others(p), faults' = 0 => faults = 0 /\ KeepsRunning(p) /\ KeepsQueued(p)
    PROVE  Pursued'
<1> SUFFICES ASSUME faults' = 0, NEW e \in DOMAIN exs'
             PROVE  /\ exs'[e].st = "RUNNING" => \E w \in Workers : Holds(w, e)'
                    /\ exs'[e].st = "QUEUED" => Covered(e)'
  BY DEF Pursued
<1>1. \A w \in Workers : w \in Callers
  BY DEF Callers
<1>2. CASE exs'[e].st = "RUNNING"
  <2>1. CASE p \in Workers /\ Holds(p, e)'
    BY <1>2, <2>1
  <2>2. CASE e \in DOMAIN exs /\ exs[e].st = "RUNNING" /\ (p \in Workers => ~Holds(p, e))
    <3>1. PICK w \in Workers : Holds(w, e)
      BY <2>2 DEF Pursued
    <3>2. w # p
      BY <2>2, <3>1
    <3>3. Holds(w, e)'
      BY <1>1, <3>1, <3>2 DEF Holds, Others
    <3> QED BY <1>2, <3>3
  <2> QED BY <1>2, <2>1, <2>2 DEF KeepsRunning
<1>3. CASE exs'[e].st = "QUEUED"
  <2>1. CASE Covered(e)'
    BY <2>1, <1>3
  <2>2. CASE /\ e \in DOMAIN exs /\ exs[e].st = "QUEUED" /\ ~InHand(p, e)
             /\ InStream(e) => InStream(e)'
             /\ dead \subseteq dead'
    <3>1. Covered(e)
      BY <2>2 DEF Pursued
    <3>2. CASE InStream(e) \/ <<"exec", e>> \in dead
      BY <1>3, <2>2, <3>2 DEF Covered
    <3>3. ASSUME NEW q \in Callers, InHand(q, e) PROVE Covered(e)'
      <4>1. q # p
        BY <2>2, <3>3
      <4>2. InHand(q, e)'
        BY <3>3, <4>1 DEF InHand, Handles, Submits, Others
      <4> QED BY <4>2 DEF Covered
    <3> QED BY <1>3, <3>1, <3>2, <3>3 DEF Covered
  <2> QED BY <1>3, <2>1, <2>2 DEF KeepsQueued
<1> QED BY <1>2, <1>3

\* A step that leaves the rows of executions and the messages alone, or only
\* ends an execution.
LEMMA EndRule ==
    ASSUME Typed, Claims, Pursued, NEW p \in Callers, Others(p), faults' = 0 => faults = 0,
           DOMAIN exs' = DOMAIN exs,
           \A e \in DOMAIN exs : /\ exs'[e].ran = exs[e].ran
                                 /\ exs'[e].st \in {"QUEUED", "RUNNING"} => exs'[e].st = exs[e].st,
           p \in Workers => pc'[p].at # "h_run" \/ (pc'[p].at = pc[p].at /\ task'[p] = task[p]),
           faults' = 0 => /\ dead \subseteq dead' /\ \A e \in DOMAIN exs : InStream(e) => Covered(e)'
                          /\ \A e \in DOMAIN exs : exs'[e].st = "QUEUED" /\ InHand(p, e) => Covered(e)'
                          /\ p \in Workers => \A e \in DOMAIN exs : exs'[e].st = "RUNNING" /\ Holds(p, e) => Holds(p, e)'
    PROVE  Claims' /\ Pursued'
<1>1. Claims'
  BY ClaimsRule
<1>2. faults' = 0 => KeepsRunning(p) /\ KeepsQueued(p)
  BY DEF KeepsRunning, KeepsQueued
<1> QED BY <1>1, <1>2, PursuedRule

LEMMA RuntimeClaims ==
    ASSUME Typed, Claims, Pursued, NEW p \in Callers, RuntimeSteps(p)
    PROVE  Claims' /\ Pursued'
<1>1. /\ RuntimeMoves(p) /\ RuntimeKeeps
      /\ UNCHANGED <<exs, queue, stale, task, blind, dead>> /\ Others(p)
  BY RuntimeStep, RuntimeTyped
<1>2. faults \in Nat /\ faults' \in Nat /\ faults <= faults'
  BY <1>1 DEF RuntimeKeeps, Kept, Typed, Stored
<1>3. p \in Workers => /\ pc[p].at \in StartAts /\ pc'[p].at \in StartAts \cup {"started", "raised"}
                       /\ pc'[p].at \notin {"idle", "ack", "h_run"} /\ pc[p].at \notin {"h_run", "h_check", "h_save"}
  BY <1>1 DEF RuntimeMoves, Moves, StartAts
<1>4. p \in Requests => faults' > 0 \/ pc[p].at \notin SubmitAts
  BY <1>1 DEF RuntimeMoves, SubmitAts, LifeAts, StartAts
<1>5. faults' = 0 => \A e \in DOMAIN exs : InHand(p, e) => InHand(p, e)'
  BY <1>1, <1>2, <1>3, <1>4 DEF InHand, Handles, Submits
<1>6. \A e \in DOMAIN exs : InStream(e) => InStream(e)'
  BY <1>1 DEF InStream
<1>7. p \in Workers => \A e \in DOMAIN exs : ~Holds(p, e)
  BY <1>3 DEF Holds
<1>8. faults' = 0 => /\ dead \subseteq dead' /\ \A e \in DOMAIN exs : InStream(e) => Covered(e)'
                     /\ \A e \in DOMAIN exs : exs'[e].st = "QUEUED" /\ InHand(p, e) => Covered(e)'
                     /\ p \in Workers => \A e \in DOMAIN exs : exs'[e].st = "RUNNING" /\ Holds(p, e) => Holds(p, e)'
  BY <1>1, <1>5, <1>6, <1>7 DEF Covered
<1>9. p \in Workers => pc'[p].at # "h_run"
  BY <1>3
<1>10. /\ DOMAIN exs' = DOMAIN exs /\ faults' = 0 => faults = 0
       /\ \A e \in DOMAIN exs : /\ exs'[e].ran = exs[e].ran
                                /\ exs'[e].st \in {"QUEUED", "RUNNING"} => exs'[e].st = exs[e].st
  BY <1>1, <1>2
<1> QED BY <1>1, <1>8, <1>9, <1>10, EndRule

LEMMA DeleteClaims ==
    ASSUME Typed, Claims, Pursued, NEW p \in Callers, DeleteTables(p)
    PROVE  Claims' /\ Pursued'
<1>1. p \notin Workers /\ Others(p) /\ faults' = faults /\ pc[p].at \notin SubmitAts /\ UNCHANGED <<queue, stale, dead>>
  BY DeleteRowsFact, DeleteTyped, CallerFact DEF SubmitAts
<1>2. exs \in Seq(Rows) /\ exs' \in Seq(Rows) /\ DOMAIN exs' = DOMAIN exs
  BY DeleteRowsFact DEF Typed, Worked
<1>3. \A e \in DOMAIN exs : /\ exs'[e].ran = exs[e].ran
                            /\ exs'[e].st \in {"QUEUED", "RUNNING"} => exs'[e].st = exs[e].st
  BY DeleteRowsFact
<1>4. \A e \in DOMAIN exs : ~InHand(p, e) /\ (InStream(e) => Covered(e)')
  BY <1>1 DEF InHand, Submits, InStream, Covered
<1> QED BY <1>1, <1>2, <1>3, <1>4, EndRule

\* Messages are only added at the end of the stream.
LEMMA StreamGrows ==
    ASSUME Typed, NEW m, queue' \in {queue, Append(queue, m)}, stale \subseteq stale'
    PROVE  \A e : InStream(e) => InStream(e)'
<1>1. queue \in Seq(Letters)
  BY DEF Typed, Worked
<1>2. \A i \in DOMAIN queue : i \in DOMAIN queue' /\ queue'[i] = queue[i]
  BY <1>1
<1> QED BY <1>2 DEF InStream

\* A request without an execution of its own touches no execution.
LEMMA BystanderClaims ==
    ASSUME Typed, Claims, Pursued, NEW p \in Requests, Others(p), NEW m, queue' \in {queue, Append(queue, m)},
           UNCHANGED <<exs, stale, dead>>, pc[p].at \notin SubmitAts, faults' = 0 => faults = 0
    PROVE  Claims' /\ Pursued'
<1>1. p \in Callers /\ p \notin Workers
  BY CallerFact DEF Callers
<1>2. \A e \in DOMAIN exs : InStream(e) => Covered(e)'
  BY StreamGrows DEF Covered
<1>3. \A e \in DOMAIN exs : ~InHand(p, e)
  BY <1>1 DEF InHand, Submits
<1> QED BY <1>1, <1>2, <1>3, EndRule

LEMMA SubmitClaims ==
    ASSUME Typed, Claims, Pursued, NEW p \in Requests, Others(p),
           SubmitInsert(p) \/ SubmitTouch(p) \/ SubmitPublish(p)
    PROVE  Claims' /\ Pursued'
<1>a. p \in Callers /\ p \notin Workers /\ Called
  BY CallerFact DEF Callers, Typed
<1>b. exs \in Seq(Rows) /\ faults \in Nat /\ task \in [Callers -> Tasks]
  BY DEF Typed, Stored, Kept, Worked
<1>1. CASE SubmitInsert(p)
  <2>1. UNCHANGED <<faults, queue, stale, dead>> /\ pc[p].at = "x_insert"
    BY <1>1 DEF SubmitInsert
  <2>2. CASE UNCHANGED exs
    BY <2>1, <2>2, BystanderClaims DEF SubmitAts
  <2>3. CASE /\ InsertExecution(pc[p].arg)
             /\ task' = [task EXCEPT ![p] = [kind |-> "exec", id |-> Len(exs) + 1, st |-> "QUEUED"]]
             /\ Goto(p, "x_touch")
    <3>1. /\ DOMAIN exs' = DOMAIN exs \cup {Len(exs) + 1} /\ Len(exs) + 1 \notin DOMAIN exs
          /\ \A e \in DOMAIN exs : exs'[e] = exs[e]
          /\ exs'[Len(exs) + 1].ran = 0
      BY <1>b, <2>3 DEF InsertExecution
    <3>2. pc'[p].at = "x_touch" /\ task'[p].id = Len(exs) + 1
      BY <1>a, <1>b, <2>3 DEF Goto, Called, Calls
    <3>3. Claims'
      BY <1>a, <3>1, ClaimsRule
    <3>4. ASSUME NEW e \in DOMAIN exs' \ DOMAIN exs PROVE Covered(e)'
      <4>1. e = Len(exs) + 1
        BY <3>1
      <4>2. InHand(p, e)'
        BY <1>a, <3>2, <4>1 DEF InHand, Submits, SubmitAts
      <4> QED BY <1>a, <4>2 DEF Covered
    <3>5. \A e : ~InHand(p, e)
      BY <1>a, <2>1 DEF InHand, Submits, SubmitAts
    <3>6. \A e : InStream(e) => InStream(e)'
      BY <2>1 DEF InStream
    <3>7. KeepsQueued(p)
      BY <2>1, <3>1, <3>4, <3>5, <3>6 DEF KeepsQueued
    <3>8. KeepsRunning(p)
      <4>1. exs'[Len(exs) + 1].st = "QUEUED"
        BY <1>b, <2>3 DEF InsertExecution
      <4> QED BY <1>a, <3>1, <4>1 DEF KeepsRunning
    <3> QED BY <1>a, <2>1, <3>3, <3>7, <3>8, PursuedRule
  <2> QED BY <1>1, <2>2, <2>3 DEF SubmitInsert
<1>2. CASE SubmitTouch(p)
  <2>1. /\ UNCHANGED <<faults, exs, queue, stale, dead, task>> /\ pc'[p].at = "x_publish" /\ pc[p].at = "x_touch"
    BY <1>2, <1>a DEF SubmitTouch, workVars, Goto, Called, Calls
  <2>2. \A e : (InStream(e) => InStream(e)') /\ (InHand(p, e) => InHand(p, e)')
    BY <1>a, <2>1 DEF InStream, InHand, Submits, SubmitAts
  <2>3. \A e : (InStream(e) => Covered(e)') /\ (InHand(p, e) => Covered(e)')
    BY <1>a, <2>2 DEF Covered
  <2> QED BY <1>a, <2>1, <2>3, EndRule
<1>3. CASE SubmitPublish(p)
  <2>1. /\ UNCHANGED <<exs, stale, dead, task>> /\ pc[p].at = "x_publish"
        /\ (Publish(Message(p)) /\ faults' = faults) \/ (faults' > 0 /\ faults' \in Nat)
    BY <1>3, <1>b DEF SubmitPublish, Fault, NoFault
  <2>2. ASSUME faults' = 0
        PROVE  \A e : (InStream(e) => Covered(e)') /\ (InHand(p, e) => Covered(e)')
    <3>1. queue' = Append(queue, Message(p)) /\ queue \in Seq(Letters) /\ task[p].kind = "exec"
      BY <2>1, <2>2, RequestFact DEF Publish, Typed, Worked, RequestControl, SubmitAts
    <3>2. Len(queue) + 1 \in DOMAIN queue' /\ queue'[Len(queue) + 1] = <<"exec", task[p].id>>
      BY <3>1 DEF Message
    <3>3. \A e : InHand(p, e) => InStream(e)'
      BY <1>a, <3>2 DEF InHand, Submits, InStream
    <3>4. \A e : InStream(e) => InStream(e)'
      BY <2>1, <3>1, StreamGrows
    <3> QED BY <3>3, <3>4 DEF Covered
  <2> QED BY <1>a, <2>1, <2>2, EndRule
<1> QED BY <1>1, <1>2, <1>3

LEMMA RequestClaims ==
    ASSUME Typed, Claims, Pursued, NEW p \in Requests, RequestSteps(p)
    PROVE  Claims' /\ Pursued'
<1>a. Others(p) /\ p \in Callers /\ p \notin Workers /\ faults \in Nat
  BY RequestTyped, CallerFact DEF Callers, Typed, Stored, Kept
<1>1. CASE SubmitInsert(p) \/ SubmitTouch(p) \/ SubmitPublish(p)
  BY <1>1, <1>a, SubmitClaims
<1>2. CASE SubmitFail(p) \/ CancelSave(p)
  <2>1. UNCHANGED <<faults, queue, stale, dead, task>> /\ \A e : InStream(e) => InStream(e)'
    BY <1>2 DEF SubmitFail, CancelSave, InStream
  <2>2. PICK d \in DOMAIN exs, state \in {"FAILED", "CANCELLED"} :
            SaveExecution(d, state) /\ (pc[p].at \in SubmitAts => d = task[p].id)
    <3>1. CASE SubmitFail(p)
      <4>1. task[p].id \in DOMAIN exs
        BY <3>1, RequestFact DEF SubmitFail, RequestControl, SubmitAts, Named, Names
      <4> QED BY <3>1, <4>1 DEF SubmitFail
    <3>2. CASE CancelSave(p)
      <4>1. pc[p].arg \in DOMAIN exs
        BY <3>2, RequestFact DEF CancelSave, RequestControl, CancelAts
      <4> QED BY <3>2, <4>1 DEF CancelSave, SubmitAts
    <3> QED BY <1>2, <3>1, <3>2
  <2>3. /\ DOMAIN exs' = DOMAIN exs
        /\ \A e \in DOMAIN exs : exs'[e].ran = exs[e].ran /\ (e # d => exs'[e] = exs[e])
        /\ exs'[d].st \in {"DELETED", "FAILED", "CANCELLED"}
    <3>1. exs \in Seq(Rows) /\ exs[d] \in Rows
      BY DEF Typed, Worked
    <3> QED BY <2>2, <3>1 DEF SaveExecution, Rows
  <2>4. \A e \in DOMAIN exs : exs'[e].st = "QUEUED" => ~InHand(p, e)
    BY <1>a, <2>2, <2>3 DEF InHand, Submits
  <2>5. \A e \in DOMAIN exs : exs'[e].st \in {"QUEUED", "RUNNING"} => exs'[e].st = exs[e].st
    BY <2>3
  <2>6. \A e : InStream(e) => Covered(e)'
    BY <2>1 DEF Covered
  <2> QED BY <1>a, <2>1, <2>3, <2>4, <2>5, <2>6, EndRule
<1>3. CASE ~(SubmitInsert(p) \/ SubmitTouch(p) \/ SubmitPublish(p) \/ SubmitFail(p) \/ CancelSave(p))
  <2> DEFINE Same == UNCHANGED <<exs, stale, dead, queue, faults>> /\ pc[p].at \notin SubmitAts
  <2>1. CASE \/ \E key \in Keys : SubmitEndpoint(p, key)
             \/ \E e \in DOMAIN exs : CancelEndpoint(p, e)
             \/ SaveEnvironmentEndpoint(p) \/ WriteFileEndpoint(p) \/ DeleteFileEndpoint(p)
    <3>1. Same
      BY <2>1 DEF SubmitEndpoint, CancelEndpoint, SaveEnvironmentEndpoint, WriteFileEndpoint, DeleteFileEndpoint,
         Begin, SubmitAts, workVars
    <3> QED BY <1>a, <3>1, BystanderClaims
  <2>2. CASE SubmitRead(p) \/ SubmitInvalid(p) \/ SubmitCheck(p) \/ CancelRead(p) \/ SaveEnvironmentRead(p)
    <3>1. Same
      BY <2>2 DEF SubmitRead, SubmitInvalid, SubmitCheck, CancelRead, SaveEnvironmentRead, SubmitAts, workVars
    <3> QED BY <1>a, <3>1, BystanderClaims
  <2>3. CASE SaveEnvironmentCreate(p) \/ SaveEnvironmentFail(p) \/ WriteFileCheck(p) \/ WriteFile(p) \/ DeleteFile(p)
    <3>1. Same
      BY <2>3 DEF SaveEnvironmentCreate, SaveEnvironmentFail, WriteFileCheck, WriteFile, DeleteFile, SubmitAts, workVars
    <3> QED BY <1>a, <3>1, BystanderClaims
  <2>4. CASE SaveEnvironmentPublish(p)
    <3>1. UNCHANGED <<exs, stale, dead>> /\ pc[p].at \notin SubmitAts /\ queue' \in {queue, Append(queue, Message(p))}
      BY <2>4 DEF SaveEnvironmentPublish, SubmitAts, Publish
    <3>2. faults' \in Nat /\ faults <= faults'
      BY <1>a, <2>4 DEF SaveEnvironmentPublish, Fault, NoFault
    <3>3. faults' = 0 => faults = 0
      BY <1>a, <3>2
    <3> QED BY <1>a, <3>1, <3>3, BystanderClaims
  <2> QED BY <1>3, <2>1, <2>2, <2>3, <2>4 DEF RequestSteps
<1> QED BY <1>1, <1>2, <1>3

\* The steps of a worker around its message.
LEMMA MessageClaims ==
    ASSUME Typed, Claims, Pursued, NEW w \in Workers, Others(w),
           Fetch(w) \/ Acknowledge(w) \/ HandlerRaised(w) \/ Sweep(w) \/ Overrun(w) \/ WorkerCrash(w)
    PROVE  Claims' /\ Pursued'
<1>a. w \in Callers /\ w \notin Requests /\ Called /\ faults \in Nat /\ queue \in Seq(Letters) /\ task \in [Callers -> Tasks]
  BY CallerFact DEF Callers, Typed, Stored, Kept, Worked
<1>1. CASE Fetch(w)
  <2> DEFINE m == Head(queue)
  <2>1. /\ UNCHANGED <<faults, exs, stale, dead>> /\ queue # <<>> /\ queue' = Tail(queue) /\ pc[w].at = "idle"
        /\ task'[w].kind = m[1] /\ task'[w].id = m[2] /\ pc'[w].at \in {"h_read", "v_read"}
    BY <1>a, <1>1 DEF Fetch, Called, Calls, Idle
  <2>2. \A e : ~InHand(w, e) /\ ~Holds(w, e)
    BY <1>a, <2>1 DEF InHand, Handles, Holds
  <2>3. ASSUME NEW e, InStream(e) PROVE Covered(e)'
    <3>1. CASE <<"exec", e>> \in stale
      BY <3>1, <2>1 DEF Covered, InStream
    <3>2. ASSUME NEW i \in DOMAIN queue, queue[i] = <<"exec", e>> PROVE Covered(e)'
      <4>1. CASE i = 1
        <5>1. m = <<"exec", e>>
          BY <1>a, <2>1, <3>2, <4>1
        <5>2. InHand(w, e)'
          BY <2>1, <5>1 DEF InHand, Handles
        <5> QED BY <1>a, <5>2 DEF Covered
      <4>2. CASE i # 1
        <5>1. i - 1 \in DOMAIN queue' /\ queue'[i - 1] = <<"exec", e>>
          BY <1>a, <2>1, <3>2, <4>2
        <5> QED BY <5>1 DEF Covered, InStream
      <4> QED BY <4>1, <4>2
    <3> QED BY <2>3, <3>1, <3>2 DEF InStream
  <2> QED BY <1>a, <2>1, <2>2, <2>3, EndRule
<1>2. CASE Acknowledge(w)
  <2>1. UNCHANGED <<faults, exs, queue, stale, dead>> /\ pc[w].at = "ack" /\ pc'[w].at = "idle"
    BY <1>a, <1>2, IdleFact DEF Acknowledge, Called
  <2>2. \A e : ~InHand(w, e) /\ ~Holds(w, e) /\ (InStream(e) => Covered(e)')
    BY <1>a, <2>1 DEF InHand, Handles, Holds, Covered, InStream
  <2> QED BY <1>a, <2>1, <2>2, EndRule
<1>3. CASE HandlerRaised(w)
  <2>1. UNCHANGED <<exs, queue>> /\ pc[w].at = "raised" /\ pc'[w].at = "idle"
    BY <1>a, <1>3, IdleFact DEF HandlerRaised, Called
  <2>2. CASE NoFault /\ dead' = dead \cup {Message(w)} /\ UNCHANGED stale
    <3>1. UNCHANGED faults
      BY <2>2 DEF NoFault
    <3>2. \A e : ~Holds(w, e) /\ (InStream(e) => Covered(e)')
      BY <1>a, <2>1, <2>2 DEF Holds, Covered, InStream
    <3>3. \A e : InHand(w, e) => Covered(e)'
      BY <1>a, <2>1, <2>2 DEF InHand, Handles, Covered, Message
    <3> QED BY <1>a, <2>1, <2>2, <3>1, <3>2, <3>3, EndRule
  <2>3. CASE Fault
    <3>1. faults' > 0
      BY <1>a, <2>3 DEF Fault
    <3> QED BY <1>a, <2>1, <3>1, EndRule
  <2> QED BY <1>3, <2>2, <2>3 DEF HandlerRaised
<1>4. CASE Sweep(w)
  <2>1. PICK m \in stale : /\ UNCHANGED <<exs, dead, pc, task>> /\ queue' = Append(queue, m)
                           /\ stale \ {m} \subseteq stale' /\ faults' \in Nat /\ faults <= faults'
    BY <1>a, <1>4 DEF Sweep, Publish, Fault, NoFault
  <2>2. Len(queue) + 1 \in DOMAIN queue' /\ queue'[Len(queue) + 1] = m /\ \A i \in DOMAIN queue : i \in DOMAIN queue' /\ queue'[i] = queue[i]
    BY <1>a, <2>1
  <2>3. \A e : InStream(e) => InStream(e)'
    BY <2>1, <2>2 DEF InStream
  <2>4. \A e : (InStream(e) => Covered(e)') /\ (InHand(w, e) => Covered(e)') /\ (Holds(w, e) => Holds(w, e)')
    BY <1>a, <2>1, <2>3 DEF Covered, InHand, Handles, Holds
  <2> QED BY <1>a, <2>1, <2>4, EndRule
<1>5. CASE Overrun(w) \/ WorkerCrash(w)
  <2>1. UNCHANGED exs /\ faults' > 0 /\ (pc'[w].at = "idle" \/ UNCHANGED <<pc, task>>)
    BY <1>a, <1>5, IdleFact DEF Overrun, WorkerCrash, Fault, Called
  <2> QED BY <1>a, <2>1, EndRule
<1> QED BY <1>1, <1>2, <1>3, <1>4, <1>5

\* A worker that works on a snapshot touches no execution.
LEMMA SnapshotClaims ==
    ASSUME Typed, Claims, Pursued, NEW w \in Workers, Others(w),
           \/ SnapshotRead(w) \/ SnapshotBuilding(w) \/ CreateSnapshot(w) \/ SnapshotReady(w)
           \/ SnapshotFailed(w) \/ PruneRevisions(w)
    PROVE  Claims' /\ Pursued'
<1>a. w \in Callers /\ Called /\ faults \in Nat /\ WorkerControl(w) /\ w \notin Requests
  BY WorkerFact DEF Typed
<1>b. UNCHANGED <<exs, queue, stale, dead, task>>
  BY DEF SnapshotRead, SnapshotBuilding, CreateSnapshot, SnapshotReady, SnapshotFailed, PruneRevisions, workVars
<1>c. faults' \in Nat /\ faults <= faults'
  BY <1>a DEF SnapshotRead, SnapshotBuilding, CreateSnapshot, SnapshotReady, SnapshotFailed, PruneRevisions,
     Fault, NoFault
<1>d. pc[w].at \in SnapAts
  BY DEF SnapshotRead, SnapshotBuilding, CreateSnapshot, SnapshotReady, SnapshotFailed, PruneRevisions, SnapAts
<1>e. pc'[w].at \in SnapAts \cup EndAts
  BY <1>a DEF SnapshotRead, SnapshotBuilding, CreateSnapshot, SnapshotReady, SnapshotFailed, PruneRevisions,
     SnapAts, EndAts, Goto, GotoWith, Called, Calls
<1>1. task[w].kind = "snap"
  BY <1>a, <1>d DEF WorkerControl
<1>2. \A e : ~InHand(w, e) /\ ~Holds(w, e)
  BY <1>a, <1>d, <1>1 DEF InHand, Handles, Holds, SnapAts
<1>3. \A e : InStream(e) => Covered(e)'
  BY <1>b DEF InStream, Covered
<1>4. pc'[w].at # "h_run"
  BY <1>e DEF SnapAts, EndAts
<1>5. faults' = 0 => faults = 0
  BY <1>a, <1>c
<1> QED BY <1>a, <1>b, <1>2, <1>3, <1>4, <1>5, EndRule

\* What a handler of an execution knows.
LEMMA HandlerFact ==
    ASSUME Typed, NEW w \in Workers, pc[w].at \in ExecAts
    PROVE  /\ w \in Callers /\ w \notin Requests /\ Called /\ faults \in Nat /\ task \in [Callers -> Tasks]
           /\ task[w].id \in DOMAIN exs /\ task[w].kind = "exec" /\ exs \in Seq(Rows) /\ exs[task[w].id] \in Rows
<1>1. task[w].id \in DOMAIN exs /\ exs \in Seq(Rows) /\ w \in Callers /\ w \notin Requests /\ task \in [Callers -> Tasks]
      /\ task[w].kind = "exec"
  BY WorkerFact DEF WorkerControl
<1> QED BY <1>1 DEF Typed, Stored, Kept

\* The steps before the claim and after the run.
LEMMA HandlerClaims ==
    ASSUME Typed, Claims, Pursued, NEW w \in Workers, Others(w),
           ExecutionRead(w) \/ ExecutionOwner(w) \/ RuntimeStarted(w) \/ ExecutionReread(w) \/ ExecutionWrite(w)
    PROVE  Claims' /\ Pursued'
<1> DEFINE d == task[w].id
<1>a. pc[w].at \in {"h_read", "h_owner", "started", "h_check", "h_save"}
  BY DEF ExecutionRead, ExecutionOwner, RuntimeStarted, ExecutionReread, ExecutionWrite
<1>b. /\ w \in Callers /\ w \notin Requests /\ Called /\ faults \in Nat /\ task \in [Callers -> Tasks]
      /\ d \in DOMAIN exs /\ task[w].kind = "exec" /\ exs \in Seq(Rows) /\ exs[d] \in Rows /\ WorkerControl(w)
  BY <1>a, HandlerFact, WorkerFact DEF ExecAts
<1>c. UNCHANGED <<queue, stale, dead, faults>> /\ \A e : InStream(e) => Covered(e)'
  BY DEF ExecutionRead, ExecutionOwner, RuntimeStarted, ExecutionReread, ExecutionWrite, workVars, InStream, Covered
<1>d. task'[w].id = d /\ task'[w].kind = "exec"
  BY <1>b DEF ExecutionRead, ExecutionOwner, RuntimeStarted, ExecutionReread, ExecutionWrite, WorkGoto, workVars, Tasks
<1> HIDE DEF d
<1>e. ASSUME pc'[w].at \notin {"idle", "ack"} PROVE \A e : InHand(w, e) => Covered(e)'
  BY <1>e, <1>b, <1>d DEF InHand, Handles, Covered, d
<1>1. CASE ExecutionRead(w)
  <2>1. exs' = exs /\ (pc'[w].at = "h_owner" \/ (pc'[w].at = "ack" /\ exs[d].st \notin Active)) /\ pc[w].at = "h_read"
    BY <1>1, <1>b DEF ExecutionRead, WorkGoto, Goto, Called, Calls, d
  <2>2. \A e : ~Holds(w, e)
    BY <2>1 DEF Holds
  <2>3. \A e \in DOMAIN exs : exs'[e].st = "QUEUED" /\ InHand(w, e) => Covered(e)'
    BY <1>b, <1>e, <2>1 DEF InHand, Handles, Active, d
  <2> QED BY <1>b, <1>c, <2>1, <2>2, <2>3, EndRule
<1>0. CASE ExecutionOwner(w)
  <2>1. exs' = exs /\ pc'[w].at \in {"s_read", "h_save"} /\ pc[w].at = "h_owner"
    BY <1>0, <1>b DEF ExecutionOwner, WorkGoto, Goto, Called, Calls
  <2>2. \A e : ~Holds(w, e)
    BY <2>1 DEF Holds
  <2> QED BY <1>b, <1>c, <1>e, <2>1, <2>2, EndRule
<1>2. CASE RuntimeStarted(w)
  <2>1. exs' = exs /\ pc'[w].at \in {"h_claim", "h_save"} /\ pc[w].at = "started"
    BY <1>2, <1>b DEF RuntimeStarted, WorkGoto, Goto, Called, Calls
  <2>2. \A e : ~Holds(w, e)
    BY <2>1 DEF Holds
  <2> QED BY <1>b, <1>c, <1>e, <2>1, <2>2, EndRule
<1>3. CASE ExecutionReread(w)
  <2>1. /\ exs' = exs /\ task' = task /\ pc[w].at = "h_check"
        /\ pc'[w].at = "h_save" \/ (pc'[w].at = "ack" /\ exs[d].st \in Terminal)
    BY <1>3, <1>b DEF ExecutionReread, Goto, Called, Calls, d, workVars
  <2>2. \A e \in DOMAIN exs : exs'[e].st = "RUNNING" /\ Holds(w, e) => Holds(w, e)'
    BY <2>1 DEF Holds, Terminal, d
  <2>3. \A e \in DOMAIN exs : exs'[e].st = "QUEUED" /\ InHand(w, e) => Covered(e)'
    BY <1>b, <1>e, <2>1 DEF InHand, Handles, Terminal, d
  <2> QED BY <1>b, <1>c, <2>1, <2>2, <2>3, EndRule
<1>4. CASE ExecutionWrite(w)
  <2>1. /\ SaveExecution(d, task[w].st) /\ task[w].st \in Terminal /\ task' = task /\ pc[w].at = "h_save" /\ pc'[w].at = "ack"
    BY <1>4, <1>b DEF ExecutionWrite, Goto, Called, Calls, d, WorkerControl
  <2>2. /\ DOMAIN exs' = DOMAIN exs
        /\ \A e \in DOMAIN exs : exs'[e].ran = exs[e].ran /\ (e # d => exs'[e] = exs[e])
        /\ exs'[d].st \in Terminal \cup {"DELETED"}
    BY <1>b, <2>1 DEF SaveExecution, Rows
  <2>3. exs'[d].st \notin {"QUEUED", "RUNNING"}
    BY <2>2 DEF Terminal
  <2>4. \A e : (InHand(w, e) \/ Holds(w, e)) => e = d
    BY <1>b DEF InHand, Handles, Holds, d
  <2>5. \A e \in DOMAIN exs : exs'[e].st \in {"QUEUED", "RUNNING"} => exs'[e].st = exs[e].st
    BY <2>2, <2>3
  <2> QED BY <1>b, <1>c, <2>1, <2>2, <2>3, <2>4, <2>5, EndRule
<1> QED BY <1>0, <1>1, <1>2, <1>3, <1>4

LEMMA ClaimClaims ==
    ASSUME Typed, Claims, Pursued, NEW w \in Workers, Others(w), ClaimExecution(w)
    PROVE  Claims' /\ Pursued'
<1> DEFINE d == task[w].id
<1>a. pc[w].at = "h_claim"
  BY DEF ClaimExecution
<1>b. /\ w \in Callers /\ w \notin Requests /\ Called /\ faults \in Nat /\ task \in [Callers -> Tasks]
      /\ d \in DOMAIN exs /\ task[w].kind = "exec" /\ exs \in Seq(Rows) /\ exs[d] \in Rows
  BY <1>a, HandlerFact DEF ExecAts
<1>c. /\ UNCHANGED <<queue, stale, dead, faults>> /\ (\A e : InStream(e) => InStream(e)')
      /\ \A e : ~Holds(w, e) /\ (InHand(w, e) => e = d)
  BY <1>a DEF ClaimExecution, InStream, Holds, InHand, Handles, Submits
<1>d. task'[w].id = d /\ task'[w].kind = "exec"
  BY <1>b DEF ClaimExecution, WorkGoto, Tasks
<1>e. \/ /\ exs[d].st = "QUEUED" /\ exs' = [exs EXCEPT ![d].st = "RUNNING"] /\ pc'[w].at = "h_run"
      \/ exs[d].st # "QUEUED" /\ exs' = exs /\ pc'[w].at = "ack"
  BY <1>b DEF ClaimExecution, Claimable, WorkGoto, Goto, Called, Calls
<1>f. \A u \in Workers \ {w} : u \in Callers /\ pc'[u] = pc[u] /\ task'[u] = task[u]
  BY DEF Others, Callers
<1> HIDE DEF d
<1>1. CASE exs[d].st # "QUEUED" /\ exs' = exs /\ pc'[w].at = "ack"
  <2>1. \A e : InStream(e) => Covered(e)'
    BY <1>c DEF Covered
  <2> QED BY <1>1, <1>b, <1>c, <2>1, EndRule
<1>2. CASE exs[d].st = "QUEUED" /\ exs' = [exs EXCEPT ![d].st = "RUNNING"] /\ pc'[w].at = "h_run"
  <2>1. /\ DOMAIN exs' = DOMAIN exs
        /\ \A e \in DOMAIN exs : exs'[e].ran = exs[e].ran /\ (e # d => exs'[e] = exs[e])
        /\ exs'[d].st = "RUNNING"
    BY <1>2, <1>b DEF Rows
  <2>2. exs[d].ran = 0 /\ \A u \in Workers : ~Runs(u, d)
    BY <1>2, <1>b DEF Claims
  <2>3. \A u \in Workers : pc'[u].at = "h_run" => u = w \/ (pc[u].at = "h_run" /\ task'[u].id = task[u].id /\ task[u].id # d)
    BY <1>f, <2>2 DEF Runs
  <2>4. \A u \in Workers : pc[u].at = "h_run" => task[u].id \in DOMAIN exs
    BY RunsFact
  <2>5. Claims'
    <3>1. ASSUME NEW e \in DOMAIN exs', exs'[e].st = "QUEUED" PROVE \A u \in Workers : ~Runs(u, e)'
      <4>1. e # d /\ exs[e].st = "QUEUED" /\ e \in DOMAIN exs
        BY <2>1, <3>1
      <4> QED BY <1>d, <2>3, <4>1 DEF Runs, Claims
    <3>2. \A e \in DOMAIN exs' : exs'[e].ran <= 1 /\ (exs'[e].st = "QUEUED" => exs'[e].ran = 0)
      BY <2>1 DEF Claims
    <3>3. \A u \in Workers : pc'[u].at = "h_run" => exs'[task'[u].id].ran = 0
      BY <1>b, <1>d, <2>1, <2>2, <2>3, <2>4 DEF Claims
    <3>4. \A u, v \in Workers : pc'[u].at = "h_run" /\ pc'[v].at = "h_run" /\ task'[u].id = task'[v].id => u = v
      BY <1>d, <2>3 DEF Claims
    <3> QED BY <3>1, <3>2, <3>3, <3>4 DEF Claims
  <2>6. KeepsRunning(w)
    <3>1. ASSUME NEW e, e = d PROVE Holds(w, e)'
      BY <1>2, <1>d, <3>1 DEF Holds
    <3> QED BY <1>c, <2>1, <3>1 DEF KeepsRunning
  <2>7. KeepsQueued(w)
    BY <1>c, <2>1 DEF KeepsQueued
  <2> QED BY <1>b, <1>c, <2>5, <2>6, <2>7, PursuedRule
<1> QED BY <1>1, <1>2, <1>e

\* The program is started, or not.
LEMMA RunClaims ==
    ASSUME Typed, Claims, Pursued, NEW w \in Workers, Others(w), Execute(w) \/ ExecuteError(w)
    PROVE  Claims' /\ Pursued'
<1> DEFINE d == task[w].id
<1>a. pc[w].at = "h_run"
  BY DEF Execute, ExecuteError
<1>b. /\ w \in Callers /\ w \notin Requests /\ Called /\ faults \in Nat /\ task \in [Callers -> Tasks]
      /\ d \in DOMAIN exs /\ task[w].kind = "exec" /\ exs \in Seq(Rows) /\ exs[d] \in Rows
  BY <1>a, HandlerFact DEF ExecAts
<1>c. UNCHANGED <<queue, stale, dead>> /\ (\A e : InStream(e) => InStream(e)')
  BY DEF Execute, ExecuteError, InStream
<1>d. task'[w].id = d /\ task'[w].kind = "exec"
  BY <1>b DEF Execute, ExecuteError, WorkGoto, Tasks
<1>e. pc'[w].at \in {"h_check", "h_save", "raised"} /\ (pc'[w].at = "raised" => faults' > 0)
  BY <1>b DEF Execute, ExecuteError, WorkGoto, Goto, Called, Calls, Fault
<1>f. exs' = exs \/ exs' = [exs EXCEPT ![d].ran = @ + 1]
  BY DEF Execute, ExecuteError, RunProgram
<1>g. faults' = 0 => faults = 0
  BY <1>b DEF Execute, ExecuteError, Fault
<1>h. \A u \in Workers \ {w} : u \in Callers /\ pc'[u] = pc[u] /\ task'[u] = task[u]
  BY DEF Others, Callers
<1> HIDE DEF d
<1>1. exs[d].ran = 0 /\ \A u \in Workers : Runs(u, d) => u = w
  BY <1>a DEF Claims, Runs, d
<1>2. exs[d].st # "QUEUED"
  BY <1>a, <1>b DEF Claims, Runs, d
<1>3. /\ DOMAIN exs' = DOMAIN exs
      /\ \A e \in DOMAIN exs : exs'[e].st = exs[e].st /\ (e # d => exs'[e] = exs[e])
      /\ exs'[d].ran \in {0, 1}
  BY <1>b, <1>f, <1>1 DEF Rows
<1>4. \A u \in Workers : pc'[u].at = "h_run" => u # w /\ pc[u].at = "h_run" /\ task'[u].id = task[u].id /\ task[u].id # d
  BY <1>e, <1>h, <1>1 DEF Runs
<1>5. \A u \in Workers : pc[u].at = "h_run" => task[u].id \in DOMAIN exs
  BY RunsFact
<1>6. Claims'
  <2>1. ASSUME NEW e \in DOMAIN exs'
        PROVE  exs'[e].ran <= 1 /\ (exs'[e].st = "QUEUED" => exs'[e].ran = 0 /\ \A u \in Workers : ~Runs(u, e)')
    BY <1>2, <1>3, <1>4 DEF Claims, Runs
  <2>2. \A u \in Workers : pc'[u].at = "h_run" => exs'[task'[u].id].ran = 0
    BY <1>3, <1>4, <1>5 DEF Claims
  <2>3. \A u, v \in Workers : pc'[u].at = "h_run" /\ pc'[v].at = "h_run" /\ task'[u].id = task'[v].id => u = v
    BY <1>4 DEF Claims
  <2> QED BY <2>1, <2>2, <2>3 DEF Claims
<1>7. faults' = 0 => KeepsRunning(w) /\ KeepsQueued(w)
  <2>1. ASSUME faults' = 0 PROVE \A e : Holds(w, e) => Holds(w, e)'
    BY <1>d, <1>e, <2>1 DEF Holds, d
  <2>2. \A e : InHand(w, e) => e = d
    BY <1>b DEF InHand, Handles, Submits, d
  <2> QED BY <1>2, <1>3, <1>c, <2>1, <2>2 DEF KeepsRunning, KeepsQueued
<1> QED BY <1>b, <1>g, <1>6, <1>7, PursuedRule

LEMMA WorkerClaims ==
    ASSUME Typed, Claims, Pursued, NEW w \in Workers, WorkerSteps(w)
    PROVE  Claims' /\ Pursued'
<1>1. Others(w)
  BY WorkerTyped
<1> QED BY <1>1, MessageClaims, SnapshotClaims, HandlerClaims, ClaimClaims, RunClaims DEF WorkerSteps

LEMMA InitClaims == ExecutionInit => Claims /\ Pursued
<1> SUFFICES ASSUME ExecutionInit PROVE Claims /\ Pursued
  OBVIOUS
<1>1. exs = <<>> /\ \A w \in Workers : pc[w].at = "idle"
  BY IdleFact DEF ExecutionInit, Init, Callers
<1> QED BY <1>1 DEF Claims, Pursued

LEMMA NextClaims == Typed /\ Claims /\ Pursued /\ [Next]_vars => Claims' /\ Pursued'
<1> SUFFICES ASSUME Typed, Claims, Pursued, [Next]_vars PROVE Claims' /\ Pursued'
  OBVIOUS
<1>1. ASSUME UNCHANGED <<exs, queue, stale, dead, task, pc, faults>> PROVE Claims' /\ Pursued'
  BY <1>1 DEF Claims, Pursued, Runs, Holds, Handles, Submits, InStream, InHand, Covered
<1>2. ASSUME NEW cfg \in Configs, CreateWorkspace(cfg), UNCHANGED workVars PROVE Claims' /\ Pursued'
  BY <1>1, <1>2 DEF CreateWorkspace, workVars
<1>3. CASE UNCHANGED vars
  BY <1>1, <1>3 DEF vars
<1> QED BY <1>2, <1>3, RuntimeClaims, DeleteClaims, RequestClaims, WorkerClaims DEF Next

LEMMA ClaimsTheorem == Spec => [](Typed /\ Claims /\ Pursued)
<1>1. ExecutionInit => Typed /\ Claims /\ Pursued
  BY InitTyped, InitClaims
<1>2. Typed /\ Claims /\ Pursued /\ [Next]_vars => (Typed /\ Claims /\ Pursued)'
  BY NextTyped, NextClaims
<1> QED BY <1>1, <1>2, PTL DEF Spec

\* RanOnce for every number of requests, workers and executions: whatever is
\* redelivered, swept from a worker that lives or submitted again, the
\* claim of SQLExecutionRepository lets the program of an execution start at
\* most once.
THEOREM RanOnceTheorem == Spec => []RanOnce
<1>1. Claims => RanOnce
  BY DEF Claims, RanOnce
<1> QED BY <1>1, ClaimsTheorem, PTL

\* NoStuckExecution for every number of requests, workers and executions: as
\* long as no process died and no provider or broker call failed, an
\* execution that is QUEUED or RUNNING has somebody to deal with it, or its
\* message was dead-lettered.
THEOREM NoStuckExecutionTheorem == Spec => []NoStuckExecution
<1>1. ASSUME Typed, Pursued PROVE NoStuckExecution
  <2> SUFFICES ASSUME NEW e \in ActiveExecutions, ~(faults > 0)
               PROVE  Carried(e) \/ <<"exec", e>> \in dead
    BY DEF NoStuckExecution
  <2>1. faults = 0 /\ e \in DOMAIN exs /\ exs[e].st \in {"QUEUED", "RUNNING"}
    BY <1>1 DEF ActiveExecutions, Active, Typed, Stored, Kept
  <2>2. CASE exs[e].st = "RUNNING"
    <3>1. PICK w \in Workers : Holds(w, e)
      BY <1>1, <2>1, <2>2 DEF Pursued
    <3>2. task[w].kind = "exec" /\ w \in Callers
      BY <1>1, <3>1, RunsFact DEF Holds, Callers
    <3> QED BY <3>1, <3>2 DEF Carried, Holds, Message
  <2>3. CASE exs[e].st = "QUEUED"
    <3>1. Covered(e)
      BY <1>1, <2>1, <2>3 DEF Pursued
    <3>2. CASE InStream(e) \/ <<"exec", e>> \in dead
      BY <3>2 DEF InStream, Carried
    <3>3. ASSUME NEW p \in Callers, InHand(p, e) PROVE Carried(e)
      <4>1. CASE p \in Workers /\ Handles(p, e)
        BY <4>1 DEF Handles, Carried, Message
      <4>2. CASE p \in Requests /\ Submits(p, e)
        <5>1. task[p].kind = "exec" /\ pc[p].at # "idle"
          BY <1>1, <4>2, RequestFact DEF Submits, RequestControl, SubmitAts
        <5> QED BY <4>2, <5>1 DEF Submits, Carried, Message
      <4> QED BY <3>3, <4>1, <4>2 DEF InHand
    <3> QED BY <3>1, <3>2, <3>3 DEF Covered
  <2> QED BY <2>1, <2>2, <2>3
<1> QED BY <1>1, ClaimsTheorem, PTL

\* Only the claim makes an execution RUNNING, and only one that is QUEUED.
LEMMA StatusStep ==
    ASSUME Typed, Next, NEW e \in DOMAIN exs, exs'[e].st = "RUNNING"
    PROVE  exs[e].st \in Active
<1>a. exs \in Seq(Rows) /\ exs[e] \in Rows
  BY DEF Typed, Worked
<1>b. CASE exs' = exs
  BY <1>b DEF Active
<1>c. ASSUME NEW d \in DOMAIN exs, NEW state \in Terminal, SaveExecution(d, state) PROVE exs[e].st \in Active
  BY <1>c, <1>a DEF SaveExecution, Rows, Active, Terminal
<1>1. ASSUME NEW cfg \in Configs, CreateWorkspace(cfg), UNCHANGED workVars PROVE exs[e].st \in Active
  BY <1>1, <1>b DEF workVars
<1>2. ASSUME NEW p \in Callers, RuntimeSteps(p) \/ DeleteTables(p) PROVE exs[e].st \in Active
  <2>1. CASE RuntimeSteps(p)
    BY <2>1, <1>b DEF RuntimeSteps
  <2>2. CASE DeleteTables(p)
    BY <2>2, DeleteRowsFact DEF Active
  <2> QED BY <1>2, <2>1, <2>2
<1>3. ASSUME NEW p \in Requests, RequestSteps(p) PROVE exs[e].st \in Active
  <2>1. CASE SubmitInsert(p)
    <3>1. exs' = exs \/ exs' = Append(exs, [st |-> "QUEUED", key |-> pc[p].arg, ran |-> 0])
      BY <2>1 DEF SubmitInsert, InsertExecution
    <3>2. exs'[e] = exs[e]
      BY <1>a, <3>1
    <3> QED BY <3>2 DEF Active
  <2>2. CASE SubmitFail(p)
    <3>1. task[p].id \in DOMAIN exs
      BY <2>2, RequestFact DEF SubmitFail, RequestControl, SubmitAts, Named, Names
    <3> QED BY <2>2, <3>1, <1>c DEF SubmitFail, Terminal
  <2>3. CASE CancelSave(p)
    <3>1. pc[p].arg \in DOMAIN exs
      BY <2>3, RequestFact DEF CancelSave, RequestControl, CancelAts
    <3> QED BY <2>3, <3>1, <1>c DEF CancelSave, Terminal
  <2>4. CASE ~(SubmitInsert(p) \/ SubmitFail(p) \/ CancelSave(p))
    <3>1. exs' = exs
      BY <1>3, <2>4 DEF RequestSteps, SubmitEndpoint, CancelEndpoint, SaveEnvironmentEndpoint, WriteFileEndpoint,
         DeleteFileEndpoint, SubmitRead, SubmitInvalid, SubmitCheck, SubmitTouch, SubmitPublish, CancelRead,
         SaveEnvironmentRead, SaveEnvironmentCreate, SaveEnvironmentPublish, SaveEnvironmentFail, WriteFileCheck,
         WriteFile, DeleteFile, workVars
    <3> QED BY <3>1, <1>b
  <2> QED BY <2>1, <2>2, <2>3, <2>4
<1>4. ASSUME NEW w \in Workers, WorkerSteps(w) PROVE exs[e].st \in Active
  <2>1. CASE ClaimExecution(w)
    <3>1. exs' = exs \/ (exs[task[w].id].st = "QUEUED" /\ exs' = [exs EXCEPT ![task[w].id].st = "RUNNING"])
      BY <2>1 DEF ClaimExecution, Claimable
    <3> QED BY <1>a, <1>b, <3>1 DEF Rows, Active
  <2>2. CASE Execute(w) \/ ExecuteError(w)
    <3>1. exs' = exs \/ exs' = [exs EXCEPT ![task[w].id].ran = @ + 1]
      BY <2>2 DEF Execute, ExecuteError, RunProgram
    <3> QED BY <1>a, <1>b, <3>1 DEF Rows, Active
  <2>3. CASE ExecutionWrite(w)
    <3>1. pc[w].at = "h_save" /\ SaveExecution(task[w].id, task[w].st)
      BY <2>3 DEF ExecutionWrite
    <3>2. task[w].st \in Terminal /\ task[w].id \in DOMAIN exs
      BY <3>1, WorkerFact DEF WorkerControl, ExecAts
    <3> QED BY <3>1, <3>2, <1>c
  <2>4. CASE ~(ClaimExecution(w) \/ Execute(w) \/ ExecuteError(w) \/ ExecutionWrite(w))
    <3>1. exs' = exs
      BY <1>4, <2>4 DEF WorkerSteps, Fetch, Acknowledge, HandlerRaised, Sweep, Overrun, WorkerCrash, ExecutionRead,
         ExecutionOwner, RuntimeStarted, ExecutionReread, SnapshotRead, SnapshotBuilding, CreateSnapshot, SnapshotReady,
         SnapshotFailed, PruneRevisions, workVars
    <3> QED BY <3>1, <1>b
  <2> QED BY <2>1, <2>2, <2>3, <2>4
<1> QED BY <1>1, <1>2, <1>3, <1>4 DEF Next

\* CancelledNotClaimed for every number of requests, workers and executions:
\* no step of anybody turns a cancelled execution into a running one.
THEOREM CancelledNotClaimedTheorem == Spec => CancelledNotClaimed
<1> DEFINE Step == \A e \in DOMAIN exs : exs[e].st = "CANCELLED" => exs'[e].st # "RUNNING"
<1>1. Typed /\ [Next]_vars => [Step]_vars
  <2> SUFFICES ASSUME Typed, Next PROVE Step
    BY DEF vars
  <2> QED BY StatusStep DEF Active
<1> QED BY <1>1, TypedTheorem, PTL DEF Spec, CancelledNotClaimed

------------------------------------------------------------------------------
(* What the rows and the copies say of the container *)

\* A runtime row tells the truth about a container.
TruthOf(r, b) == r.ref # 0 /\ r.ref = b.id => r.cfg = b.cfg /\ r.rev = b.rev
MadeFor(r, cfg, b) == r.ref # 0 /\ r.ref = b.id => cfg = b.cfg /\ r.rev = b.rev

\* The runtime row and every copy of it are true, whatever their state; the
\* copy of a start whose container is up but not recorded yet is true once
\* mark_running has put the configuration of the workspace into it.
Truthful ==
    /\ TruthOf(rt, box)
    /\ \A p \in Callers : IF pc[p].at = "s_run" THEN MadeFor(pc[p].r, pc[p].w.cfg, box) ELSE TruthOf(pc[p].r, box)

\* Two rows that say the same of their container.
Like(r, s) == r.ref = s.ref /\ r.cfg = s.cfg /\ r.rev = s.rev

\* What was true of the container stays true.
BoxKept ==
    \A r \in Runtimes : r.ref <= made =>
        /\ TruthOf(r, box) => TruthOf(r, box')
        /\ \A cfg : MadeFor(r, cfg, box) => MadeFor(r, cfg, box')

LEMMA BoxKeptFact ==
    ASSUME Typed,
           \/ box' \in {box, NoBox, [box EXCEPT !.up = TRUE], [box EXCEPT !.up = FALSE]}
           \/ box'.id = made + 1
    PROVE  BoxKept
<1>1. box \in Boxes /\ made \in Nat
  BY DEF Typed, Stored, Kept
<1>2. CASE box'.id = made + 1
  BY <1>1, <1>2 DEF BoxKept, TruthOf, MadeFor, Runtimes
<1>3. CASE box' = NoBox
  BY <1>3 DEF BoxKept, TruthOf, MadeFor, NoBox
<1>4. CASE box' \in {box, [box EXCEPT !.up = TRUE], [box EXCEPT !.up = FALSE]}
  <2>1. box'.id = box.id /\ box'.cfg = box.cfg /\ box'.rev = box.rev
    BY <1>1, <1>4 DEF Boxes
  <2> QED BY <2>1 DEF BoxKept, TruthOf, MadeFor
<1> QED BY <1>2, <1>3, <1>4

\* A step of p after which the row and the copy of p come from a row or a
\* copy that was true before.
LEMMA TruthRule ==
    ASSUME Typed, Truthful, NEW p \in Callers, Others(p), BoxKept,
           Like(rt', rt) \/ rt'.ref = 0 \/ (pc[p].at # "s_run" /\ Like(rt', pc[p].r)),
           pc'[p].at # "s_run",
           Like(pc'[p].r, rt) \/ pc'[p].r.ref = 0 \/ (pc[p].at # "s_run" /\ Like(pc'[p].r, pc[p].r))
    PROVE  Truthful'
<1>1. rt \in Runtimes /\ rt.ref <= made /\ \A q \in Callers : pc[q].r \in Runtimes /\ pc[q].r.ref <= made
  BY HoldsFact
<1>2. TruthOf(rt, box') /\ \A q \in Callers :
          IF pc[q].at = "s_run" THEN MadeFor(pc[q].r, pc[q].w.cfg, box') ELSE TruthOf(pc[q].r, box')
  BY <1>1 DEF Truthful, BoxKept
<1>3. TruthOf(rt', box')
  BY <1>2 DEF TruthOf, Like
<1>4. TruthOf(pc'[p].r, box')
  BY <1>2 DEF TruthOf, Like
<1>5. \A q \in Callers \ {p} : pc'[q] = pc[q]
  BY DEF Others
<1> QED BY <1>2, <1>3, <1>4, <1>5 DEF Truthful

\* Where a request is that begins.
LEMMA BeginAt ==
    ASSUME Called, NEW p \in Callers, NEW op, NEW arg, NEW step, Begin(p, op, arg, step)
    PROVE  UNCHANGED <<rt, box>> /\ pc'[p].at = step /\ pc'[p].r = NoRuntime
<1>1. pc'[p] = [Idle EXCEPT !.at = step, !.op = op, !.arg = arg] /\ UNCHANGED <<rt, box>>
  BY DEF Begin, Called, Store
<1> QED BY <1>1, IdleFact DEF Calls

LEMMA StartTruth ==
    ASSUME Typed, Truthful, NEW p \in Callers, Others(p), StartSteps(p)
    PROVE  Truthful'
<1>a. /\ pc[p].r \in Runtimes /\ pc[p].w \in Workspaces /\ rt \in Runtimes /\ made \in Nat /\ rt.ref <= made
      /\ pc[p].r.ref <= made /\ Called /\ box \in Boxes /\ box.id <= made
  BY HoldsFact DEF Kept
<1>b. NoRuntime.ref = 0 /\ Idle.at = "idle" /\ Idle.r = NoRuntime
  BY IdleFact
<1>c. ASSUME NEW r \in Runtimes, Return(p, r) \/ RaiseError(p), pc[p].at # "s_run"
      PROVE  pc'[p].at # "s_run" /\ (pc'[p].r = r \/ pc'[p].r.ref = 0 \/ pc'[p].r = pc[p].r)
  BY <1>a, <1>b, <1>c, ReturnFact, RaiseFact DEF Moves
<1>d. ASSUME NEW step, Goto(p, step) PROVE pc'[p].at = step /\ pc'[p].r = pc[p].r /\ pc'[p].w = pc[p].w
  BY <1>a, <1>d DEF Goto, Called, Calls
<1>e. ASSUME NEW step, NEW w, NEW r, GotoWith(p, step, w, r) PROVE pc'[p].at = step /\ pc'[p].r = r /\ pc'[p].w = w
  BY <1>a, <1>e DEF GotoWith, Called, Calls
<1>1. CASE StartRead(p)
  <2>1. pc[p].at = "s_read" /\ UNCHANGED <<rt, box>> /\ (GotoWith(p, "s_slot", ws, pc[p].r) \/ RaiseError(p))
    BY <1>1 DEF StartRead, Store
  <2> QED BY <1>a, <1>c, <1>e, <2>1, BoxKeptFact, TruthRule DEF Like
<1>2. CASE StartSlot(p)
  <2>1. pc[p].at = "s_slot" /\ UNCHANGED box
    BY <1>2 DEF StartSlot
  <2>2. CASE RaiseError(p) /\ UNCHANGED rt
    BY <1>a, <1>c, <2>1, <2>2, BoxKeptFact, TruthRule DEF Like
  <2>3. CASE /\ rt' = InsertRuntime
             /\ Return(p, InsertRuntime) \/ GotoWith(p, "s_save", pc[p].w, BeginStart(InsertRuntime))
    <3>1. InsertRuntime \in Runtimes /\ (InsertRuntime.ref = 0 \/ Like(InsertRuntime, rt))
      BY <1>a, IdleFact DEF InsertRuntime, Like, Runtimes, RuntimeStates
    <3>2. Like(BeginStart(InsertRuntime), InsertRuntime)
      BY <3>1 DEF BeginStart, Like, Runtimes
    <3>3. /\ pc'[p].at # "s_run"
          /\ pc'[p].r.ref = 0 \/ Like(pc'[p].r, rt) \/ Like(pc'[p].r, pc[p].r)
      BY <1>c, <1>e, <2>1, <2>3, <3>1, <3>2 DEF Like
    <3> QED BY <2>1, <2>3, <3>1, <3>3, BoxKeptFact, TruthRule
  <2> QED BY <1>2, <2>2, <2>3 DEF StartSlot
<1>3. CASE StartSave(p)
  <2>1. pc[p].at = "s_save" /\ UNCHANGED box /\ rt' \in {rt, pc[p].r} /\ Goto(p, "s_reuse")
    BY <1>3 DEF StartSave, SaveRuntime
  <2> QED BY <1>d, <2>1, BoxKeptFact, TruthRule DEF Like
<1>4. CASE StartReuse(p)
  <2>1. pc[p].at = "s_reuse" /\ UNCHANGED rt
    BY <1>4 DEF StartReuse
  <2>2. box' \in {box, NoBox, [box EXCEPT !.up = TRUE]}
    BY <1>4 DEF StartReuse, ResumeContainer, DeleteContainer
  <2>3. BoxKept
    BY <2>2, BoxKeptFact
  <2>4. CASE Goto(p, "s_create")
    BY <1>d, <2>1, <2>3, <2>4, TruthRule DEF Like
  <2>5. CASE Goto(p, "s_run") /\ SameBuild(p)
    <3>1. pc'[p].at = "s_run" /\ pc'[p].r = pc[p].r /\ pc'[p].w = pc[p].w
      BY <1>d, <2>5
    <3>2. TruthOf(pc[p].r, box)
      BY <2>1 DEF Truthful
    <3>3. TruthOf(pc[p].r, box') /\ TruthOf(rt, box')
      BY <1>a, <2>3, <3>2 DEF BoxKept, Truthful
    <3>4. MadeFor(pc'[p].r, pc'[p].w.cfg, box')
      BY <2>5, <3>1, <3>3 DEF MadeFor, TruthOf, SameBuild
    <3>5. \A q \in Callers \ {p} : pc'[q] = pc[q] /\ pc[q].r \in Runtimes /\ pc[q].r.ref <= made
      BY HoldsFact DEF Others
    <3>6. \A q \in Callers \ {p} :
              IF pc'[q].at = "s_run" THEN MadeFor(pc'[q].r, pc'[q].w.cfg, box') ELSE TruthOf(pc'[q].r, box')
      BY <2>3, <3>5 DEF Truthful, BoxKept
    <3> QED BY <2>1, <3>1, <3>3, <3>4, <3>6 DEF Truthful
  <2> QED BY <1>4, <2>4, <2>5 DEF StartReuse
<1>5. CASE StartCreate(p)
  <2> DEFINE cfg == pc[p].w.cfg
             r == [pc[p].r EXCEPT !.ref = made + 1, !.rev = Reusable(cfg)]
  <2>1. /\ UNCHANGED rt /\ box' = [id |-> made + 1, up |-> TRUE, cfg |-> cfg, rev |-> Reusable(cfg)]
        /\ GotoWith(p, "s_run", pc[p].w, r)
    BY <1>5 DEF StartCreate, CreateContainer
  <2>2. pc'[p].at = "s_run" /\ pc'[p].r = r /\ pc'[p].w = pc[p].w
    BY <1>e, <2>1
  <2>3. r.rev = Reusable(cfg)
    BY <1>a DEF Runtimes
  <2> HIDE DEF r, cfg
  <2>4. MadeFor(pc'[p].r, pc'[p].w.cfg, box')
    BY <2>1, <2>2, <2>3 DEF MadeFor, cfg
  <2>5. BoxKept
    BY <2>1, BoxKeptFact
  <2>6. TruthOf(rt, box')
    BY <1>a, <2>5 DEF BoxKept, Truthful
  <2>7. \A q \in Callers \ {p} : pc'[q] = pc[q] /\ pc[q].r \in Runtimes /\ pc[q].r.ref <= made
    BY HoldsFact DEF Others
  <2>8. \A q \in Callers \ {p} :
            IF pc'[q].at = "s_run" THEN MadeFor(pc'[q].r, pc'[q].w.cfg, box') ELSE TruthOf(pc'[q].r, box')
    BY <2>5, <2>7 DEF Truthful, BoxKept
  <2> QED BY <2>1, <2>2, <2>4, <2>6, <2>8 DEF Truthful
<1>6. CASE StartRunning(p)
  <2> DEFINE r == MarkRunning(pc[p].r, pc[p].w.cfg)
  <2>1. rt' \in {rt, r} /\ UNCHANGED box /\ pc[p].at = "s_run" /\ GotoWith(p, "w_save", pc[p].w, r)
    BY <1>6 DEF StartRunning, SaveRuntime
  <2>2. r.ref = pc[p].r.ref /\ r.rev = pc[p].r.rev /\ r.cfg = pc[p].w.cfg
    BY <1>a DEF MarkRunning, Runtimes
  <2> HIDE DEF r
  <2>3. TruthOf(r, box)
    BY <2>1, <2>2 DEF Truthful, MadeFor, TruthOf
  <2>4. pc'[p].at = "w_save" /\ pc'[p].r = r
    BY <1>e, <2>1
  <2>5. \A q \in Callers \ {p} : pc'[q] = pc[q]
    BY DEF Others
  <2> QED BY <2>1, <2>3, <2>4, <2>5 DEF Truthful
<1>7. CASE WorkspaceSave(p)
  <2>1. pc[p].at = "w_save" /\ UNCHANGED <<rt, box>> /\ Return(p, pc[p].r)
    BY <1>7 DEF WorkspaceSave
  <2> QED BY <1>a, <1>c, <2>1, BoxKeptFact, TruthRule DEF Like
<1> QED BY <1>1, <1>2, <1>3, <1>4, <1>5, <1>6, <1>7 DEF StartSteps

\* A step that ends a call, or goes on with the copy p has or with the row.
LEMMA PlainTruth ==
    ASSUME Typed, Truthful, NEW p \in Callers, Others(p), BoxKept, Like(rt', rt) \/ rt'.ref = 0 \/ Like(rt', pc[p].r),
           pc[p].at # "s_run",
           \/ \E r \in Runtimes : /\ r = NoRuntime \/ Like(r, rt) \/ Like(r, pc[p].r)
                                  /\ Return(p, r) \/ RaiseError(p)
           \/ \E step \in Steps \ {"s_run"} : Goto(p, step)
           \/ \E step \in Steps \ {"s_run"}, w \in Workspaces, r \in Runtimes :
                  GotoWith(p, step, w, r) /\ (r = NoRuntime \/ Like(r, rt) \/ Like(r, pc[p].r))
    PROVE  Truthful'
<1>1. NoRuntime.ref = 0 /\ Called /\ pc[p].r \in Runtimes
  BY HoldsFact
<1>2. ASSUME NEW r \in Runtimes, r = NoRuntime \/ Like(r, rt) \/ Like(r, pc[p].r), Return(p, r) \/ RaiseError(p)
      PROVE  pc'[p].at # "s_run" /\ (pc'[p].r.ref = 0 \/ Like(pc'[p].r, rt) \/ Like(pc'[p].r, pc[p].r))
  BY <1>1, <1>2, ReturnFact, RaiseFact DEF Moves, Like
<1>3. ASSUME NEW step \in Steps \ {"s_run"}, Goto(p, step) PROVE pc'[p].at # "s_run" /\ Like(pc'[p].r, pc[p].r)
  BY <1>1, <1>3, GotoFact DEF Moves, Like
<1>4. ASSUME NEW step \in Steps \ {"s_run"}, NEW w \in Workspaces, NEW r \in Runtimes, GotoWith(p, step, w, r),
             r = NoRuntime \/ Like(r, rt) \/ Like(r, pc[p].r)
      PROVE  pc'[p].at # "s_run" /\ (pc'[p].r.ref = 0 \/ Like(pc'[p].r, rt) \/ Like(pc'[p].r, pc[p].r))
  BY <1>1, <1>4, GotoWithFact DEF Moves, Like
<1> QED BY <1>2, <1>3, <1>4, TruthRule

\* The changes of state say nothing new of the container.
LEMMA LikeFact ==
    ASSUME NEW r \in Runtimes
    PROVE  /\ Like(r, r) /\ Like(BeginStop(r), r) /\ Like(MarkStopped(r), r) /\ Like(MarkFailed(r), r)
           /\ BeginStop(r) \in Runtimes /\ MarkStopped(r) \in Runtimes /\ MarkFailed(r) \in Runtimes
BY DEF Like, BeginStop, MarkStopped, MarkFailed, Runtimes, RuntimeStates

LEMMA StopTruth ==
    ASSUME Typed, Truthful, NEW p \in Callers, Others(p), NEW active, StopSteps(p, active)
    PROVE  Truthful'
<1>a. /\ pc[p].r \in Runtimes /\ pc[p].w \in Workspaces /\ rt \in Runtimes /\ ws \in Workspaces
  BY HoldsFact
<1>b. {"p_save", "p_stop", "p_done", "p_touch", "s_read"} \subseteq Steps \ {"s_run"}
  BY DEF Steps, PlainAts, LifeAts, StartAts
<1>c. pc[p].at # "s_run" /\ (UNCHANGED box => BoxKept)
  BY BoxKeptFact DEF StopSteps, StopRead, StopSave, StopProvider, StopDone, StopTouch
<1>1. CASE StopRead(p, active)
  <2>1. UNCHANGED <<box, rt>> /\ (Goto(p, "s_read") \/ RaiseError(p) \/ GotoWith(p, "p_save", ws, BeginStop(rt)))
    BY <1>1 DEF StopRead, Store
  <2> QED BY <1>a, <1>b, <1>c, <2>1, LikeFact, PlainTruth
<1>2. CASE StopSave(p)
  <2>1. UNCHANGED box /\ rt' \in {rt, pc[p].r} /\ Goto(p, "p_stop")
    BY <1>2 DEF StopSave, SaveRuntime
  <2> QED BY <1>a, <1>b, <1>c, <2>1, LikeFact, PlainTruth
<1>3. CASE StopProvider(p)
  <2>1. box' \in {box, [box EXCEPT !.up = FALSE]} /\ rt' = rt /\ Goto(p, "p_done")
    BY <1>3 DEF StopProvider, StopContainer
  <2> QED BY <1>a, <1>b, <1>c, <2>1, LikeFact, BoxKeptFact, PlainTruth
<1>4. CASE StopDone(p)
  <2>1. UNCHANGED box /\ rt' \in {rt, MarkStopped(pc[p].r)} /\ GotoWith(p, "p_touch", pc[p].w, MarkStopped(pc[p].r))
    BY <1>4 DEF StopDone, SaveRuntime
  <2> QED BY <1>a, <1>b, <1>c, <2>1, LikeFact, PlainTruth
<1>5. CASE StopTouch(p)
  <2>1. UNCHANGED <<box, rt>> /\ (Goto(p, "s_read") \/ Return(p, pc[p].r))
    BY <1>5 DEF StopTouch
  <2> QED BY <1>a, <1>b, <1>c, <2>1, LikeFact, PlainTruth
<1> QED BY <1>1, <1>2, <1>3, <1>4, <1>5 DEF StopSteps

LEMMA LifecycleTruth ==
    ASSUME Typed, Truthful, NEW p \in Callers, Others(p), LifecycleSteps(p)
    PROVE  Truthful'
<1>a. /\ pc[p].r \in Runtimes /\ rt \in Runtimes /\ ws \in Workspaces /\ NoRuntime \in Runtimes /\ pc[p].arg \in Values
  BY HoldsFact
<1>b. {"w_save", "d_mark", "d_runtime", "d_box", "d_volume", "d_revs", "d_row"} \subseteq Steps \ {"s_run"}
  BY DEF Steps, PlainAts, LifeAts, StartAts
<1>c. pc[p].at # "s_run" /\ rt' \in {rt, NoRuntime} /\ NoRuntime.ref = 0
  BY HoldsFact, IdleFact DEF LifecycleSteps, UpdateRead, RetireRead, DeleteRead, DeleteMark, DeleteLookup, DeleteBox, DeleteState,
     DeleteSlot, DeleteRuntimeRow, Store
<1>1. CASE UpdateRead(p) \/ RetireRead(p) \/ DeleteRead(p)
  <2>1. Reconfigured(ws, pc[p].arg) \in Workspaces
    BY <1>a DEF Reconfigured, Workspaces
  <2>2. \A state \in {"ARCHIVED", "ACTIVE", "DELETING"} : [ws EXCEPT !.state = state] \in Workspaces
    BY <1>a DEF Workspaces, WorkspaceStates
  <2>3. UNCHANGED box
    BY <1>1 DEF UpdateRead, RetireRead, DeleteRead, Store
  <2>4. RaiseError(p) \/ \E step \in {"w_save", "d_mark"}, w \in Workspaces : GotoWith(p, step, w, NoRuntime)
    BY <1>1, <2>1, <2>2 DEF UpdateRead, RetireRead, DeleteRead
  <2> QED BY <1>a, <1>b, <1>c, <2>3, <2>4, LikeFact, BoxKeptFact, PlainTruth
<1>2. CASE DeleteMark(p)
  <2>1. UNCHANGED box /\ Goto(p, "d_runtime")
    BY <1>2 DEF DeleteMark
  <2> QED BY <1>a, <1>b, <1>c, <2>1, LikeFact, BoxKeptFact, PlainTruth
<1>3. CASE DeleteBox(p)
  <2>1. box' \in {box, NoBox} /\ (Goto(p, "d_volume") \/ RaiseError(p))
    BY <1>3 DEF DeleteBox, DeleteContainer
  <2> QED BY <1>a, <1>b, <1>c, <2>1, LikeFact, BoxKeptFact, PlainTruth
<1>4. CASE DeleteLookup(p)
  <2>1. UNCHANGED box /\ \E step \in {"d_volume", "d_box"} : GotoWith(p, step, pc[p].w, rt)
    BY <1>4 DEF DeleteLookup, Store
  <2> QED BY <1>a, <1>b, <1>c, <2>1, HoldsFact, LikeFact, BoxKeptFact, PlainTruth
<1>5. CASE DeleteState(p) \/ DeleteSlot(p)
  <2>1. UNCHANGED box /\ \E step \in {"d_revs", "d_row"} : Goto(p, step)
    BY <1>5 DEF DeleteState, DeleteSlot
  <2> QED BY <1>a, <1>b, <1>c, <2>1, LikeFact, BoxKeptFact, PlainTruth
<1> QED BY <1>1, <1>2, <1>3, <1>4, <1>5 DEF LifecycleSteps

LEMMA FaultTruth ==
    ASSUME Typed, Truthful, NEW p \in Callers, Others(p), ProviderFaults(p)
    PROVE  Truthful'
<1>a. pc[p].r \in Runtimes /\ rt \in Runtimes /\ NoRuntime \in Runtimes
  BY HoldsFact
<1>b. pc[p].at # "s_run" /\ RaiseError(p) /\ rt' \in {rt, MarkFailed(pc[p].r)}
  BY DEF ProviderFaults, StartError, StartTimeout, StopError, StopTimeout, SaveRuntime
<1>c. box' \in {box, [box EXCEPT !.up = TRUE]} \/ box'.id = made + 1
  BY DEF ProviderFaults, StartError, StartTimeout, StopError, StopTimeout, ResumeContainer, CreateContainer
<1> QED BY <1>a, <1>b, <1>c, LikeFact, BoxKeptFact, PlainTruth

\* A caller begins or dies.
LEMMA FreshTruth ==
    ASSUME Typed, Truthful, NEW p \in Callers, Others(p), pc'[p].at # "s_run", pc'[p].r.ref = 0, UNCHANGED <<rt, box>>
    PROVE  Truthful'
BY BoxKeptFact, TruthRule DEF Like

LEMMA RuntimeTruth ==
    ASSUME Typed, Truthful, NEW p \in Callers, RuntimeSteps(p)
    PROVE  Truthful'
<1>1. Others(p)
  BY RuntimeTyped
<1>2. CASE RequestCrash(p)
  <2>1. pc'[p] = Idle /\ UNCHANGED <<rt, box>>
    BY <1>2, HoldsFact DEF RequestCrash, Called, Store
  <2> QED BY <1>1, <2>1, IdleFact, FreshTruth
<1>3. CASE Endpoints(p)
  <2>1. PICK step \in {"u_read", "a_read", "d_read", "s_read", "p_read"} : \E op, arg : Begin(p, op, arg, step)
    BY <1>3 DEF Endpoints, UpdateEndpoint, ArchiveEndpoint, ReactivateEndpoint, DeleteEndpoint,
       StartEndpoint, StopEndpoint, RestartEndpoint
  <2>2. UNCHANGED <<rt, box>> /\ pc'[p].at = step /\ pc'[p].r = NoRuntime
    BY <2>1, BeginAt DEF Typed
  <2> QED BY <1>1, <2>1, <2>2, IdleFact, FreshTruth
<1> QED BY <1>1, <1>2, <1>3, StartTruth, StopTruth, LifecycleTruth, FaultTruth DEF RuntimeSteps

LEMMA RequestTruth ==
    ASSUME Typed, Truthful, NEW p \in Requests, RequestSteps(p)
    PROVE  Truthful'
<1>a. /\ p \in Callers /\ Others(p)
  BY RequestTyped DEF Callers
<1>b. /\ pc[p].r \in Runtimes /\ rt \in Runtimes /\ ws \in Workspaces /\ NoRuntime \in Runtimes /\ Called
      /\ Like(rt, rt) /\ Like(pc[p].r, pc[p].r)
  BY <1>a, HoldsFact, LikeFact
<1>c. {"x_check", "x_insert", "x_touch", "x_publish", "x_fail", "c_save", "e_create", "e_publish", "e_fail", "f_write"}
          \subseteq Steps \ {"s_run"}
  BY DEF Steps, PlainAts, SubmitAts, SaveAts, CancelAts
<1>1. CASE \/ \E key \in Keys : SubmitEndpoint(p, key)
           \/ \E e \in DOMAIN exs : CancelEndpoint(p, e)
           \/ SaveEnvironmentEndpoint(p) \/ WriteFileEndpoint(p) \/ DeleteFileEndpoint(p)
  <2>1. PICK step \in {"x_read", "c_read", "e_read", "f_check", "f_delete"} : \E op, arg : Begin(p, op, arg, step)
    BY <1>1 DEF SubmitEndpoint, CancelEndpoint, SaveEnvironmentEndpoint, WriteFileEndpoint, DeleteFileEndpoint
  <2>2. UNCHANGED <<rt, box>> /\ pc'[p].at = step /\ pc'[p].r = NoRuntime
    BY <1>a, <1>b, <2>1, BeginAt
  <2> QED BY <1>a, <2>1, <2>2, IdleFact, FreshTruth
<1>2. ASSUME UNCHANGED <<rt, box>>, pc[p].at # "s_run",
             \/ Return(p, NoRuntime) \/ RaiseError(p)
             \/ \E step \in {"x_insert", "x_touch", "x_publish", "x_fail", "c_save", "e_publish", "e_fail"} : Goto(p, step)
             \/ \E step \in {"x_check", "e_create", "f_write"}, r \in {NoRuntime, rt} : GotoWith(p, step, ws, r)
      PROVE  Truthful'
  <2>1. BoxKept
    BY <1>2, BoxKeptFact
  <2>2. CASE Return(p, NoRuntime) \/ RaiseError(p)
    BY <1>2, <1>a, <1>b, <2>1, <2>2, PlainTruth
  <2>3. CASE \E step \in {"x_insert", "x_touch", "x_publish", "x_fail", "c_save", "e_publish", "e_fail"} : Goto(p, step)
    BY <1>2, <1>a, <1>b, <1>c, <2>1, <2>3, PlainTruth
  <2>4. CASE \E step \in {"x_check", "e_create", "f_write"}, r \in {NoRuntime, rt} : GotoWith(p, step, ws, r)
    BY <1>2, <1>a, <1>b, <1>c, <2>1, <2>4, PlainTruth
  <2> QED BY <1>2, <2>2, <2>3, <2>4
<1>3. CASE SubmitRead(p) \/ SubmitInvalid(p) \/ SubmitCheck(p) \/ CancelRead(p) \/ SaveEnvironmentRead(p)
  BY <1>2, <1>3 DEF SubmitRead, SubmitInvalid, SubmitCheck, CancelRead, SaveEnvironmentRead, Store
<1>4. CASE SubmitInsert(p) \/ SubmitTouch(p) \/ SubmitPublish(p) \/ SubmitFail(p) \/ CancelSave(p)
  BY <1>2, <1>4 DEF SubmitInsert, SubmitTouch, SubmitPublish, SubmitFail, CancelSave, Store
<1>5. CASE SaveEnvironmentCreate(p) \/ SaveEnvironmentPublish(p) \/ SaveEnvironmentFail(p)
  BY <1>2, <1>5 DEF SaveEnvironmentCreate, SaveEnvironmentPublish, SaveEnvironmentFail, Store
<1>6. CASE WriteFileCheck(p) \/ WriteFile(p) \/ DeleteFile(p)
  BY <1>2, <1>6 DEF WriteFileCheck, WriteFile, DeleteFile, Store
<1> QED BY <1>1, <1>3, <1>4, <1>5, <1>6 DEF RequestSteps

LEMMA WorkerTruth ==
    ASSUME Typed, Truthful, NEW w \in Workers, WorkerSteps(w)
    PROVE  Truthful'
<1>a. w \in Callers /\ Others(w)
  BY WorkerTyped DEF Callers
<1>b. /\ pc[w].r \in Runtimes /\ rt \in Runtimes /\ pc[w].w \in Workspaces /\ Called
      /\ Like(rt, rt) /\ Like(pc[w].r, pc[w].r)
  BY <1>a, HoldsFact, LikeFact
<1>c. ExecAts \cup SnapAts \cup EndAts \subseteq Steps
  BY ApartFact
<1>1. CASE Fetch(w)
  <2>1. UNCHANGED <<rt, box>> /\ \E step \in {"h_read", "v_read"} : pc'[w] = [Idle EXCEPT !.at = step]
    BY <1>1, <1>a, <1>b DEF Fetch, Store, Called
  <2>2. pc'[w].at # "s_run" /\ pc'[w].r.ref = 0
    BY <2>1, IdleFact DEF Calls
  <2> QED BY <1>a, <2>1, <2>2, FreshTruth
<1>2. CASE Acknowledge(w) \/ HandlerRaised(w) \/ WorkerCrash(w)
  <2>1. UNCHANGED <<rt, box>> /\ pc'[w] = Idle
    BY <1>2, <1>a, <1>b DEF Acknowledge, HandlerRaised, WorkerCrash, Store, Called
  <2> QED BY <1>a, <2>1, IdleFact, FreshTruth
<1>3. CASE Sweep(w) \/ Overrun(w)
  BY <1>3 DEF Sweep, Overrun, Store, Truthful
<1>4. ASSUME UNCHANGED <<rt, box>>, pc[w].at # "s_run",
             \/ \E step \in {"h_owner", "s_read", "ack", "raised", "h_claim", "h_save", "h_run", "h_check", "v_fail", "v_commit",
                             "v_ready", "v_prune"} : Goto(w, step)
             \/ GotoWith(w, "v_build", pc[w].w, rt)
      PROVE  Truthful'
  <2>1. BoxKept
    BY <1>4, BoxKeptFact
  <2>2. {"h_owner", "s_read", "ack", "raised", "h_claim", "h_save", "h_run", "h_check", "v_fail", "v_commit", "v_ready", "v_prune",
         "v_build"} \subseteq Steps \ {"s_run"}
    BY <1>c DEF ExecAts, SnapAts, EndAts, StartAts
  <2>3. CASE GotoWith(w, "v_build", pc[w].w, rt)
    BY <1>4, <1>a, <1>b, <2>1, <2>2, <2>3, PlainTruth
  <2>4. CASE \E step \in Steps \ {"s_run"} : Goto(w, step)
    BY <1>4, <1>a, <1>b, <2>1, <2>4, PlainTruth
  <2> QED BY <1>4, <2>2, <2>3, <2>4
<1>5. CASE \/ ExecutionRead(w) \/ ExecutionOwner(w) \/ RuntimeStarted(w) \/ ClaimExecution(w) \/ Execute(w) \/ ExecuteError(w)
           \/ ExecutionReread(w) \/ ExecutionWrite(w)
  <2>1. UNCHANGED <<rt, box>> /\ pc[w].at # "s_run"
    BY <1>5 DEF ExecutionRead, ExecutionOwner, RuntimeStarted, ClaimExecution, Execute, ExecuteError, ExecutionReread, ExecutionWrite, Store
  <2>2. \E step \in {"h_owner", "s_read", "ack", "raised", "h_claim", "h_save", "h_run", "h_check"} : Goto(w, step)
    BY <1>5 DEF ExecutionRead, ExecutionOwner, RuntimeStarted, ClaimExecution, Execute, ExecuteError, ExecutionReread, ExecutionWrite, WorkGoto
  <2> QED BY <1>4, <2>1, <2>2
<1>6. CASE \/ SnapshotRead(w) \/ SnapshotBuilding(w) \/ CreateSnapshot(w) \/ SnapshotReady(w)
           \/ SnapshotFailed(w) \/ PruneRevisions(w)
  <2>1. UNCHANGED <<rt, box>> /\ pc[w].at # "s_run"
    BY <1>6 DEF SnapshotRead, SnapshotBuilding, CreateSnapshot, SnapshotReady, SnapshotFailed, PruneRevisions, Store
  <2>2. \/ \E step \in {"ack", "raised", "v_fail", "v_commit", "v_ready", "v_prune"} : Goto(w, step)
        \/ GotoWith(w, "v_build", pc[w].w, rt)
    BY <1>6 DEF SnapshotRead, SnapshotBuilding, CreateSnapshot, SnapshotReady, SnapshotFailed, PruneRevisions
  <2> QED BY <1>4, <2>1, <2>2
<1> QED BY <1>1, <1>2, <1>3, <1>5, <1>6 DEF WorkerSteps

LEMMA InitTruth == ExecutionInit => Truthful
BY IdleFact DEF ExecutionInit, Init, Truthful, TruthOf, NoRuntime

LEMMA NextTruth == Typed /\ Truthful /\ [Next]_vars => Truthful'
<1> SUFFICES ASSUME Typed, Truthful, [Next]_vars PROVE Truthful'
  OBVIOUS
<1>1. ASSUME UNCHANGED <<rt, box, pc>> PROVE Truthful'
  BY <1>1 DEF Truthful
<1>2. ASSUME NEW cfg \in Configs, CreateWorkspace(cfg) PROVE Truthful'
  BY <1>1, <1>2 DEF CreateWorkspace
<1>3. CASE UNCHANGED vars
  BY <1>1, <1>3 DEF vars
<1>4. ASSUME NEW p \in Callers, DeleteTables(p) PROVE Truthful'
  <2>1. Others(p) /\ BoxKept /\ rt' \in {rt, NoRuntime} /\ pc[p].at # "s_run"
    BY <1>4, DeleteTyped, DeleteRowsFact, BoxKeptFact
  <2>2. Return(p, NoRuntime) \/ \E step \in {"d_execs", "d_slot"} : Goto(p, step)
    BY <1>4, DeleteRowsFact
  <2>3. {"d_execs", "d_slot"} \subseteq Steps \ {"s_run"} /\ rt \in Runtimes
    BY HoldsFact DEF Steps, PlainAts, LifeAts, StartAts
  <2> QED BY <1>4, <2>1, <2>2, <2>3, IdleFact, LikeFact, PlainTruth
<1> QED BY <1>2, <1>3, <1>4, RuntimeTruth, RequestTruth, WorkerTruth DEF Next

------------------------------------------------------------------------------
(* Snapshots within the retention *)

LEMMA ReadyFact ==
    ASSUME NEW s \in Seq(Revisions), NEW S, S = {v \in DOMAIN s : s[v].st = "READY"}
    PROVE  IsFiniteSet(S) /\ S \subseteq Nat /\ Cardinality(S) \in Nat
<1>1. S \subseteq 1 .. Len(s) /\ Len(s) \in Nat
  OBVIOUS
<1>2. IsFiniteSet(1 .. Len(s))
  BY <1>1, FS_Interval
<1>3. IsFiniteSet(S)
  <2> DEFINE I == 1 .. Len(s)
  <2>1. S \subseteq I /\ IsFiniteSet(I)
    BY <1>1, <1>2
  <2> HIDE DEF I
  <2> QED BY <2>1, FS_Subset
<1>4. Cardinality(S) \in Nat
  BY <1>3, FS_CardinalityType
<1>5. S \subseteq Nat
  BY <1>1
<1> QED BY <1>3, <1>4, <1>5

\* A snapshot that is given another status is not READY.
LEMMA StatusFact ==
    ASSUME NEW s \in Seq(Revisions), NEW id, NEW state \in {"BUILDING", "FAILED", "DELETED"},
           NEW t, t = [s EXCEPT ![id].st = state]
    PROVE  \A v \in DOMAIN t : t[v].st = "READY" => v \in DOMAIN s /\ s[v].st = "READY"
<1> SUFFICES ASSUME NEW v \in DOMAIN t, t[v].st = "READY" PROVE s[v].st = "READY"
  OBVIOUS
<1>1. s[v] \in Revisions /\ v \in DOMAIN s
  OBVIOUS
<1>2. CASE v = id
  BY <1>1, <1>2 DEF Revisions
<1>3. CASE v # id
  BY <1>3
<1> QED BY <1>2, <1>3

\* A step that makes no snapshot READY and takes nobody away from its pruning.
LEMMA PruneRule ==
    ASSUME Typed, Typed', SnapshotsBounded, NEW p \in Callers, Others(p), faults > 0 => faults' > 0,
           \A v \in DOMAIN revs' : revs'[v].st = "READY" => v \in DOMAIN revs /\ revs[v].st = "READY",
           p \in Workers /\ pc[p].at = "v_prune" => faults' > 0 \/ pc'[p].at = "v_prune"
    PROVE  SnapshotsBounded'
<1>1. revs \in Seq(Revisions) /\ revs' \in Seq(Revisions)
  BY DEF Typed, Stored, Kept
<1> DEFINE R == ReadyRevisions
           S == {v \in DOMAIN revs' : revs'[v].st = "READY"}
<1>2. S \subseteq R /\ IsFiniteSet(R) /\ R \subseteq Nat
  BY <1>1, ReadyFact DEF ReadyRevisions
<1>3. Cardinality(S) <= Cardinality(R) /\ Cardinality(S) \in Nat /\ Cardinality(R) \in Nat
  <2> HIDE DEF R, S
  <2> QED BY <1>2, FS_Subset, FS_CardinalityType
<1>4. SUFFICES ASSUME Cardinality(S) > Retention PROVE faults' > 0 \/ \E w \in Workers : pc'[w].at = "v_prune"
  BY DEF SnapshotsBounded, ReadyRevisions
<1>5. Cardinality(R) > Retention
  <2> HIDE DEF R, S
  <2> QED BY <1>3, <1>4, RuntimeAssumption DEF RuntimeAssumption
<1>6. faults > 0 \/ \E w \in Workers : pc[w].at = "v_prune"
  BY <1>5 DEF SnapshotsBounded
<1>7. ASSUME NEW w \in Workers, pc[w].at = "v_prune" PROVE faults' > 0 \/ pc'[w].at = "v_prune"
  BY <1>7 DEF Others, Callers
<1> QED BY <1>6, <1>7

LEMMA RuntimePruned ==
    ASSUME Typed, Typed', SnapshotsBounded, NEW p \in Callers, RuntimeSteps(p)
    PROVE  SnapshotsBounded'
<1>1. RuntimeMoves(p) /\ RuntimeKeeps /\ Others(p)
  BY RuntimeStep, RuntimeTyped
<1>2. faults \in Nat /\ faults' \in Nat /\ faults <= faults' /\ revs' = revs
  BY <1>1 DEF RuntimeKeeps, Kept, Typed, Stored
<1>3. p \in Workers => pc[p].at # "v_prune"
  BY <1>1 DEF RuntimeMoves, StartAts
<1> QED BY <1>1, <1>2, <1>3, PruneRule

LEMMA RequestPruned ==
    ASSUME Typed, Typed', SnapshotsBounded, NEW p \in Requests, RequestSteps(p)
    PROVE  SnapshotsBounded'
<1>a. Others(p) /\ p \in Callers /\ p \notin Workers /\ faults \in Nat /\ revs \in Seq(Revisions)
  BY RequestTyped, CallerFact DEF Callers, Typed, Stored, Kept
<1>b. faults' \in {faults, faults + 1}
  BY DEF RequestSteps, SubmitEndpoint, CancelEndpoint, SaveEnvironmentEndpoint, WriteFileEndpoint, DeleteFileEndpoint,
     Begin, SubmitRead, SubmitInvalid, SubmitCheck, SubmitInsert, SubmitTouch, SubmitPublish, SubmitFail, CancelRead,
     CancelSave, SaveEnvironmentRead, SaveEnvironmentCreate, SaveEnvironmentPublish, SaveEnvironmentFail,
     WriteFileCheck, WriteFile, DeleteFile, Fault, NoFault
<1>c. ASSUME \A v \in DOMAIN revs' : revs'[v].st = "READY" => v \in DOMAIN revs /\ revs[v].st = "READY"
      PROVE  SnapshotsBounded'
  BY <1>a, <1>b, <1>c, PruneRule
<1>1. CASE SaveEnvironmentCreate(p)
  <2>1. revs' = revs \/ revs' = Append(revs, [st |-> "PENDING", cfg |-> pc[p].w.cfg, img |-> NoConfig])
    BY <1>1 DEF SaveEnvironmentCreate, InsertRevision
  <2> QED BY <1>a, <1>c, <2>1
<1>2. CASE SaveEnvironmentFail(p)
  <2>1. revs' = revs \/ revs' = [revs EXCEPT ![task[p].id].st = "FAILED"]
    BY <1>2 DEF SaveEnvironmentFail, SaveRevision
  <2>2. \A v \in DOMAIN revs' : revs'[v].st = "READY" => v \in DOMAIN revs /\ revs[v].st = "READY"
    BY <1>a, <2>1, StatusFact
  <2> QED BY <1>c, <2>2
<1>3. CASE ~(SaveEnvironmentCreate(p) \/ SaveEnvironmentFail(p))
  <2>1. revs' = revs
    BY <1>3 DEF RequestSteps, SubmitEndpoint, CancelEndpoint, SaveEnvironmentEndpoint, WriteFileEndpoint,
       DeleteFileEndpoint, Begin, SubmitRead, SubmitInvalid, SubmitCheck, SubmitInsert, SubmitTouch, SubmitPublish,
       SubmitFail, CancelRead, CancelSave, SaveEnvironmentRead, SaveEnvironmentPublish, WriteFileCheck, WriteFile,
       DeleteFile, Store
  <2> QED BY <1>c, <2>1
<1> QED BY <1>1, <1>2, <1>3

\* After a pruning no more than the retention is left.
LEMMA PruneFact ==
    ASSUME revs \in Seq(Revisions), revs' \in Seq(Revisions),
           revs' = [v \in DOMAIN revs |-> IF v \in Surplus THEN [revs[v] EXCEPT !.st = "DELETED"] ELSE revs[v]]
    PROVE  Cardinality({v \in DOMAIN revs' : revs'[v].st = "READY"}) <= Retention
<1> DEFINE R == ReadyRevisions
           S == {v \in DOMAIN revs' : revs'[v].st = "READY"}
           K == {v \in R : ~(Cardinality({u \in R : u > v}) >= Retention)}
<1>1. IsFiniteSet(R) /\ R \subseteq Nat /\ Retention \in Nat \ {0}
  BY ReadyFact, RuntimeAssumption DEF RuntimeAssumption, ReadyRevisions
<1>2. Cardinality(K) <= Retention
  <2> HIDE DEF R
  <2> QED BY <1>1, KeptBound
<1>3. S = K
  <2>1. ASSUME NEW v \in DOMAIN revs, v \in Surplus PROVE revs'[v].st = "DELETED"
    <3>1. revs[v] \in Revisions /\ revs'[v] = [revs[v] EXCEPT !.st = "DELETED"]
      BY <2>1
    <3> QED BY <3>1 DEF Revisions
  <2>2. \A v \in DOMAIN revs : v \notin Surplus => revs'[v] = revs[v]
    OBVIOUS
  <2>3. DOMAIN revs' = DOMAIN revs
    OBVIOUS
  <2>4. S = R \ Surplus
    BY <2>1, <2>2, <2>3 DEF Surplus, ReadyRevisions
  <2>5. K = R \ Surplus
    BY DEF Surplus
  <2> QED BY <2>4, <2>5
<1> QED BY <1>2, <1>3

LEMMA WorkerPruned ==
    ASSUME Typed, Typed', SnapshotsBounded, NEW w \in Workers, WorkerSteps(w)
    PROVE  SnapshotsBounded'
<1>a. Others(w) /\ w \in Callers /\ faults \in Nat /\ faults' \in Nat /\ revs \in Seq(Revisions) /\ revs' \in Seq(Revisions)
  BY WorkerTyped DEF Callers, Typed, Stored, Kept
<1>b. faults' \in {faults, faults + 1}
  BY DEF WorkerSteps, Fetch, Acknowledge, HandlerRaised, Sweep, Overrun, WorkerCrash, ExecutionRead, ExecutionOwner, RuntimeStarted,
     ClaimExecution, Execute, ExecuteError, ExecutionReread, ExecutionWrite, SnapshotRead, SnapshotBuilding,
     CreateSnapshot, SnapshotReady, SnapshotFailed, PruneRevisions, Fault, NoFault
<1>c. ASSUME \A v \in DOMAIN revs' : revs'[v].st = "READY" => v \in DOMAIN revs /\ revs[v].st = "READY",
             pc[w].at # "v_prune" \/ faults' > 0
      PROVE  SnapshotsBounded'
  BY <1>a, <1>b, <1>c, PruneRule
<1>1. CASE SnapshotReady(w)
  <2>1. pc'[w].at = "v_prune"
    BY <1>1, <1>a, HoldsFact DEF SnapshotReady, Goto, Called, Calls
  <2> QED BY <2>1 DEF SnapshotsBounded
<1>2. CASE PruneRevisions(w)
  <2>1. CASE revs' = [v \in DOMAIN revs |-> IF v \in Surplus THEN [revs[v] EXCEPT !.st = "DELETED"] ELSE revs[v]]
    <3>1. Cardinality({v \in DOMAIN revs' : revs'[v].st = "READY"}) <= Retention
      BY <1>a, <2>1, PruneFact
    <3>2. Cardinality({v \in DOMAIN revs' : revs'[v].st = "READY"}) \in Nat /\ Retention \in Nat
      BY <1>a, RuntimeAssumption, ReadyFact DEF RuntimeAssumption
    <3> QED BY <3>1, <3>2 DEF SnapshotsBounded, ReadyRevisions
  <2>2. CASE revs' = revs /\ faults' > 0
    BY <2>2 DEF SnapshotsBounded
  <2> QED BY <1>2, <1>a, <2>1, <2>2 DEF PruneRevisions, Fault
<1>3. CASE SnapshotBuilding(w) \/ SnapshotFailed(w)
  <2>1. pc[w].at # "v_prune" /\ (revs' = revs \/ \E state \in {"BUILDING", "FAILED"} : revs' = [revs EXCEPT ![task[w].id].st = state])
    BY <1>3 DEF SnapshotBuilding, SnapshotFailed, SaveRevision
  <2>2. \A v \in DOMAIN revs' : revs'[v].st = "READY" => v \in DOMAIN revs /\ revs[v].st = "READY"
    BY <1>a, <2>1, StatusFact
  <2> QED BY <1>c, <2>1, <2>2
<1>4. CASE CreateSnapshot(w)
  <2>1. pc[w].at = "v_commit" /\ (revs' = revs \/ CommitContainer(task[w].id))
    BY <1>4 DEF CreateSnapshot
  <2>2. task[w].id \in DOMAIN revs
    BY <2>1, WorkerFact DEF SnapAts
  <2>3. \A v \in DOMAIN revs' : revs'[v].st = "READY" => v \in DOMAIN revs /\ revs[v].st = "READY"
    BY <1>a, <2>1, <2>2, CommitFact
  <2> QED BY <1>c, <2>1, <2>3
<1>5. CASE ~(SnapshotReady(w) \/ PruneRevisions(w) \/ SnapshotBuilding(w) \/ SnapshotFailed(w) \/ CreateSnapshot(w))
  <2>1. revs' = revs
    BY <1>5 DEF WorkerSteps, Fetch, Acknowledge, HandlerRaised, Sweep, Overrun, WorkerCrash, ExecutionRead,
       ExecutionOwner, RuntimeStarted, ClaimExecution, Execute, ExecuteError, ExecutionReread, ExecutionWrite, SnapshotRead, Store
  <2>2. pc[w].at # "v_prune" \/ faults' > 0
    BY <1>5, <1>a DEF WorkerSteps, Fetch, Acknowledge, HandlerRaised, Sweep, Overrun, WorkerCrash, ExecutionRead,
       ExecutionOwner, RuntimeStarted, ClaimExecution, Execute, ExecuteError, ExecutionReread, ExecutionWrite, SnapshotRead, Fault
  <2> QED BY <1>c, <2>1, <2>2
<1> QED BY <1>1, <1>2, <1>3, <1>4, <1>5

LEMMA InitPruned == ExecutionInit => SnapshotsBounded
<1> SUFFICES ASSUME ExecutionInit PROVE SnapshotsBounded
  OBVIOUS
<1>1. ReadyRevisions = {}
  BY DEF ExecutionInit, Init, ReadyRevisions
<1>2. Cardinality(ReadyRevisions) = 0
  BY <1>1, FS_EmptySet
<1> QED BY <1>2, RuntimeAssumption DEF SnapshotsBounded, RuntimeAssumption

LEMMA NextPruned == Typed /\ Typed' /\ SnapshotsBounded /\ [Next]_vars => SnapshotsBounded'
<1> SUFFICES ASSUME Typed, Typed', SnapshotsBounded, [Next]_vars PROVE SnapshotsBounded'
  OBVIOUS
<1>1. ASSUME UNCHANGED <<revs, pc, faults>> PROVE SnapshotsBounded'
  BY <1>1 DEF SnapshotsBounded, ReadyRevisions
<1>2. ASSUME NEW cfg \in Configs, CreateWorkspace(cfg) PROVE SnapshotsBounded'
  BY <1>1, <1>2 DEF CreateWorkspace
<1>3. CASE UNCHANGED vars
  BY <1>1, <1>3 DEF vars
<1>4. ASSUME NEW p \in Callers, DeleteTables(p) PROVE SnapshotsBounded'
  <2>1. Others(p) /\ p \in Requests /\ faults' = faults
    BY <1>4, DeleteTyped, DeleteRowsFact
  <2>2. \A v \in DOMAIN revs' : revs'[v].st = "READY" => v \in DOMAIN revs /\ revs[v].st = "READY"
    BY <1>4, DeleteRowsFact DEF Typed, Stored, Kept
  <2> QED BY <2>1, <2>2, CallerFact, PruneRule
<1> QED BY <1>2, <1>3, <1>4, RuntimePruned, RequestPruned, WorkerPruned DEF Next

------------------------------------------------------------------------------
(* Files within the quota *)

\* The requests that have passed the check of the quota and not yet written.
Writers == {p \in Requests : pc[p].at = "f_write"}

\* What is on the volume and what the writers will add exceeds the quota by
\* no more than QuotaHeld allows, and no request writes where nothing fits.
Budget ==
    /\ disk + Cardinality(Writers) <= Quota + blind + Cardinality(Requests) - 1
    /\ Writers # {} => Quota >= 1

LEMMA WritersFact ==
    ASSUME NEW W, W \subseteq Requests
    PROVE  /\ IsFiniteSet(W) /\ Cardinality(W) \in Nat /\ Cardinality(W) <= Cardinality(Requests)
           /\ Cardinality(Requests) \in Nat \ {0} /\ (W = {} => Cardinality(W) = 0)
<1>1. IsFiniteSet(Requests) /\ Requests # {}
  BY RuntimeAssumption DEF RuntimeAssumption
<1>2. Cardinality(Requests) \in Nat \ {0}
  BY <1>1, FS_CardinalityType, FS_EmptySet
<1>3. IsFiniteSet(W) /\ Cardinality(W) <= Cardinality(Requests)
  BY <1>1, FS_Subset
<1>4. Cardinality(W) \in Nat /\ (W = {} => Cardinality(W) = 0)
  BY <1>3, FS_CardinalityType, FS_EmptySet
<1> QED BY <1>2, <1>3, <1>4

\* A step that lets no request pass the check and writes no file.
LEMMA BudgetRule ==
    ASSUME Typed, Typed', Budget, NEW p \in Callers, Others(p),
           p \in Requests => pc'[p].at # "f_write", disk' <= disk \/ disk' = 0, blind' >= blind
    PROVE  Budget'
<1> DEFINE W == Writers
           V == {q \in Requests : pc'[q].at = "f_write"}
<1>1. V \subseteq W /\ W \subseteq Requests /\ V \subseteq Requests
  BY DEF Others, Callers, Writers
<1>2. /\ disk \in Nat /\ disk' \in Nat /\ blind \in Nat /\ blind' \in Nat /\ Quota \in Nat
  BY ExecutionAssumption DEF Typed, Stored, ExecutionAssumption
<1>3. /\ Cardinality(V) \in Nat /\ Cardinality(W) \in Nat /\ Cardinality(V) <= Cardinality(W)
      /\ Cardinality(V) <= Cardinality(Requests) /\ Cardinality(Requests) \in Nat \ {0}
      /\ V = {} => Cardinality(V) = 0
  <2> HIDE DEF V, W
  <2> QED BY <1>1, WritersFact, FS_Subset
<1>4. disk + Cardinality(W) <= Quota + blind + Cardinality(Requests) - 1 /\ (V # {} => Quota >= 1)
  BY <1>1 DEF Budget
<1>5. disk' + Cardinality(V) <= Quota + blind' + Cardinality(Requests) - 1
  <2> HIDE DEF V, W
  <2>1. CASE disk' <= disk
    BY <1>2, <1>3, <1>4, <2>1
  <2>2. CASE disk' = 0 /\ V = {}
    BY <1>2, <1>3, <2>2
  <2>3. CASE disk' = 0 /\ V # {}
    BY <1>2, <1>3, <1>4, <2>3
  <2> QED BY <2>1, <2>2, <2>3
<1> QED BY <1>4, <1>5 DEF Budget, Writers

LEMMA RuntimeBudget ==
    ASSUME Typed, Typed', Budget, NEW p \in Callers, RuntimeSteps(p)
    PROVE  Budget'
<1>1. RuntimeMoves(p) /\ disk' \in {disk, 0} /\ blind' = blind /\ Others(p)
  BY RuntimeStep, RuntimeTyped
<1>2. p \in Requests => pc'[p].at # "f_write"
  BY <1>1 DEF RuntimeMoves, Moves, LifeAts, StartAts
<1>3. disk' <= disk \/ disk' = 0
  BY <1>1 DEF Typed, Stored
<1>4. blind' >= blind
  BY <1>1 DEF Typed, Stored
<1> QED BY <1>1, <1>2, <1>3, <1>4, BudgetRule

\* The check of the quota: the incoming file fits into what was measured, or
\* nothing could be measured and the file is one that no check has seen.
LEMMA CheckBudget ==
    ASSUME Typed, Typed', Budget, NEW p \in Requests, Others(p), WriteFileCheck(p)
    PROVE  Budget'
<1>a. p \in Callers /\ disk \in Nat /\ blind \in Nat /\ Quota \in Nat /\ disk' = disk
  BY RequestFact, ExecutionAssumption DEF ExecutionAssumption, WriteFileCheck
<1>1. CASE RaiseError(p) /\ UNCHANGED blind
  <2>1. pc'[p].at = "idle"
    BY <1>1, <1>a, RaiseFact, CallerFact DEF Moves, Typed
  <2> QED BY <1>1, <1>a, <2>1, BudgetRule
<1>2. CASE WithinBudget(rt.ref) /\ blind' = IF Found(rt.ref) /\ box.up THEN blind ELSE blind + 1
  <2> DEFINE W == Writers
             V == {q \in Requests : pc'[q].at = "f_write"}
  <2>1. V \subseteq W \cup {p} /\ W \subseteq Requests /\ V \subseteq Requests
    BY DEF Others, Callers, Writers
  <2>2. /\ Cardinality(V) \in Nat /\ Cardinality(W) \in Nat /\ Cardinality(V) <= Cardinality(W) + 1
        /\ Cardinality(V) <= Cardinality(Requests) /\ Cardinality(Requests) \in Nat \ {0}
    <3> HIDE DEF V, W
    <3>1. IsFiniteSet(W) /\ Cardinality(W) \in Nat /\ Cardinality(V) \in Nat
      BY <2>1, WritersFact
    <3>2. IsFiniteSet(W \cup {p}) /\ Cardinality(W \cup {p}) \in {Cardinality(W), Cardinality(W) + 1}
      BY <3>1, FS_AddElement
    <3>3. Cardinality(V) <= Cardinality(W \cup {p})
      BY <2>1, <3>2, FS_Subset
    <3> QED BY <2>1, <3>1, <3>2, <3>3, WritersFact
  <2>3. Quota >= 1
    BY <1>2, <1>a DEF WithinBudget, Measured
  <2>4. disk + Cardinality(V) <= Quota + blind' + Cardinality(Requests) - 1
    <3>1. CASE Found(rt.ref) /\ box.up
      <4>1. disk + 1 <= Quota /\ blind' = blind
        BY <1>2, <3>1 DEF WithinBudget, Measured
      <4> HIDE DEF V, W
      <4> QED BY <1>a, <2>2, <4>1
    <3>2. CASE ~(Found(rt.ref) /\ box.up)
      <4>1. blind' = blind + 1 /\ disk + Cardinality(W) <= Quota + blind + Cardinality(Requests) - 1
        BY <1>2, <3>2 DEF Budget
      <4> HIDE DEF V, W
      <4> QED BY <1>a, <2>2, <4>1
    <3> QED BY <3>1, <3>2
  <2> QED BY <1>a, <2>3, <2>4 DEF Budget, Writers
<1> QED BY <1>1, <1>2 DEF WriteFileCheck

\* The write of a file that was checked.
LEMMA WriteBudget ==
    ASSUME Typed, Typed', Budget, NEW p \in Requests, Others(p), WriteFile(p)
    PROVE  Budget'
<1>a. /\ p \in Callers /\ disk \in Nat /\ blind \in Nat /\ Quota \in Nat /\ blind' = blind
      /\ disk' \in {disk, disk + 1}
  BY RequestFact, ExecutionAssumption DEF ExecutionAssumption, WriteFile, PutFile
<1>b. pc[p].at = "f_write" /\ pc'[p].at = "idle"
  BY <1>a, ReturnFact, CallerFact, IdleFact DEF Moves, Typed, WriteFile
<1> DEFINE W == Writers
           V == {q \in Requests : pc'[q].at = "f_write"}
<1>1. V = W \ {p} /\ p \in W /\ W \subseteq Requests
  BY <1>b DEF Others, Callers, Writers
<1>2. /\ Cardinality(W) \in Nat /\ Cardinality(V) = Cardinality(W) - 1 /\ Cardinality(Requests) \in Nat
  <2> HIDE DEF V, W
  <2>1. IsFiniteSet(W) /\ Cardinality(W) \in Nat /\ Cardinality(Requests) \in Nat
    BY <1>1, WritersFact
  <2> QED BY <1>1, <2>1, FS_RemoveElement
<1>3. disk + Cardinality(W) <= Quota + blind + Cardinality(Requests) - 1 /\ Quota >= 1
  BY <1>1 DEF Budget
<1>4. disk' + Cardinality(V) <= Quota + blind' + Cardinality(Requests) - 1
  <2> HIDE DEF V, W
  <2> QED BY <1>a, <1>2, <1>3
<1> QED BY <1>3, <1>4 DEF Budget, Writers

LEMMA RequestBudget ==
    ASSUME Typed, Typed', Budget, NEW p \in Requests, RequestSteps(p)
    PROVE  Budget'
<1>a. Others(p) /\ p \in Callers /\ p \notin Workers /\ Called /\ disk \in Nat /\ blind \in Nat /\ disk' \in Nat
  BY RequestTyped, CallerFact DEF Callers, Typed, Stored
<1>1. CASE WriteFileCheck(p)
  BY <1>1, <1>a, CheckBudget
<1>2. CASE WriteFile(p)
  BY <1>2, <1>a, WriteBudget
<1>3. ASSUME disk' <= disk, blind' = blind,
             \/ \E step \in {"x_read", "c_read", "e_read", "f_check", "f_delete"} : \E op, arg : Begin(p, op, arg, step)
             \/ Return(p, NoRuntime) \/ RaiseError(p)
             \/ \E step \in {"x_insert", "x_touch", "x_publish", "x_fail", "c_save", "e_publish", "e_fail"} : Goto(p, step)
             \/ \E step \in {"x_check", "e_create"} : GotoWith(p, step, ws, NoRuntime)
      PROVE  Budget'
  <2>1. CASE Return(p, NoRuntime) \/ RaiseError(p)
    <3>1. pc'[p].at = "idle"
      BY <1>a, <2>1, ReturnFact, RaiseFact, IdleFact DEF Moves
    <3> QED BY <1>3, <1>a, <3>1, BudgetRule
  <2>2. CASE \E step \in {"x_read", "c_read", "e_read", "f_check", "f_delete"} : \E op, arg : Begin(p, op, arg, step)
    <3>1. pc'[p].at # "f_write"
      BY <1>a, <2>2, BeginAt
    <3> QED BY <1>3, <1>a, <3>1, BudgetRule
  <2>3. CASE \/ \E step \in {"x_insert", "x_touch", "x_publish", "x_fail", "c_save", "e_publish", "e_fail"} : Goto(p, step)
             \/ \E step \in {"x_check", "e_create"} : GotoWith(p, step, ws, NoRuntime)
    <3>1. pc'[p].at # "f_write"
      BY <1>a, <2>3 DEF Goto, GotoWith, Called, Calls
    <3> QED BY <1>3, <1>a, <3>1, BudgetRule
  <2> QED BY <1>3, <2>1, <2>2, <2>3
<1>4. CASE \/ \E key \in Keys : SubmitEndpoint(p, key)
           \/ \E e \in DOMAIN exs : CancelEndpoint(p, e)
           \/ SaveEnvironmentEndpoint(p) \/ WriteFileEndpoint(p) \/ DeleteFileEndpoint(p)
  BY <1>3, <1>4, <1>a DEF SubmitEndpoint, CancelEndpoint, SaveEnvironmentEndpoint, WriteFileEndpoint, DeleteFileEndpoint,
     workVars
<1>5. CASE SubmitRead(p) \/ SubmitInvalid(p) \/ SubmitCheck(p) \/ CancelRead(p) \/ SaveEnvironmentRead(p)
  BY <1>3, <1>5, <1>a DEF SubmitRead, SubmitInvalid, SubmitCheck, CancelRead, SaveEnvironmentRead, workVars
<1>6. CASE SubmitInsert(p) \/ SubmitTouch(p) \/ SubmitPublish(p) \/ SubmitFail(p) \/ CancelSave(p)
  BY <1>3, <1>6, <1>a DEF SubmitInsert, SubmitTouch, SubmitPublish, SubmitFail, CancelSave, workVars
<1>7. CASE SaveEnvironmentCreate(p) \/ SaveEnvironmentPublish(p) \/ SaveEnvironmentFail(p)
  BY <1>3, <1>7, <1>a DEF SaveEnvironmentCreate, SaveEnvironmentPublish, SaveEnvironmentFail, workVars
<1>8. CASE DeleteFile(p)
  BY <1>3, <1>8, <1>a DEF DeleteFile, RemoveFile
<1> QED BY <1>1, <1>2, <1>4, <1>5, <1>6, <1>7, <1>8 DEF RequestSteps

LEMMA WorkerBudget ==
    ASSUME Typed, Typed', Budget, NEW w \in Workers, WorkerSteps(w)
    PROVE  Budget'
<1>a. Others(w) /\ w \in Callers /\ w \notin Requests /\ disk \in Nat /\ blind \in Nat
  BY WorkerTyped, WorkerFact
<1>1. CASE Execute(w)
  <2>1. PICK grows \in {0, 1} : disk' = disk + grows /\ blind' = blind + grows
    BY <1>1, <1>a DEF Execute
  <2>2. \A q \in Requests : pc'[q].at = pc[q].at
    BY <1>a DEF Others, Callers
  <2>3. Writers' = Writers /\ Writers \subseteq Requests
    BY <2>2 DEF Writers
  <2>4. Cardinality(Writers) \in Nat /\ Cardinality(Requests) \in Nat /\ Quota \in Nat
    BY <2>3, WritersFact, ExecutionAssumption DEF ExecutionAssumption
  <2>5. disk' + Cardinality(Writers) <= Quota + blind' + Cardinality(Requests) - 1
    BY <1>a, <2>1, <2>4 DEF Budget
  <2> QED BY <2>3, <2>5 DEF Budget
<1>2. CASE ~Execute(w)
  <2>1. disk' = disk /\ blind' = blind
    BY <1>2 DEF WorkerSteps, Fetch, Acknowledge, HandlerRaised, Sweep, Overrun, WorkerCrash, ExecutionRead,
       ExecutionOwner, RuntimeStarted, ClaimExecution, ExecuteError, ExecutionReread, ExecutionWrite, SnapshotRead, SnapshotBuilding,
       CreateSnapshot, SnapshotReady, SnapshotFailed, PruneRevisions, workVars
  <2> QED BY <1>a, <2>1, BudgetRule
<1> QED BY <1>1, <1>2

LEMMA InitBudget == ExecutionInit => Budget
<1> SUFFICES ASSUME ExecutionInit PROVE Budget
  OBVIOUS
<1>1. Writers = {} /\ disk = 0 /\ blind = 0
  BY IdleFact DEF ExecutionInit, Init, Writers, Callers
<1>2. Cardinality(Writers) = 0 /\ Cardinality(Requests) \in Nat \ {0} /\ Quota \in Nat
  BY <1>1, WritersFact, ExecutionAssumption DEF ExecutionAssumption
<1> QED BY <1>1, <1>2 DEF Budget

LEMMA NextBudget == Typed /\ Typed' /\ Budget /\ [Next]_vars => Budget'
<1> SUFFICES ASSUME Typed, Typed', Budget, [Next]_vars PROVE Budget'
  OBVIOUS
<1>1. ASSUME UNCHANGED <<pc, disk, blind>> PROVE Budget'
  BY <1>1 DEF Budget, Writers
<1>2. ASSUME NEW cfg \in Configs, CreateWorkspace(cfg), UNCHANGED workVars PROVE Budget'
  BY <1>1, <1>2 DEF CreateWorkspace, workVars
<1>3. CASE UNCHANGED vars
  BY <1>1, <1>3 DEF vars
<1>4. ASSUME NEW p \in Callers, DeleteTables(p) PROVE Budget'
  <2>1. /\ Others(p) /\ p \in Requests /\ disk' = disk /\ blind' = blind
        /\ Return(p, NoRuntime) \/ \E step \in {"d_execs", "d_slot"} : Goto(p, step)
    BY <1>4, DeleteTyped, DeleteRowsFact
  <2>2. pc'[p].at \in {"idle", "d_execs", "d_slot"}
    BY <2>1, ReturnFact, GotoFact, IdleFact, CallerFact DEF Moves, Typed, Steps, PlainAts, LifeAts
  <2>3. disk' <= disk /\ blind' >= blind
    BY <2>1 DEF Typed, Stored
  <2> QED BY <2>1, <2>2, <2>3, BudgetRule
<1> QED BY <1>2, <1>3, <1>4, RuntimeBudget, RequestBudget, WorkerBudget DEF Next

------------------------------------------------------------------------------
(* The rows of a workspace are true and within its limits *)

LEMMA TypedFact == Typed => TypeOK
<1> SUFFICES ASSUME Typed PROVE TypeOK
  OBVIOUS
<1>1. /\ ws.state \in WorkspaceStates /\ rt.state \in RuntimeStates \cup {"NONE"}
      /\ rt.ref \in 0 .. made /\ box.id \in 0 .. made /\ made \in 0 .. MaxBoxes
  BY RuntimeAssumption DEF Typed, Stored, Kept, Workspaces, Runtimes, Boxes, RuntimeAssumption
<1>2. ASSUME NEW v \in DOMAIN revs PROVE revs[v].st \in RevisionStates
  <2>1. revs[v] \in Revisions
    BY DEF Typed, Stored, Kept
  <2> QED BY <2>1 DEF Revisions
<1>3. ASSUME NEW e \in DOMAIN exs PROVE exs[e].st \in Active \cup Terminal \cup {"DELETED"}
  <2>1. exs[e] \in Rows
    BY DEF Typed, Worked
  <2> QED BY <2>1 DEF Rows
<1>4. ASSUME NEW m \in stale \cup dead \cup {queue[i] : i \in DOMAIN queue}
      PROVE  m[2] \in IF m[1] = "exec" THEN DOMAIN exs ELSE DOMAIN revs
  <2>1. m \in Letters /\ Named(m[1], m[2])
    BY DEF Typed, Worked
  <2> QED BY <2>1 DEF Letters, Named, Names
<1>5. ASSUME NEW p \in Callers, task[p].id # 0
      PROVE  Message(p)[2] \in IF task[p].kind = "exec" THEN DOMAIN exs ELSE DOMAIN revs
  <2>1. task[p] \in Tasks /\ Named(task[p].kind, task[p].id) /\ task[p].kind # "none"
    BY <1>5 DEF Typed, Worked
  <2> QED BY <2>1 DEF Tasks, Named, Names, Message
<1> QED BY <1>1, <1>2, <1>3, <1>4, <1>5 DEF TypeOK

\* However starts, stops, crashes, timeouts, snapshots, file writes and worker
\* messages of any number of requests and workers interleave: the rows are well
\* formed, the runtime row tells what the container it names was created with
\* (_provider_start, mark_running), pruning keeps the READY snapshots within
\* the retention (_prune_revisions), and the files exceed the quota by no more
\* than what the checks of concurrent requests cannot see
\* (_check_disk_budget).
THEOREM RuntimeSoundTheorem == Spec => []RuntimeSound
<1> DEFINE Inv == Typed /\ Truthful /\ SnapshotsBounded /\ Budget
<1>1. ExecutionInit => Inv
  BY InitTyped, InitTruth, InitPruned, InitBudget
<1>2. Inv /\ [Next]_vars => Inv'
  <2> SUFFICES ASSUME Inv, [Next]_vars PROVE Inv'
    OBVIOUS
  <2>1. Typed'
    BY NextTyped
  <2> QED BY <2>1, NextTruth, NextPruned, NextBudget
<1>3. Inv => RuntimeSound
  <2> SUFFICES ASSUME Inv PROVE RuntimeSound
    OBVIOUS
  <2>1. FingerprintTruthful
    BY DEF Truthful, TruthOf, FingerprintTruthful
  <2>2. QuotaHeld
    <3>1. Cardinality(Writers) \in Nat /\ Cardinality(Requests) \in Nat
      BY WritersFact DEF Writers
    <3>2. disk \in Nat /\ blind \in Nat /\ Quota \in Nat
      BY ExecutionAssumption DEF Typed, Stored, ExecutionAssumption
    <3> QED BY <3>1, <3>2 DEF Budget, QuotaHeld
  <2> QED BY <2>1, <2>2, TypedFact DEF RuntimeSound
<1> QED BY <1>1, <1>2, <1>3, PTL DEF Spec
==============================================================================
