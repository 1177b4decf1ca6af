-------------------------- MODULE StaleSweepProofs --------------------------
(***************************************************************************)
(* Proofs about StaleSweep for any number of workers, streams, messages    *)
(* and faults and any timeout: an entry a worker holds is younger than     *)
(* stale_min_idle_ms, so no sweep takes it, so every entry is in one       *)
(* worker's hands and every message has one entry.  What is left out are   *)
(* the messages of which a worker was late and those a failed sweep        *)
(* doubled.                                                                *)
(***************************************************************************)
EXTENDS StaleSweep, JobStreamProofs

\* What k conversions may take.
Budget(k) == Timeout * k

\* The entries of a read, in the order in which they are worked on.
Working == {"run", "ack", "dlq", "fail"}
Sweeping == {"claim", "requeue", "reack"}
Shape(w) ==
    /\ \A e, f \in buffer[w] : e[1] = f[1] => e = f
    /\ pc[w] \in Working => \A f \in buffer[w] : cur[w][1] < f[1]
    /\ pc[w] \in Sweeping => buffer[w] = {}
    /\ pc[w] \notin {"requeue", "reack"} => claimed[w] = {}

\* How long an entry may have been pending, by what its worker is doing.
Young(w, e) ==
    /\ pc[w] = "run" => idle[e] <= Budget(cur[w][1] - 1) + spent[w]
    /\ pc[w] \in Working \ {"run"} => idle[e] <= Budget(cur[w][1])
    /\ pc[w] = "fetch" => \A g \in buffer[w] : idle[e] <= Budget(g[1] - 1)
    /\ pc[w] \in Sweeping => idle[e] = 0
Aged(w) ==
    /\ \A e \in Held(w) \cap pel : Msg(e) \notin late => Young(w, e)
    /\ pc[w] = "run" /\ spent[w] > Timeout => \A e \in Held(w) : Msg(e) \in late

InTime == Messages \ late
HeldInTime == Exclusive(InTime)
OneEntry == \A m \in Messages \ (late \cup doubled) : OneCopy({m})

TInv ==
    /\ IInv /\ StaleTypeOK
    /\ \A w \in Workers : Shape(w) /\ Aged(w)
    /\ HeldInTime /\ OneEntry

------------------------------------------------------------------------------
(* Numbers *)

LEMMA BudgetFact ==
    /\ \A k \in Nat : Budget(k) \in Nat /\ Budget(k + 1) = Budget(k) + Timeout
    /\ \A k, l \in Nat : k < l => Budget(k) + Timeout <= Budget(l)
    /\ stale_min_idle = Budget(NStreams) + Margin
    /\ Timeout \in Nat /\ Margin \in Nat /\ Margin > 0 /\ stale_min_idle \in Nat
  <1>1. Timeout \in Nat /\ Margin \in Nat /\ Margin > 0 /\ NStreams \in Nat
    BY SweepAssumption, StreamAssumption DEF SweepAssumption, StreamAssumption
  <1>2. \A k \in Nat : Budget(k) \in Nat /\ Budget(k + 1) = Budget(k) + Timeout
    BY <1>1 DEF Budget
  <1>3. ASSUME NEW k \in Nat, NEW l \in Nat, k < l PROVE Budget(k) + Timeout <= Budget(l)
    <2>1. PICK d \in Nat : l = k + 1 + d
      <3>1. l - (k + 1) \in Nat /\ l = k + 1 + (l - (k + 1))
        BY <1>3
      <3>2. QED
        BY <3>1
    <2>2. Timeout * d \in Nat
      BY <1>1
    <2>3. Timeout * (k + 1 + d) = Timeout * (k + 1) + Timeout * d
      BY <1>1
    <2>4. Budget(l) = Budget(k) + Timeout + Timeout * d
      BY <1>1, <1>2, <2>1, <2>3 DEF Budget
    <2>5. QED
      BY <1>1, <1>2, <2>2, <2>4
  <1>4. stale_min_idle = Budget(NStreams) + Margin
    <2>1. 1 + (NStreams - 1) = NStreams
      BY <1>1
    <2>2. QED
      BY <2>1 DEF stale_min_idle, MAX_BUFFERED, Budget
  <1>5. stale_min_idle \in Nat
    BY <1>1, <1>2, <1>4
  <1>6. QED
    BY <1>1, <1>2, <1>3, <1>4, <1>5

\* A worker's entry in hand is in a stream, and so is what it has buffered.
LEMMA StreamFact ==
    ASSUME IInv, NEW w \in Workers
    PROVE  /\ pc[w] \in Working \cup {"reack"} => cur[w][1] \in Streams
           /\ pc[w] \notin Working \cup {"reack"} => cur[w] = NoEntry
           /\ \A e \in Held(w) : e[1] \in Streams /\ e \in Entries
           /\ Streams \subseteq Nat \ {0} /\ \A s \in Streams : s <= NStreams /\ s - 1 \in Nat
  <1>1. TypeOK /\ SettledFirst
    BY DEF IInv
  <1>2. \A e \in Entries : e[1] \in Streams
    BY <1>1, EntryFact
  <1>3. Delivered \subseteq Entries
    BY DEF Delivered
  <1>4. NStreams \in Nat
    BY StreamAssumption DEF StreamAssumption
  <1>5. pc[w] \in Working \cup {"reack"} => cur[w][1] \in Streams
    BY <1>1, <1>2, <1>3 DEF SettledFirst, Working
  <1>6. pc[w] \notin Working \cup {"reack"} => cur[w] = NoEntry
    BY <1>1 DEF SettledFirst, Working, TypeOK
  <1>7. \A e \in Held(w) : e[1] \in Streams /\ e \in Entries
    BY <1>1, <1>2, HeldFact
  <1>8. Streams \subseteq Nat \ {0} /\ \A s \in Streams : s <= NStreams /\ s - 1 \in Nat
    BY <1>4 DEF Streams
  <1>9. QED
    BY <1>5, <1>6, <1>7, <1>8

\* Entries carry messages.
LEMMA EntryMessage ==
    ASSUME TypeOK
    PROVE  \A e \in Entries : Msg(e) \in Messages
  <1>1. \A s \in Streams : log[s] \in Seq(Messages)
    BY DEF TypeOK
  <1>2. \A e \in Entries : e[1] \in Streams /\ e[2] \in 1..Len(log[e[1]])
    BY EntryFact
  <1>3. QED
    BY <1>1, <1>2 DEF Msg

\* A held entry of a message in time is younger than what a sweep looks for.
LEMMA YoungFact ==
    ASSUME IInv, StaleTypeOK, NEW w \in Workers, Shape(w), Aged(w), NEW e \in Held(w) \cap pel,
           Msg(e) \notin late
    PROVE  idle[e] < stale_min_idle
  <1>1. idle[e] \in Nat /\ spent[w] \in Nat /\ Young(w, e)
    BY SweepAssumption DEF StaleTypeOK, Aged, SweepAssumption
  <1>2. \A s \in Streams : Budget(s) <= Budget(NStreams) /\ Budget(s - 1) <= Budget(NStreams)
                           /\ Budget(s) = Budget(s - 1) + Timeout
                           /\ Budget(s) \in Nat /\ Budget(s - 1) \in Nat
    <2> SUFFICES ASSUME NEW s \in Streams
                 PROVE  /\ Budget(s) <= Budget(NStreams) /\ Budget(s - 1) <= Budget(NStreams)
                        /\ Budget(s) = Budget(s - 1) + Timeout
                        /\ Budget(s) \in Nat /\ Budget(s - 1) \in Nat
      OBVIOUS
    <2>1. s \in Nat /\ s - 1 \in Nat /\ s <= NStreams /\ NStreams \in Nat /\ (s - 1) + 1 = s
      BY StreamFact, StreamAssumption DEF StreamAssumption
    <2>2. Budget(s) = Budget(s - 1) + Timeout /\ Budget(s) \in Nat /\ Budget(s - 1) \in Nat
      BY <2>1, BudgetFact
    <2>3. Timeout \in Nat /\ Budget(NStreams) \in Nat
      BY <2>1, BudgetFact
    <2>4. s < NStreams => Budget(s) + Timeout <= Budget(NStreams)
      BY <2>1, BudgetFact
    <2>5. Budget(s) <= Budget(NStreams)
      BY <2>1, <2>2, <2>3, <2>4
    <2>6. QED
      BY <2>2, <2>3, <2>5
  <1>0. /\ stale_min_idle = Budget(NStreams) + Margin /\ Budget(NStreams) \in Nat
        /\ Timeout \in Nat /\ Margin \in Nat /\ Margin > 0
    BY BudgetFact, StreamAssumption DEF StreamAssumption
  <1>3. e[1] \in Streams /\ e # NoEntry
    BY StreamFact, HeldFact, NoEntryFact DEF IInv
  <1>4. CASE pc[w] = "run"
    <2>1. cur[w][1] \in Streams
      BY <1>4, StreamFact DEF Working
    <2>2. spent[w] <= Timeout
      BY <1>0, <1>1, <1>4 DEF Aged
    <2>3. QED
      BY <1>0, <1>1, <1>2, <1>4, <2>1, <2>2 DEF Young
  <1>5. CASE pc[w] \in Working \ {"run"}
    BY <1>0, <1>1, <1>2, <1>5, StreamFact DEF Young
  <1>6. CASE pc[w] = "fetch"
    <2>1. e \in buffer[w]
      <3>1. cur[w] = NoEntry
        BY <1>6, StreamFact DEF Working
      <3>2. QED
        BY <1>3, <3>1, <1>6 DEF Held, Shape
    <2>2. QED
      BY <1>0, <1>1, <1>2, <1>3, <1>6, <2>1 DEF Young
  <1>7. CASE pc[w] \in Sweeping
    BY <1>0, <1>1, <1>7, <1>2, <1>3 DEF Young
  <1>8. QED
    BY <1>4, <1>5, <1>6, <1>7 DEF IInv, TypeOK, PCs, Working, Sweeping

------------------------------------------------------------------------------
(* A step of the loop, seen by the clock *)

\* What stays pending keeps its age, or starts anew.
LEMMA AgeFact ==
    ASSUME Clocks
    PROVE  /\ \A e \in pel' : idle'[e] = 0 \/ (e \in pel /\ idle'[e] = idle[e])
           /\ \A w \in Workers, e \in pel' :
                 e \notin pel \/ e \in NewlyClaimed(w) => idle'[e] = 0
           /\ late' = late
  BY DEF Clocks, Fresh

\* The timed variables stay within their types.
LEMMA TypesNext ==
    ASSUME IInv, StaleTypeOK, Next /\ Clocks
    PROVE  StaleTypeOK'
  <1>1. stale_min_idle \in Nat /\ Tries * Timeout \in Nat
    BY BudgetFact, SweepAssumption DEF SweepAssumption
  <1>2. idle' = [e \in pel' |-> IF e \in Fresh THEN 0 ELSE idle[e]] /\ Fresh \subseteq pel'
    BY DEF Clocks, Fresh
  <1>3. \A e \in pel' \ Fresh : e \in pel
    BY DEF Fresh
  <1>4. idle' \in [pel' -> 0..stale_min_idle]
    BY <1>1, <1>2, <1>3 DEF StaleTypeOK
  <1>5. spent' \in [Workers -> 0..Tries * Timeout]
    BY <1>1 DEF Clocks, StaleTypeOK
  <1>6. doubled' \subseteq Messages
    <2>1. \A w \in Abandoned : cur[w] \in Entries
      BY StreamFact DEF Abandoned, Held, IInv, SettledFirst, Delivered
    <2>2. \A e \in Entries : Msg(e) \in Messages
      BY EntryMessage DEF IInv
    <2>3. QED
      BY <2>1, <2>2 DEF Clocks, StaleTypeOK
  <1>7. late' \subseteq Messages
    BY DEF Clocks, StaleTypeOK
  <1>8. stale_min_idle' = stale_min_idle
    BY DEF stale_min_idle, MAX_BUFFERED
  <1>9. QED
    BY <1>4, <1>5, <1>6, <1>7, <1>8 DEF StaleTypeOK

\* No sweep takes an entry of a message in time from the worker that has it.
LEMMA ClaimsFact ==
    ASSUME TInv, Next /\ Clocks
    PROVE  NewClaims(InTime)
  <1> SUFFICES ASSUME NEW w \in Workers, NEW e \in NewlyClaimed(w), Msg(e) \in InTime,
                      NEW v \in Workers, e \in Held(v)
               PROVE  FALSE
    BY DEF NewClaims, NewlyClaimed
  <1>1. e \in pel /\ idle[e] >= stale_min_idle
    BY DEF Clocks, Stale, Pending
  <1>2. Shape(v) /\ Aged(v) /\ IInv /\ StaleTypeOK /\ Msg(e) \notin late
    BY DEF TInv, InTime
  <1>3. idle[e] < stale_min_idle
    BY <1>1, <1>2, YoungFact
  <1>4. idle[e] \in Nat /\ stale_min_idle \in Nat
    BY <1>1, <1>2, BudgetFact DEF StaleTypeOK
  <1>5. QED
    BY <1>1, <1>3, <1>4

\* So the messages in time stay in one worker's hands.
LEMMA HeldNext ==
    ASSUME TInv, Next /\ Clocks
    PROVE  HeldInTime'
  <1>1. PICK M : M = InTime
    OBVIOUS
  <1>2. Exclusive(M) /\ NewClaims(M) /\ IInv
    BY <1>1, ClaimsFact DEF TInv, HeldInTime
  <1>3. Exclusive(M)'
    BY <1>2, ExclusiveStep
  <1>4. InTime' = M
    BY <1>1, AgeFact DEF InTime
  <1>5. QED
    BY <1>3, <1>4 DEF HeldInTime

\* And have one entry.
LEMMA EntryNext ==
    ASSUME TInv, Next /\ Clocks
    PROVE  OneEntry'
  <1> SUFFICES ASSUME NEW m \in Messages, m \notin late' \cup doubled' PROVE OneCopy({m})'
    BY DEF OneEntry
  <1>1. m \in InTime /\ m \notin late \cup doubled
    BY DEF Clocks, InTime
  <1>2. PICK M : M = {m}
    OBVIOUS
  <1>3. IInv /\ OneCopy(M) /\ Exclusive(M)
    BY <1>1, <1>2 DEF TInv, OneEntry, HeldInTime, Exclusive
  <1>4. NoSecond(M)
    BY <1>2 DEF NoSecond, Clocks, Abandoned
  <1>5. CASE \E w \in Workers : WorkerNext(w)
    <2>1. OneCopy(M)'
      BY <1>3, <1>4, <1>5, CopiesInductive
    <2>2. QED
      BY <1>2, <2>1
  <1>6. ASSUME NEW n \in Messages, NEW s \in Streams, Publish(n, s) PROVE OneCopy({m})'
    <2>1. n \in M => Published \cap M = {}
      BY <1>2, <1>6 DEF Publish
    <2>2. OneCopy(M)'
      BY <1>3, <1>6, <2>1, CopiesInductive
    <2>3. QED
      BY <1>2, <2>2
  <1>7. QED
    BY <1>5, <1>6 DEF Next, WorkerNext

------------------------------------------------------------------------------
(* The worker that takes the step *)

\* What Shape and Aged of a worker depend on.
LEMMA SameWorker ==
    ASSUME TInv, Clocks, NEW v \in Workers,
           \A e \in Entries : Msg(e)' = Msg(e),
           UNCHANGED <<pc[v], cur[v], buffer[v], claimed[v]>>
    PROVE  Shape(v)' /\ Aged(v)'
  <1>1. Shape(v) /\ Aged(v) /\ IInv /\ StaleTypeOK
    BY DEF TInv
  <1>2. Held(v)' = Held(v) /\ \A e \in Held(v) : Msg(e)' = Msg(e) /\ e \in Entries
    BY <1>1, HeldFact DEF Held, IInv
  <1>3. pc[v] = "run" => spent'[v] = spent[v]
    BY <1>1 DEF Clocks
  <1>4. ASSUME NEW e \in Held(v)', e \in pel', Msg(e)' \notin late' PROVE Young(v, e)'
    <2>1. CASE idle'[e] = 0
      <3>1. \A k \in Nat : Budget(k) \in Nat
        BY BudgetFact
      <3>2. \A g \in buffer[v] : g[1] - 1 \in Nat
        BY <1>1, StreamFact DEF Held
      <3>3. pc[v] \in Working => cur[v][1] \in Nat /\ cur[v][1] - 1 \in Nat
        BY <1>1, StreamFact
      <3>4. spent[v] \in Nat
        BY <1>1, BudgetFact, SweepAssumption DEF StaleTypeOK, SweepAssumption
      <3>5. \A k : Budget(k)' = Budget(k)
        BY DEF Budget
      <3>6. pc[v] = "run" => 0 <= Budget(cur[v][1] - 1) + spent[v]
        BY <3>1, <3>3, <3>4 DEF Working
      <3>7. pc[v] \in Working => 0 <= Budget(cur[v][1])
        BY <3>1, <3>3
      <3>8. \A g \in buffer[v] : 0 <= Budget(g[1] - 1)
        BY <3>1, <3>2
      <3>9. QED
        BY <1>3, <2>1, <3>5, <3>6, <3>7, <3>8 DEF Young
    <2>2. CASE e \in pel /\ idle'[e] = idle[e]
      <3>1. Young(v, e)
        BY <1>1, <1>2, <1>4, <2>2, AgeFact DEF Aged
      <3>2. QED
        BY <1>3, <2>2, <3>1 DEF Young, Budget
    <2>3. QED
      BY <2>1, <2>2, <1>4, AgeFact
  <1>5. Shape(v)'
    BY <1>1 DEF Shape
  <1>6. pc'[v] = "run" /\ spent'[v] > Timeout => \A e \in Held(v)' : Msg(e)' \in late'
    BY <1>1, <1>2, <1>3, AgeFact DEF Aged
  <1>7. QED
    BY <1>4, <1>5, <1>6 DEF Aged

\* The worker has nothing, or only what is new to it.
LEMMA FreshHand ==
    ASSUME TInv, Next /\ Clocks, NEW w \in Workers, pc[w] # "run",
           \A e \in Held(w)' : e \in pel' => idle'[e] = 0,
           pc'[w] = "run" => cur'[w][1] \in Streams,
           pc'[w] = "fetch" => buffer'[w] = {},
           pc'[w] \in {"run", "fetch"} \cup Sweeping
    PROVE  Aged(w)'
  <1>1. StaleTypeOK /\ spent'[w] = 0 /\ Timeout \in Nat
    BY BudgetFact DEF TInv, Clocks
  <1>2. \A s \in Streams : Budget(s - 1) \in Nat
    BY BudgetFact, StreamFact DEF TInv
  <1>3. \A k : Budget(k)' = Budget(k)
    BY DEF Budget
  <1>4. ASSUME NEW e \in Held(w)', e \in pel' PROVE Young(w, e)'
    <2>1. pc'[w] = "run" => idle'[e] <= Budget(cur'[w][1] - 1) + spent'[w]
      BY <1>1, <1>2, <1>4
    <2>2. QED
      BY <1>3, <1>4, <2>1 DEF Young, Working, Sweeping
  <1>5. QED
    BY <1>1, <1>4 DEF Aged

\* What the worker keeps was young enough and did not age.
LEMMA KeptFact ==
    ASSUME TInv, Next /\ Clocks, NEW w \in Workers, NEW e \in Held(w), e \in pel',
           Msg(e) \notin late'
    PROVE  /\ Young(w, e) /\ Msg(e) \notin late /\ e[1] \in Streams
           /\ idle[e] \in Nat /\ idle'[e] \in Nat /\ idle'[e] <= idle[e]
           /\ pc[w] = "run" => spent[w] \in Nat /\ spent[w] <= Timeout
  <1>1. IInv /\ StaleTypeOK /\ Aged(w) /\ Exclusive(InTime)
    BY DEF TInv, HeldInTime
  <1>2. e \in Entries /\ Msg(e) \in Messages /\ Msg(e) \notin late /\ e[1] \in Streams
    BY <1>1, StreamFact, EntryMessage, AgeFact DEF IInv
  <1>3. e \in pel
    BY <1>1, <1>2 DEF Exclusive, Sole, InTime
  <1>4. idle[e] \in Nat /\ (idle'[e] = 0 \/ idle'[e] = idle[e])
    <2>1. idle[e] \in 0..stale_min_idle /\ stale_min_idle \in Nat
      BY <1>1, <1>3, BudgetFact DEF StaleTypeOK
    <2>2. idle'[e] = 0 \/ idle'[e] = idle[e]
      BY AgeFact
    <2>3. QED
      BY <2>1, <2>2
  <1>5. Young(w, e)
    BY <1>1, <1>2, <1>3 DEF Aged
  <1>6. spent[w] \in Nat /\ Timeout \in Nat
    BY <1>1, BudgetFact, SweepAssumption DEF StaleTypeOK, SweepAssumption
  <1>7. pc[w] = "run" => spent[w] <= Timeout
    BY <1>1, <1>2, <1>6 DEF Aged
  <1>8. QED
    BY <1>2, <1>4, <1>5, <1>6, <1>7

\* Budgets of the streams, in order.
LEMMA StreamBudget ==
    ASSUME IInv, NEW w \in Workers
    PROVE  /\ \A s \in Streams : /\ Budget(s) \in Nat /\ Budget(s - 1) \in Nat
                                 /\ Budget(s) = Budget(s - 1) + Timeout
           /\ \A s, u \in Streams : s < u => Budget(s) <= Budget(u - 1)
           /\ Timeout \in Nat
  <1>1. \A s \in Streams : s \in Nat /\ s - 1 \in Nat /\ (s - 1) + 1 = s
    BY StreamFact
  <1>2. \A s \in Streams : /\ Budget(s) \in Nat /\ Budget(s - 1) \in Nat
                           /\ Budget(s) = Budget(s - 1) + Timeout
    BY <1>1, BudgetFact
  <1>3. ASSUME NEW s \in Streams, NEW u \in Streams, s < u PROVE Budget(s) <= Budget(u - 1)
    <2>1. s = u - 1 \/ s < u - 1
      BY <1>1, <1>3
    <2>2. s < u - 1 => Budget(s) + Timeout <= Budget(u - 1)
      BY <1>1, BudgetFact
    <2>3. Timeout \in Nat /\ Budget(s) \in Nat /\ Budget(u - 1) \in Nat
      BY <1>2, BudgetFact
    <2>4. QED
      BY <2>1, <2>2, <2>3
  <1>4. QED
    BY <1>2, <1>3, BudgetFact

\* Fetching: what was buffered is taken up in the order of the streams.
LEMMA FetchStep ==
    ASSUME TInv, Next /\ Clocks, NEW w \in Workers, Fetch(w)
    PROVE  Shape(w)' /\ Aged(w)'
  <1>1. /\ IInv /\ TypeOK /\ Shape(w) /\ pc[w] = "fetch" /\ cur[w] = NoEntry /\ claimed[w] = {}
        /\ claimed' = claimed
    BY StreamFact DEF TInv, IInv, Fetch, FetchBuffered, FetchNew, FetchNone, Shape, Working
  <1>2. \A k : Budget(k)' = Budget(k)
    BY DEF Budget
  <1>3. CASE FetchBuffered(w)
    <2>1. PICK e \in buffer[w] :
              /\ \A f \in buffer[w] : e[1] <= f[1]
              /\ cur'[w] = e /\ buffer'[w] = buffer[w] \ {e} /\ pc'[w] = "run"
      BY <1>1, <1>3 DEF FetchBuffered, Start, TypeOK
    <2>2. Held(w)' = buffer[w] /\ Held(w) = buffer[w] /\ \A f \in buffer[w] : Msg(f)' = Msg(f)
      <3>1. \A f \in buffer[w] : f # NoEntry
        BY <1>1, HeldFact, NoEntryFact DEF Held
      <3>2. \A f : Msg(f)' = Msg(f)
        BY <1>3, SameRedis DEF FetchBuffered, redis
      <3>3. QED
        BY <1>1, <2>1, <3>1, <3>2 DEF Held
    <2>3. \A f \in buffer[w] : f[1] \in Nat
      BY <1>1, <2>2, StreamFact
    <2>4. Shape(w)'
      BY <1>1, <2>1, <2>3 DEF Shape, Working, Sweeping
    <2>5. spent'[w] = 0 /\ e[1] \in Streams
      BY <1>1, <2>1, <2>2, StreamFact DEF Clocks
    <2>6. ASSUME NEW f \in buffer[w], f \in pel', Msg(f) \notin late' PROVE Young(w, f)'
      <3>1. /\ Young(w, f) /\ idle[f] \in Nat /\ idle'[f] \in Nat /\ idle'[f] <= idle[f]
        BY <2>2, <2>6, KeptFact
      <3>2. idle[f] <= Budget(e[1] - 1) /\ Budget(e[1] - 1) \in Nat
        BY <1>1, <2>1, <2>5, <3>1, StreamBudget DEF Young
      <3>3. QED
        BY <1>2, <2>1, <2>5, <3>1, <3>2 DEF Young, Working, Sweeping
    <2>7. Timeout \in Nat
      BY BudgetFact
    <2>8. QED
      BY <2>2, <2>4, <2>5, <2>6, <2>7 DEF Aged
  <1>4. CASE FetchNew(w)
    <2>1. PICK e \in NextDelivery :
              /\ \A f \in NextDelivery : e[1] <= f[1]
              /\ cur'[w] = e /\ buffer'[w] = NextDelivery \ {e} /\ pc'[w] = "run"
      BY <1>1, <1>4 DEF FetchNew, Start, TypeOK
    <2>2. NextDelivery \subseteq Entries \ Delivered
      BY <1>1, <1>4, DeliverFact DEF FetchNew
    <2>3. Held(w)' \subseteq NextDelivery /\ \A f \in Held(w)' : f \notin pel
      BY <1>1, <2>1, <2>2 DEF Held, TypeOK
    <2>4. \A f \in Held(w)' : f \in pel' => idle'[f] = 0
      BY <2>3, AgeFact
    <2>5. \A f \in NextDelivery : f[1] \in Streams
      BY <1>1, <2>2, EntryFact
    <2>6. Shape(w)'
      <3>1. \A f, g \in NextDelivery : f[1] = g[1] => f = g
        BY DEF NextDelivery
      <3>2. \A f \in NextDelivery \ {e} : e[1] < f[1]
        BY <1>1, <2>1, <2>5, <3>1, StreamFact
      <3>3. QED
        BY <1>1, <2>1, <3>1, <3>2 DEF Shape, Working, Sweeping
    <2>7. QED
      BY <1>1, <2>1, <2>4, <2>5, <2>6, FreshHand
  <1>5. CASE FetchNone(w)
    <2>1. pc'[w] = "claim" /\ buffer'[w] = {} /\ claimed'[w] = {} /\ cur'[w] = NoEntry
      BY <1>1, <1>5 DEF FetchNone, TypeOK
    <2>2. Held(w)' = {}
      BY <2>1 DEF Held
    <2>3. QED
      BY <1>1, <2>1, <2>2, FreshHand DEF Shape, Working, Sweeping
  <1>6. QED
    BY <1>3, <1>4, <1>5 DEF Fetch

\* Settling: the budget of the entry in hand is used up, the next one begins.
LEMMA SettleStep ==
    ASSUME TInv, Next /\ Clocks, NEW w \in Workers,
           \/ Settle(w) \/ DeadLetterError(w) \/ AcknowledgeError(w)
    PROVE  Shape(w)' /\ Aged(w)'
  <1>1. IInv /\ TypeOK /\ Shape(w) /\ pc[w] \in Working /\ claimed' = claimed /\ buffer' = buffer
    BY DEF TInv, IInv, Settle, Finish, Raise, DeadLetter, Acknowledge, DeadLetterError,
       AcknowledgeError, Working
  <1>2. \A k : Budget(k)' = Budget(k)
    BY DEF Budget
  <1>3. \A e : Msg(e)' = Msg(e)
    BY SameRedis DEF Settle, Finish, Raise, DeadLetter, Acknowledge, DeadLetterError,
       AcknowledgeError, redis, Msg
  <1>4. cur[w][1] \in Streams /\ claimed[w] = {}
    BY <1>1, StreamFact DEF Shape, Working
  <1>5. CASE Finish(w) \/ Raise(w) \/ DeadLetter(w) \/ DeadLetterError(w)
    <2>1. /\ cur' = cur /\ pc'[w] \in Working \ {"run"} /\ Held(w)' = Held(w)
      BY <1>1, <1>5 DEF Finish, Raise, DeadLetter, DeadLetterError, TypeOK, Working, Held
    <2>2. Shape(w)'
      BY <1>1, <2>1 DEF Shape, Working, Sweeping
    <2>3. ASSUME NEW e \in Held(w), e \in pel', Msg(e) \notin late' PROVE Young(w, e)'
      <3>1. /\ Young(w, e) /\ idle[e] \in Nat /\ idle'[e] \in Nat /\ idle'[e] <= idle[e]
            /\ pc[w] = "run" => spent[w] \in Nat /\ spent[w] <= Timeout
        BY <2>3, KeptFact
      <3>2. /\ Budget(cur[w][1]) \in Nat /\ Budget(cur[w][1] - 1) \in Nat /\ Timeout \in Nat
            /\ Budget(cur[w][1]) = Budget(cur[w][1] - 1) + Timeout
        BY <1>1, <1>4, StreamBudget
      <3>3. idle[e] <= Budget(cur[w][1])
        <4>1. CASE pc[w] = "run"
          <5>1. idle[e] <= Budget(cur[w][1] - 1) + spent[w]
            BY <3>1, <4>1 DEF Young
          <5>2. QED
            BY <3>1, <3>2, <4>1, <5>1
        <4>2. CASE pc[w] # "run"
          BY <1>1, <3>1, <4>2 DEF Young
        <4>3. QED
          BY <4>1, <4>2
      <3>4. QED
        BY <1>2, <2>1, <3>1, <3>2, <3>3 DEF Young, Working, Sweeping
    <2>4. QED
      BY <1>3, <2>1, <2>2, <2>3 DEF Aged, Working
  <1>6. CASE Acknowledge(w) \/ AcknowledgeError(w)
    <2>1. pc'[w] = "fetch" /\ cur'[w] = NoEntry /\ pc[w] # "run"
      BY <1>1, <1>6 DEF Acknowledge, AcknowledgeError, Release, TypeOK
    <2>2. Held(w)' = buffer[w] /\ buffer[w] \subseteq Held(w)
      <3>1. \A f \in buffer[w] : f # NoEntry
        BY <1>1, NoEntryFact DEF TypeOK, Delivered
      <3>2. QED
        BY <1>1, <1>4, <2>1, <3>1 DEF Held
    <2>3. Shape(w)'
      BY <1>1, <1>4, <2>1 DEF Shape, Working, Sweeping
    <2>4. ASSUME NEW e \in buffer[w], e \in pel', Msg(e) \notin late' PROVE Young(w, e)'
      <3>1. /\ Young(w, e) /\ idle[e] \in Nat /\ idle'[e] \in Nat /\ idle'[e] <= idle[e]
        BY <2>2, <2>4, KeptFact
      <3>2. idle[e] <= Budget(cur[w][1]) /\ Budget(cur[w][1]) \in Nat
        BY <1>1, <1>4, <2>1, <3>1, StreamBudget DEF Young
      <3>3. \A g \in buffer[w] : /\ Budget(cur[w][1]) <= Budget(g[1] - 1)
                                 /\ Budget(g[1] - 1) \in Nat
        <4>1. \A g \in buffer[w] : g[1] \in Streams /\ cur[w][1] < g[1]
          BY <1>1, <2>2, StreamFact DEF Shape
        <4>2. QED
          BY <1>1, <1>4, <4>1, StreamBudget
      <3>4. \A g \in buffer[w] : idle'[e] <= Budget(g[1] - 1)
        BY <3>1, <3>2, <3>3
      <3>5. QED
        BY <1>1, <1>2, <2>1, <3>4 DEF Young, Working, Sweeping
    <2>5. QED
      BY <1>3, <2>1, <2>2, <2>3, <2>4 DEF Aged
  <1>7. QED
    BY <1>5, <1>6 DEF Settle

\* Sweeping: what a sweep has in hand it has just claimed.
LEMMA SweepStep ==
    ASSUME TInv, Next /\ Clocks, NEW w \in Workers,
           \/ Sweep(w) \/ RequeueAddError(w) \/ RequeueAckError(w)
           \/ \E found \in SUBSET pel : AutoclaimLive(w, found)
    PROVE  Shape(w)' /\ Aged(w)'
  <1>1. IInv /\ TypeOK /\ Shape(w) /\ pc[w] \in Sweeping /\ buffer' = buffer /\ buffer[w] = {}
    BY DEF TInv, IInv, Sweep, Autoclaim, AutoclaimLive, Claim, RequeueAdd, RequeueAck, SweepOn,
       RequeueAddError, RequeueAckError, Sweeping, Shape
  <1>2. \A e \in Entries : Msg(e)' = Msg(e)
    <2>1. CASE RequeueAdd(w)
      BY <1>1, <2>1, CopyFact
    <2>2. CASE ~RequeueAdd(w)
      <3>1. WorkerNext(w)
        BY DEF WorkerNext, Failure
      <3>2. QED
        BY <1>1, <2>2, <3>1, NoAddFact
    <2>3. QED
      BY <2>1, <2>2
  <1>3. CASE \E found \in SUBSET pel : Autoclaim(w, found) \/ AutoclaimLive(w, found)
    <2>1. /\ pc'[w] = "requeue" /\ cur' = cur /\ pel' = pel
          /\ pc[w] = "claim" /\ claimed[w] = {} /\ claimed'[w] \subseteq pel
      BY <1>1, <1>3 DEF Autoclaim, AutoclaimLive, Claim, TypeOK, redis, Shape
    <2>2. cur[w] = NoEntry
      BY <1>1, <2>1, StreamFact DEF Working
    <2>3. Held(w)' = claimed'[w] /\ claimed'[w] = NewlyClaimed(w)
      BY <1>1, <2>1, <2>2 DEF Held, NewlyClaimed
    <2>4. \A e \in Held(w)' : e \in pel' => idle'[e] = 0
      BY <2>3, AgeFact
    <2>5. Shape(w)'
      BY <1>1, <2>1 DEF Shape, Working, Sweeping
    <2>6. QED
      BY <1>1, <2>1, <2>4, <2>5, FreshHand DEF Sweeping
  <1>4. CASE \/ RequeueAdd(w) \/ RequeueAck(w) \/ SweepOn(w)
             \/ RequeueAddError(w) \/ RequeueAckError(w)
    <2>1. /\ pc'[w] \in Sweeping \cup {"fetch"} /\ Held(w)' \subseteq Held(w)
          /\ pc'[w] \notin {"requeue", "reack"} => claimed'[w] = {}
      BY <1>1, <1>4 DEF RequeueAdd, RequeueAck, SweepOn, RequeueAddError, RequeueAckError,
         Release, TypeOK, Sweeping, Held
    <2>2. Shape(w)'
      BY <1>1, <2>1 DEF Shape, Working, Sweeping
    <2>3. ASSUME NEW e \in Held(w), e \in pel', Msg(e) \notin late' PROVE idle'[e] = 0
      <3>1. Young(w, e) /\ idle'[e] \in Nat /\ idle'[e] <= idle[e]
        BY <2>3, KeptFact
      <3>2. QED
        BY <1>1, <3>1 DEF Young
    <2>4. \A e \in Held(w)' : Msg(e)' = Msg(e)
      BY <1>1, <1>2, <2>1, HeldFact
    <2>5. ASSUME NEW e \in Held(w)', e \in pel', Msg(e)' \notin late' PROVE Young(w, e)'
      BY <1>1, <2>1, <2>3, <2>4, <2>5 DEF Young, Working, Sweeping
    <2>6. QED
      BY <2>1, <2>2, <2>5 DEF Aged, Sweeping
  <1>5. QED
    BY <1>3, <1>4 DEF Sweep

\* Losing: the worker has nothing left.
LEMMA LoseStep ==
    ASSUME TInv, Next /\ Clocks, NEW w \in Workers, FetchLost(w) \/ Crash(w)
    PROVE  Shape(w)' /\ Aged(w)'
  <1>1. IInv /\ TypeOK /\ Shape(w)
    BY DEF TInv, IInv
  <1>2. /\ pc'[w] = "fetch" /\ cur'[w] = NoEntry /\ buffer'[w] = {} /\ claimed'[w] = {}
    BY <1>1, StreamFact DEF FetchLost, Crash, Release, TypeOK, loop, Shape, Working
  <1>3. Held(w)' = {}
    BY <1>2 DEF Held
  <1>4. Shape(w)'
    BY <1>2 DEF Shape, Working, Sweeping
  <1>5. Aged(w)'
    BY <1>2, <1>3 DEF Aged
  <1>6. QED
    BY <1>4, <1>5

------------------------------------------------------------------------------
(* Every step *)

\* A worker's buffer and claims are its own.
LEMMA OwnHand ==
    ASSUME IInv, NEW w \in Workers, WorkerNext(w), NEW v \in Workers \ {w}
    PROVE  UNCHANGED <<pc[v], cur[v], buffer[v], claimed[v]>>
  <1>1. TypeOK
    BY DEF IInv
  <1>2. CASE Fetch(w) \/ Settle(w)
    BY <1>1, <1>2 DEF TypeOK, Fetch, Settle, FetchBuffered, FetchNew, FetchNone, Start,
       Finish, Raise, DeadLetter, Acknowledge, Release
  <1>3. CASE Sweep(w)
    BY <1>1, <1>3 DEF TypeOK, Sweep, Autoclaim, Claim, RequeueAdd, RequeueAck, SweepOn, Release
  <1>4. CASE Failure(w)
    BY <1>1, <1>4 DEF TypeOK, Failure, FetchLost, DeadLetterError, AcknowledgeError,
       AutoclaimLive, Claim, RequeueAddError, RequeueAckError, Crash, Release, loop
  <1>5. QED
    BY <1>2, <1>3, <1>4 DEF WorkerNext

\* The workers' hands after a step of the loop.
LEMMA HandsNext ==
    ASSUME TInv, Next /\ Clocks
    PROVE  \A v \in Workers : Shape(v)' /\ Aged(v)'
  <1>1. IInv
    BY DEF TInv
  <1>2. ASSUME NEW m \in Messages, NEW s \in Streams, Publish(m, s), NEW v \in Workers
        PROVE  Shape(v)' /\ Aged(v)'
    <2>1. (\A e \in Entries : Msg(e)' = Msg(e)) /\ UNCHANGED <<pc[v], cur[v], buffer[v], claimed[v]>>
      BY <1>1, <1>2, PublishFrame DEF loop
    <2>2. QED
      BY <2>1, SameWorker
  <1>3. ASSUME NEW w \in Workers, WorkerNext(w), NEW v \in Workers
        PROVE  Shape(v)' /\ Aged(v)'
    <2>1. CASE v = w
      BY <1>3, <2>1, FetchStep, SettleStep, SweepStep, LoseStep DEF WorkerNext, Failure
    <2>2. CASE v # w
      <3>1. \A e \in Entries : Msg(e)' = Msg(e)
        BY <1>1, <1>3, WorkerFrame
      <3>2. UNCHANGED <<pc[v], cur[v], buffer[v], claimed[v]>>
        BY <1>1, <1>3, <2>2, OwnHand
      <3>3. QED
        BY <3>1, <3>2, SameWorker
    <2>3. QED
      BY <2>1, <2>2
  <1>4. QED
    BY <1>2, <1>3 DEF Next, WorkerNext

\* Time passes only while workers convert, and adds to their budgets.
LEMMA TickStep ==
    ASSUME TInv, Tick
    PROVE  TInv'
  <1>1. /\ IInv /\ TypeOK /\ StaleTypeOK /\ UNCHANGED vars /\ doubled' = doubled /\ late \subseteq late'
        /\ \A w \in Workers : Shape(w) /\ Aged(w)
    BY DEF TInv, IInv, Tick
  <1>2. /\ UNCHANGED <<log, last, pel, pc, cur, buffer, sweepAt, claimed, handled, raised, dead, faults>>
    BY <1>1 DEF vars, redis, loop, history
  <1>3. /\ \A e : Msg(e)' = Msg(e)
        /\ \A w : Held(w)' = Held(w)
        /\ \A k : Budget(k)' = Budget(k)
        /\ stale_min_idle' = stale_min_idle
    BY <1>2 DEF Msg, Held, NoEntry, Budget, stale_min_idle, MAX_BUFFERED
  <1>4. /\ Timeout \in Nat /\ stale_min_idle \in Nat /\ Tries * Timeout \in Nat
        /\ idle \in [pel -> 0..stale_min_idle] /\ spent \in [Workers -> 0..Tries * Timeout]
    <2>1. Timeout \in Nat /\ stale_min_idle \in Nat
      BY BudgetFact
    <2>2. Tries * Timeout \in Nat
      BY SweepAssumption DEF SweepAssumption
    <2>3. QED
      BY <1>1, <2>1, <2>2 DEF StaleTypeOK
  <1>5. StaleTypeOK'
    <2>1. idle' \in [pel' -> 0..stale_min_idle]
      BY <1>2, <1>4 DEF Tick
    <2>2. \A w \in Workers : pc[w] = "run" => spent[w] < Tries * Timeout
      BY DEF Tick, Converting, Waiting
    <2>3. spent' \in [Workers -> 0..Tries * Timeout]
      BY <1>4, <2>2 DEF Tick
    <2>4. late' \subseteq Messages
      BY <1>1, EntryMessage, HeldFact DEF Tick, StaleTypeOK
    <2>5. QED
      BY <1>1, <1>3, <2>1, <2>3, <2>4 DEF StaleTypeOK
  <1>6. ASSUME NEW w \in Workers PROVE Shape(w)' /\ Aged(w)'
    <2>1. Shape(w)'
      BY <1>1, <1>2 DEF Shape
    <2>2. CASE pc[w] = "run"
      <3>1. spent'[w] = spent[w] + 1 /\ spent[w] \in Nat
        BY <1>4, <2>2 DEF Tick
      <3>2. ASSUME NEW e \in Held(w), e \in pel, Msg(e) \notin late' PROVE Young(w, e)'
        <4>1. Young(w, e) /\ idle[e] \in Nat /\ idle'[e] \in Nat /\ idle'[e] <= idle[e] + 1
          BY <1>1, <1>4, <3>2 DEF Aged, Tick
        <4>2. Budget(cur[w][1] - 1) \in Nat
          BY <1>1, <2>2, StreamFact, BudgetFact DEF Working
        <4>3. idle'[e] <= Budget(cur[w][1] - 1) + spent'[w]
          BY <2>2, <3>1, <4>1, <4>2 DEF Young
        <4>4. QED
          BY <1>2, <1>3, <2>2, <4>3 DEF Young, Sweeping, Working
      <3>3. spent'[w] > Timeout => \A e \in Held(w) : Msg(e) \in late'
        <4>1. spent'[w] > Timeout => Overtime(w)
          BY <1>4, <2>2, <3>1 DEF Overtime
        <4>2. QED
          BY <4>1 DEF Tick
      <3>4. QED
        BY <1>2, <1>3, <2>1, <3>2, <3>3 DEF Aged
    <2>3. CASE pc[w] # "run"
      <3>1. buffer[w] = {} /\ claimed[w] = {} /\ pc[w] \in {"fetch", "claim", "requeue"}
        BY <2>3 DEF Tick, Converting, Waiting
      <3>2. cur[w] = NoEntry
        BY <1>1, <3>1, StreamFact DEF Working
      <3>3. Held(w)' = {}
        BY <1>3, <3>1, <3>2 DEF Held
      <3>4. QED
        BY <1>2, <2>1, <2>3, <3>3 DEF Aged
    <2>4. QED
      BY <2>2, <2>3
  <1>7. HeldInTime'
    BY <1>1, <1>2, <1>3 DEF TInv, HeldInTime, Exclusive, InTime, Sole
  <1>8. OneEntry'
    <2>1. /\ Available' = Available
          /\ \A e : Secured(e)' = Secured(e)
      BY <1>2 DEF Available, Delivered, Entries, Streams, Secured
    <2>2. QED
      BY <1>1, <1>3, <2>1 DEF TInv, OneEntry, OneCopy, Copies
  <1>9. IInv'
    BY <1>1, Inductive
  <1>10. QED
    BY <1>5, <1>6, <1>7, <1>8, <1>9 DEF TInv

LEMMA TimedInit == StaleInit => TInv
  <1> SUFFICES ASSUME StaleInit PROVE TInv
    OBVIOUS
  <1>1. Init /\ IInv
    BY Inductive DEF StaleInit
  <1>2. StaleTypeOK
    BY <1>1, BudgetFact, SweepAssumption DEF StaleInit, StaleTypeOK, Init, SweepAssumption
  <1>3. ASSUME NEW w \in Workers PROVE Shape(w) /\ Aged(w)
    BY <1>1 DEF Init, Shape, Aged, Working, Sweeping
  <1>4. HeldInTime
    BY <1>1, ExclusiveInductive DEF HeldInTime
  <1>5. OneEntry
    <2>1. Published = {}
      BY <1>1 DEF Init, Published, Entries
    <2>2. QED
      BY <1>1, <2>1, CopiesInductive DEF OneEntry
  <1>6. QED
    BY <1>1, <1>2, <1>3, <1>4, <1>5 DEF TInv

LEMMA TimedNext == TInv /\ [StaleNext]_timed => TInv'
  <1>1. TInv /\ Next /\ Clocks => TInv'
    BY Inductive, TypesNext, HandsNext, HeldNext, EntryNext DEF TInv
  <1>2. ASSUME TInv, UNCHANGED timed PROVE TInv'
    <2>1. UNCHANGED <<log, last, pel, pc, cur, buffer, sweepAt, claimed, handled, raised, dead,
                      faults, idle, spent, late, doubled>>
      BY <1>2 DEF timed, clocks, vars, redis, loop, history
    <2>2. IInv'
      BY <1>2, Inductive DEF TInv, timed
    <2>3. QED
      BY <1>2, <2>1, <2>2 DEF TInv, StaleTypeOK, Shape, Aged, Young, Budget, Held, Msg, NoEntry,
         HeldInTime, Exclusive, InTime, Sole, OneEntry, OneCopy, Copies, Available, Delivered,
         Entries, Streams, Secured, stale_min_idle, MAX_BUFFERED
  <1>3. QED
    BY <1>1, <1>2, TickStep DEF StaleNext

\* The types of the timed variables.
THEOREM StaleTypes == StaleSpec => []StaleTypeOK
  <1>1. TInv => StaleTypeOK
    BY DEF TInv
  <1>2. QED
    BY <1>1, TimedInit, TimedNext, PTL DEF StaleSpec

\* stale_min_idle_ms keeps the sweeps away from live workers: two workers process
\* the same message only if a worker that held it took longer than the timeout
\* over one entry, or a sweep failed between the copy and the acknowledgement.
THEOREM HeldOnceTheorem == StaleSpec => []HeldOnce
  <1>1. TInv => HeldOnce
    <2> SUFFICES ASSUME TInv, NEW v \in Workers, NEW w \in Workers, v # w,
                        pc[v] = "run", pc[w] = "run", Msg(cur[v]) = Msg(cur[w]),
                        Msg(cur[v]) \notin late \cup doubled
                 PROVE  FALSE
      BY DEF HeldOnce
    <2>1. IInv /\ TypeOK /\ HeldInTime /\ OneEntry
      BY DEF TInv, IInv
    <2>2. PICK m : m = Msg(cur[v])
      OBVIOUS
    <2>3. \A u \in {v, w} : cur[u] \in Entries /\ cur[u] # NoEntry /\ cur[u] \in Held(u)
      BY <2>1, NoEntryFact DEF IInv, SettledFirst, Delivered, Held
    <2>4. m \in Messages /\ m \in InTime
      BY <2>1, <2>2, <2>3, EntryMessage DEF InTime
    <2>5. \A u \in {v, w} : Sole(u, cur[u])
      BY <2>1, <2>2, <2>3, <2>4 DEF HeldInTime, Exclusive
    <2>6. ASSUME NEW u \in {v, w} PROVE cur[u] \in Copies({m})
      <3>1. cur[u] \in Available
        BY <2>5 DEF Sole, Available
      <3>2. Secured(cur[u])
        BY <2>3, <2>5 DEF Secured, Sole, Held
      <3>3. QED
        BY <2>2, <3>1, <3>2 DEF Copies
    <2>7. cur[v] = cur[w]
      BY <2>1, <2>2, <2>4, <2>6 DEF OneEntry, OneCopy
    <2>8. QED
      BY <2>3, <2>5, <2>7 DEF Sole
  <1>2. QED
    BY <1>1, TimedInit, TimedNext, PTL DEF StaleSpec
==============================================================================
