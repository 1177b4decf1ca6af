--------------------------- MODULE JobStreamProofs ---------------------------
(***************************************************************************)
(* Proofs about JobStream for any number of workers, streams, messages and *)
(* faults: the inductive invariant IInv, and from it NoLoss and the        *)
(* refinement of AtLeastOnceQueue.  Exclusive and OneCopy, stated for any  *)
(* set of messages, say who holds an entry and how many copies of a        *)
(* message there are, as long as a sweep takes nothing from a live worker. *)
(***************************************************************************)
EXTENDS JobStream, TLAPS

\* What an entry is: a stream and a position in it.
LEMMA EntryFact ==
    ASSUME TypeOK
    PROVE  \A e : e \in Entries <=> /\ e \in Streams \X Nat
                                    /\ 1 <= e[2] /\ e[2] <= Len(log[e[1]])
  <1>1. \A s \in Streams : Len(log[s]) \in Nat
    BY DEF TypeOK
  <1>2. ASSUME NEW e, e \in Entries
        PROVE  e \in Streams \X Nat /\ 1 <= e[2] /\ e[2] <= Len(log[e[1]])
    <2>1. PICK s \in Streams : e \in {s} \X (1..Len(log[s]))
      BY <1>2 DEF Entries
    <2>2. QED
      BY <2>1, <1>1
  <1>3. ASSUME NEW e, e \in Streams \X Nat, 1 <= e[2], e[2] <= Len(log[e[1]])
        PROVE  e \in Entries
    <2>1. e[1] \in Streams /\ e \in {e[1]} \X (1..Len(log[e[1]]))
      BY <1>3, <1>1
    <2>2. QED
      BY <2>1 DEF Entries
  <1>4. QED
    BY <1>2, <1>3

\* NoEntry is not an entry of any stream.
LEMMA NoEntryFact ==
    ASSUME TypeOK
    PROVE  NoEntry \notin Entries
  BY EntryFact DEF NoEntry, Streams

\* Adding a message to a stream adds one undelivered entry and changes no other.
LEMMA AddFact ==
    ASSUME TypeOK, NEW m \in Messages, NEW s \in Streams, Add(m, s), last' = last
    PROVE  /\ log' \in [Streams -> Seq(Messages)]
           /\ \A t \in Streams : Len(log[t]) <= Len(log'[t])
           /\ \A e \in Entries : Msg(e)' = Msg(e)
           /\ Delivered' = Delivered
           /\ \E new \in Entries' :
                /\ Entries' = Entries \cup {new}
                /\ new \notin Entries
                /\ new \notin Delivered
                /\ Msg(new)' = m
  <1> PICK new : new = <<s, Len(log[s]) + 1>>
    OBVIOUS
  <1>1. log \in [Streams -> Seq(Messages)] /\ last \in [Streams -> Nat]
        /\ \A t \in Streams : last[t] <= Len(log[t])
    BY DEF TypeOK
  <1>2. log' \in [Streams -> Seq(Messages)]
    BY <1>1 DEF Add
  <1>3. /\ Len(log'[s]) = Len(log[s]) + 1
        /\ log'[s][Len(log[s]) + 1] = m
        /\ \A i \in 1..Len(log[s]) : log'[s][i] = log[s][i]
    BY <1>1 DEF Add
  <1>4. \A t \in Streams \ {s} : log'[t] = log[t]
    BY <1>1 DEF Add
  <1>5. \A t \in Streams : Len(log[t]) \in Nat /\ Len(log'[t]) \in Nat
    BY <1>1, <1>2
  <1>6. \A e : e \in Entries' <=> /\ e \in Streams \X Nat
                                  /\ 1 <= e[2] /\ e[2] <= Len(log'[e[1]])
    <2>1. ASSUME NEW e, e \in Entries'
          PROVE  e \in Streams \X Nat /\ 1 <= e[2] /\ e[2] <= Len(log'[e[1]])
      <3>1. PICK t \in Streams : e \in {t} \X (1..Len(log'[t]))
        BY <2>1 DEF Entries
      <3>2. QED
        BY <3>1, <1>5
    <2>2. ASSUME NEW e, e \in Streams \X Nat, 1 <= e[2], e[2] <= Len(log'[e[1]])
          PROVE  e \in Entries'
      <3>1. e[1] \in Streams /\ e \in {e[1]} \X (1..Len(log'[e[1]]))
        BY <2>2, <1>5
      <3>2. QED
        BY <3>1 DEF Entries
    <2>3. QED
      BY <2>1, <2>2
  <1>7. new \in Streams \X Nat /\ new[1] = s /\ new[2] = Len(log[s]) + 1
    BY <1>5
  <1>8. new \notin Entries /\ new \in Entries'
    BY <1>3, <1>5, <1>6, <1>7, EntryFact
  <1>9. \A e \in Entries : e \in Entries'
    <2> SUFFICES ASSUME NEW e \in Entries PROVE e \in Entries'
      OBVIOUS
    <2>1. e \in Streams \X Nat /\ 1 <= e[2] /\ e[2] <= Len(log[e[1]])
      BY EntryFact
    <2>2. Len(log[e[1]]) <= Len(log'[e[1]])
      BY <2>1, <1>3, <1>4, <1>5
    <2>3. QED
      BY <2>1, <2>2, <1>5, <1>6
  <1>10. \A e \in Entries' : e \in Entries \/ e = new
    <2> SUFFICES ASSUME NEW e \in Entries', e \notin Entries PROVE e = new
      OBVIOUS
    <2>1. e \in Streams \X Nat /\ 1 <= e[2] /\ e[2] <= Len(log'[e[1]])
      BY <1>6
    <2>2. ~(e[2] <= Len(log[e[1]]))
      BY <2>1, EntryFact
    <2>3. e[1] = s
      BY <2>1, <2>2, <1>4, <1>5
    <2>4. e[2] = Len(log[s]) + 1
      BY <2>1, <2>2, <2>3, <1>3, <1>5
    <2>5. QED
      BY <2>1, <2>3, <2>4
  <1>11. Msg(new)' = m
    BY <1>3, <1>7 DEF Msg
  <1>12. \A e \in Entries : Msg(e)' = Msg(e)
    <2> SUFFICES ASSUME NEW e \in Entries PROVE Msg(e)' = Msg(e)
      OBVIOUS
    <2>1. e \in Streams \X Nat /\ 1 <= e[2] /\ e[2] <= Len(log[e[1]])
      BY EntryFact
    <2>2. QED
      BY <2>1, <1>3, <1>4, <1>5 DEF Msg
  <1>13. Delivered' = Delivered
    <2>1. ~(new[2] <= last[new[1]])
      BY <1>1, <1>5, <1>7
    <2>2. QED
      BY <2>1, <1>9, <1>10, <1>8 DEF Delivered
  <1>14. new \notin Delivered
    BY <1>8 DEF Delivered
  <1>15. \A t \in Streams : Len(log[t]) <= Len(log'[t])
    BY <1>3, <1>4, <1>5
  <1>16. QED
    BY <1>2, <1>8, <1>9, <1>10, <1>11, <1>12, <1>13, <1>14, <1>15

\* XREADGROUP moves the next entries from undelivered to pending: what is
\* available does not change.
LEMMA DeliverFact ==
    ASSUME TypeOK, Deliver
    PROVE  /\ Entries' = Entries
           /\ \A e : Msg(e)' = Msg(e)
           /\ last' \in [Streams -> Nat]
           /\ \A t \in Streams : last'[t] <= Len(log'[t])
           /\ NextDelivery \subseteq Entries \ Delivered
           /\ Delivered' = Delivered \cup NextDelivery
           /\ Available' = Available
  <1>1. last \in [Streams -> Nat] /\ \A t \in Streams : last[t] <= Len(log[t])
    BY DEF TypeOK
  <1>2. \A t \in Streams : Len(log[t]) \in Nat
    BY DEF TypeOK
  <1>3. Entries' = Entries /\ \A e : Msg(e)' = Msg(e)
    BY DEF Deliver, Entries, Msg
  <1>4. /\ last' \in [Streams -> Nat]
        /\ \A t \in Streams : last'[t] <= Len(log'[t])
    BY <1>1, <1>2 DEF Deliver, Undelivered
  <1>5. NextDelivery \subseteq Entries \ Delivered
    <2> SUFFICES ASSUME NEW t \in Undelivered
                 PROVE  <<t, last[t] + 1>> \in Entries \ Delivered
      BY DEF NextDelivery
    <2>1. t \in Streams /\ last[t] \in Nat /\ last[t] + 1 <= Len(log[t])
      BY <1>1, <1>2 DEF Undelivered
    <2>2. QED
      BY <2>1, EntryFact DEF Delivered
  <1>6. Delivered' = Delivered \cup NextDelivery
    <2>1. ASSUME NEW e \in Entries
          PROVE  e[2] <= last'[e[1]] <=> e[2] <= last[e[1]] \/ e \in NextDelivery
      <3>1. /\ e \in Streams \X Nat /\ e[2] <= Len(log[e[1]])
            /\ last[e[1]] \in Nat /\ Len(log[e[1]]) \in Nat
        BY EntryFact, <1>1, <1>2
      <3>2. e \in NextDelivery <=> e[1] \in Undelivered /\ e[2] = last[e[1]] + 1
        BY <3>1 DEF NextDelivery
      <3>3. CASE e[1] \in Undelivered
        BY <3>1, <3>2, <3>3 DEF Deliver
      <3>4. CASE e[1] \notin Undelivered
        BY <3>1, <3>2, <3>4 DEF Deliver
      <3>5. QED
        BY <3>3, <3>4
    <2>2. QED
      BY <2>1, <1>3, <1>5 DEF Delivered
  <1>7. Available' = Available
    BY <1>3, <1>5, <1>6 DEF Available, Deliver
  <1>8. QED
    BY <1>3, <1>4, <1>5, <1>6, <1>7

\* The steps of a worker that leave the streams alone.
LEMMA SameStreams ==
    ASSUME UNCHANGED <<log, last>>
    PROVE  /\ Entries' = Entries
           /\ Delivered' = Delivered
           /\ Published' = Published
           /\ \A e : Msg(e)' = Msg(e)
  BY DEF Entries, Delivered, Published, Msg

\* Recoverable survives a step that loses no available entry, adds no message,
\* and after which no further worker is between the copy and the XACK.
LEMMA QuietStep ==
    ASSUME Recoverable,
           Entries' = Entries, Available' = Available,
           \A e : Msg(e)' = Msg(e),
           handled \subseteq handled',
           \A w \in Workers : pc'[w] = "reack" => pc[w] = "reack" /\ cur'[w] = cur[w]
    PROVE  Recoverable'
  <1>1. Published' = Published
    BY DEF Published
  <1> SUFFICES ASSUME NEW m \in Published \ handled
               PROVE  \E e \in Available' : Msg(e)' = m /\ Secured(e)'
    BY <1>1 DEF Recoverable
  <1>2. PICK e \in Available : Msg(e) = m /\ Secured(e)
    BY DEF Recoverable
  <1>3. Secured(e)'
    BY <1>2 DEF Secured
  <1>4. QED
    BY <1>2, <1>3

\* The group neither gains nor loses an entry when only the worker moves.
LEMMA SameRedis ==
    ASSUME UNCHANGED redis
    PROVE  /\ Entries' = Entries /\ Delivered' = Delivered
           /\ Available' = Available /\ Published' = Published
           /\ \A e : Msg(e)' = Msg(e)
  BY SameStreams DEF redis, Available

\* Init establishes the inductive invariant.
LEMMA InitIInv ==
    ASSUME Init
    PROVE  IInv
  <1>1. Entries = {}
    <2>1. \A s \in Streams : Len(log[s]) = 0
      BY DEF Init
    <2>2. QED
      BY <2>1 DEF Entries
  <1>2. Published = {} /\ Delivered = {}
    BY <1>1 DEF Published, Delivered
  <1>3. log \in [Streams -> Seq(Messages)]
    BY DEF Init
  <1>4. TypeOK
    BY <1>2, <1>3, StreamAssumption DEF Init, TypeOK, PCs, Streams
  <1>5. Recoverable /\ SettledFirst
    BY <1>2 DEF Init, Recoverable, SettledFirst
  <1>6. QED
    BY <1>4, <1>5 DEF IInv

\* Publishing a job: its entry is new, undelivered, and nobody is re-queueing it.
LEMMA PublishStep ==
    ASSUME IInv, NEW m \in Messages, NEW s \in Streams, Publish(m, s)
    PROVE  IInv'
  <1>1. TypeOK /\ Recoverable /\ SettledFirst /\ UNCHANGED <<last, pel, loop, history, faults>>
        /\ Add(m, s)
    BY DEF IInv, Publish
  <1>2. /\ log' \in [Streams -> Seq(Messages)]
        /\ \A t \in Streams : Len(log[t]) <= Len(log'[t])
        /\ \A e \in Entries : Msg(e)' = Msg(e)
        /\ Delivered' = Delivered
    BY <1>1, AddFact
  <1>3. PICK new \in Entries' : /\ Entries' = Entries \cup {new}
                                /\ new \notin Entries
                                /\ new \notin Delivered
                                /\ Msg(new)' = m
    BY <1>1, AddFact
  <1>4. Published' = Published \cup {m} /\ Available' = Available \cup {new}
    <2>1. Delivered \subseteq Entries
      BY DEF Delivered
    <2>2. Published' = Published \cup {m}
      BY <1>2, <1>3 DEF Published
    <2>3. Available' = Available \cup {new}
      BY <1>1, <1>2, <1>3, <2>1 DEF Available
    <2>4. QED
      BY <2>2, <2>3
  <1>5. \A e \in Available : e \in Entries
    BY <1>1 DEF Available, TypeOK, Delivered
  <1>6. TypeOK'
    <2>1. \A t \in Streams : last[t] <= Len(log'[t])
      <3>1. \A t \in Streams : last[t] \in Nat /\ Len(log[t]) \in Nat /\ Len(log'[t]) \in Nat
        BY <1>1, <1>2 DEF TypeOK
      <3>2. QED
        BY <3>1, <1>1, <1>2 DEF TypeOK
    <2>2. QED
      BY <1>1, <1>2, <1>4, <2>1 DEF TypeOK, loop, history
  <1>7. Recoverable'
    <2> SUFFICES ASSUME NEW k \in Published' \ handled'
                 PROVE  \E e \in Available' : Msg(e)' = k /\ Secured(e)'
      BY DEF Recoverable
    <2>1. CASE k \in Published
      <3>1. PICK e \in Available : Msg(e) = k /\ Secured(e)
        BY <1>1, <2>1 DEF Recoverable, history
      <3>2. QED
        BY <3>1, <1>1, <1>2, <1>4, <1>5 DEF Secured, loop
    <2>2. CASE k = m
      <3>1. \A w \in Workers : cur[w] # new \/ pc[w] # "reack"
        BY <1>1, <1>3 DEF SettledFirst
      <3>2. Secured(new)'
        BY <3>1, <1>1 DEF Secured, loop
      <3>3. QED
        BY <3>2, <2>2, <1>3, <1>4
    <2>3. QED
      BY <2>1, <2>2, <1>4
  <1>8. SettledFirst'
    <2>1. Delivered \subseteq Entries
      BY DEF Delivered
    <2>2. QED
      BY <1>1, <1>2, <2>1 DEF SettledFirst, loop, history
  <1>9. QED
    BY <1>6, <1>7, <1>8 DEF IInv

\* Every step of a worker that leaves Redis alone: buffered fetches, the outcome
\* of process_job, dead-lettering, failed calls, claiming, moving on, crashing.
LoopOnly(w) ==
    \/ FetchBuffered(w) \/ FetchNone(w)
    \/ Finish(w) \/ Raise(w) \/ DeadLetter(w) \/ DeadLetterError(w)
    \/ AcknowledgeError(w) \/ RequeueAddError(w) \/ RequeueAckError(w)
    \/ SweepOn(w) \/ Crash(w)
    \/ \E idle \in SUBSET pel : Autoclaim(w, idle) \/ AutoclaimLive(w, idle)

\* Such a step preserves the inductive invariant.
LEMMA LoopStep ==
    ASSUME IInv, NEW w \in Workers, LoopOnly(w)
    PROVE  IInv'
  <1>1. TypeOK /\ Recoverable /\ SettledFirst
    BY DEF IInv
  <1>2. UNCHANGED redis
    BY DEF LoopOnly, FetchBuffered, FetchNone, Finish, Raise, DeadLetter,
           DeadLetterError, AcknowledgeError, RequeueAddError, RequeueAckError,
           SweepOn, Crash, Autoclaim, AutoclaimLive, Claim
  <1>3. /\ Entries' = Entries /\ Delivered' = Delivered
        /\ Available' = Available /\ Published' = Published
        /\ \A e : Msg(e)' = Msg(e)
    BY <1>2, SameRedis
  <1>4. NoEntry \notin Delivered
    BY <1>1, NoEntryFact DEF Delivered
  <1>5. \A v \in Workers : pc[v] \in {"run", "ack", "dlq", "fail"} => Msg(cur[v]) \in Published
    BY <1>1 DEF SettledFirst, Published, Delivered
  <1> DEFINE Good == /\ TypeOK' /\ SettledFirst'
                     /\ handled \subseteq handled'
                     /\ \A v \in Workers : pc'[v] = "reack" =>
                            pc[v] = "reack" /\ cur'[v] = cur[v]
  <1>6. ASSUME FetchBuffered(w) PROVE Good
    <2>1. TypeOK'
      BY <1>1, <1>2, <1>3, <1>5, <1>6
      DEF FetchBuffered, Start, TypeOK, redis, loop, history, PCs, Streams
    <2>2. SettledFirst'
      BY <1>1, <1>3, <1>4, <1>6
      DEF FetchBuffered, Start, SettledFirst, TypeOK, redis, loop, history
    <2>3. QED
      BY <2>1, <2>2, <1>1, <1>6 DEF FetchBuffered, Start, TypeOK, loop, history
  <1>7. ASSUME FetchNone(w) PROVE Good
    <2>1. TypeOK'
      <3>1. 1 \in Streams
        BY StreamAssumption DEF Streams
      <3>2. QED
        BY <3>1, <1>1, <1>2, <1>3, <1>7
        DEF FetchNone, TypeOK, redis, loop, history, PCs
    <2>2. SettledFirst'
      BY <1>1, <1>3, <1>4, <1>7
      DEF FetchNone, SettledFirst, TypeOK, redis, loop, history
    <2>3. QED
      BY <2>1, <2>2, <1>1, <1>7 DEF FetchNone, TypeOK, loop, history
  <1>8. ASSUME Finish(w) PROVE Good
    <2>1. TypeOK'
      BY <1>1, <1>2, <1>3, <1>5, <1>8
      DEF Finish, TypeOK, redis, loop, history, PCs, Streams
    <2>2. SettledFirst'
      BY <1>1, <1>3, <1>4, <1>8
      DEF Finish, SettledFirst, TypeOK, redis, loop, history
    <2>3. QED
      BY <2>1, <2>2, <1>1, <1>8 DEF Finish, TypeOK, loop, history
  <1>9. ASSUME Raise(w) PROVE Good
    <2>1. TypeOK'
      BY <1>1, <1>2, <1>3, <1>5, <1>9
      DEF Raise, TypeOK, redis, loop, history, PCs, Streams
    <2>2. SettledFirst'
      BY <1>1, <1>3, <1>4, <1>9
      DEF Raise, SettledFirst, TypeOK, redis, loop, history
    <2>3. QED
      BY <2>1, <2>2, <1>1, <1>9 DEF Raise, TypeOK, loop, history
  <1>10. ASSUME DeadLetter(w) PROVE Good
    <2>1. TypeOK'
      BY <1>1, <1>2, <1>3, <1>5, <1>10
      DEF DeadLetter, TypeOK, redis, loop, history, PCs, Streams
    <2>2. SettledFirst'
      BY <1>1, <1>3, <1>4, <1>10
      DEF DeadLetter, SettledFirst, TypeOK, redis, loop, history
    <2>3. QED
      BY <2>1, <2>2, <1>1, <1>10 DEF DeadLetter, TypeOK, loop, history
  <1>11. ASSUME DeadLetterError(w) PROVE Good
    <2>1. TypeOK'
      BY <1>1, <1>2, <1>3, <1>5, <1>11, StreamAssumption
      DEF DeadLetterError, Fault, TypeOK, redis, loop, history, PCs, Streams
    <2>2. SettledFirst'
      BY <1>1, <1>3, <1>4, <1>11
      DEF DeadLetterError, Fault, SettledFirst, TypeOK, redis, loop, history
    <2>3. QED
      BY <2>1, <2>2, <1>1, <1>11 DEF DeadLetterError, Fault, TypeOK, loop, history
  <1>12. ASSUME AcknowledgeError(w) PROVE Good
    <2>1. TypeOK'
      BY <1>1, <1>2, <1>3, <1>5, <1>12, StreamAssumption
      DEF AcknowledgeError, Fault, Release, TypeOK, redis, loop, history, PCs, Streams
    <2>2. SettledFirst'
      BY <1>1, <1>3, <1>4, <1>12
      DEF AcknowledgeError, Fault, Release, SettledFirst, TypeOK, redis, loop, history
    <2>3. QED
      BY <2>1, <2>2, <1>1, <1>12 DEF AcknowledgeError, Fault, Release, TypeOK, loop, history
  <1>13. ASSUME RequeueAddError(w) PROVE Good
    <2>1. TypeOK'
      BY <1>1, <1>2, <1>3, <1>5, <1>13, StreamAssumption
      DEF RequeueAddError, Fault, TypeOK, redis, loop, history, PCs, Streams
    <2>2. SettledFirst'
      BY <1>1, <1>3, <1>4, <1>13
      DEF RequeueAddError, Fault, SettledFirst, TypeOK, redis, loop, history
    <2>3. QED
      BY <2>1, <2>2, <1>1, <1>13 DEF RequeueAddError, Fault, TypeOK, loop, history
  <1>14. ASSUME RequeueAckError(w) PROVE Good
    <2>1. TypeOK'
      BY <1>1, <1>2, <1>3, <1>5, <1>14, StreamAssumption
      DEF RequeueAckError, Fault, Release, TypeOK, redis, loop, history, PCs, Streams
    <2>2. SettledFirst'
      BY <1>1, <1>3, <1>4, <1>14
      DEF RequeueAckError, Fault, Release, SettledFirst, TypeOK, redis, loop, history
    <2>3. QED
      BY <2>1, <2>2, <1>1, <1>14 DEF RequeueAckError, Fault, Release, TypeOK, loop, history
  <1>15. ASSUME SweepOn(w) PROVE Good
    <2>1. TypeOK'
      BY <1>1, <1>2, <1>3, <1>5, <1>15, StreamAssumption
      DEF SweepOn, TypeOK, redis, loop, history, PCs, Streams
    <2>2. SettledFirst'
      BY <1>1, <1>3, <1>4, <1>15
      DEF SweepOn, SettledFirst, TypeOK, redis, loop, history
    <2>3. QED
      BY <2>1, <2>2, <1>1, <1>15 DEF SweepOn, TypeOK, loop, history
  <1>16. ASSUME Crash(w) PROVE Good
    <2>1. TypeOK'
      BY <1>1, <1>2, <1>3, <1>5, <1>16, StreamAssumption
      DEF Crash, Fault, Release, TypeOK, redis, loop, history, PCs, Streams
    <2>2. SettledFirst'
      BY <1>1, <1>3, <1>4, <1>16
      DEF Crash, Fault, Release, SettledFirst, TypeOK, redis, loop, history
    <2>3. QED
      BY <2>1, <2>2, <1>1, <1>16 DEF Crash, Fault, Release, TypeOK, loop, history
  <1>17. ASSUME NEW idle \in SUBSET pel, Autoclaim(w, idle)
        PROVE  Good
    <2>1. TypeOK'
      BY <1>1, <1>2, <1>3, <1>17
      DEF Autoclaim, Claim, TypeOK, redis, loop, history, PCs
    <2>2. SettledFirst'
      BY <1>1, <1>3, <1>4, <1>17
      DEF Autoclaim, Claim, SettledFirst, TypeOK, redis, loop, history
    <2>3. QED
      BY <2>1, <2>2, <1>1, <1>17 DEF Autoclaim, Claim, TypeOK, loop, history
  <1>18. ASSUME NEW idle \in SUBSET pel, AutoclaimLive(w, idle)
        PROVE  Good
    <2>1. TypeOK'
      BY <1>1, <1>2, <1>3, <1>18, StreamAssumption
      DEF AutoclaimLive, Claim, Fault, TypeOK, redis, loop, history, PCs
    <2>2. SettledFirst'
      BY <1>1, <1>3, <1>4, <1>18
      DEF AutoclaimLive, Claim, Fault, SettledFirst, TypeOK, redis, loop, history
    <2>3. QED
      BY <2>1, <2>2, <1>1, <1>18 DEF AutoclaimLive, Claim, Fault, TypeOK, loop, history
  <1>19. Good
    BY <1>6, <1>7, <1>8, <1>9, <1>10, <1>11, <1>12, <1>13, <1>14, <1>15, <1>16, <1>17, <1>18 DEF LoopOnly
  <1>20. Recoverable'
    BY <1>19, <1>1, <1>3, QuietStep
  <1>21. QED
    BY <1>19, <1>20 DEF IInv

\* XREADGROUP, whether its reply arrives or not.
LEMMA ReadStep ==
    ASSUME IInv, NEW w \in Workers, FetchNew(w) \/ FetchLost(w)
    PROVE  IInv'
  <1>1. TypeOK /\ Recoverable /\ SettledFirst /\ Deliver
    BY DEF IInv, FetchNew, FetchLost
  <1>2. /\ Entries' = Entries
        /\ \A e : Msg(e)' = Msg(e)
        /\ last' \in [Streams -> Nat]
        /\ \A t \in Streams : last'[t] <= Len(log'[t])
        /\ NextDelivery \subseteq Entries \ Delivered
        /\ Delivered' = Delivered \cup NextDelivery
        /\ Available' = Available
    BY <1>1, DeliverFact
  <1>3. Published' = Published
    BY <1>2 DEF Published
  <1>4. NoEntry \notin Delivered'
    BY <1>1, <1>2, NoEntryFact DEF Delivered
  <1>5. log' \in [Streams -> Seq(Messages)] /\ pel' \subseteq Delivered'
    BY <1>1, <1>2 DEF Deliver, TypeOK
  <1>6. \A v \in Workers : cur[v] \in Delivered' => cur[v] \in Delivered
    BY <1>1, <1>2, <1>4 DEF TypeOK
  <1> DEFINE Good == /\ TypeOK' /\ SettledFirst'
                     /\ handled \subseteq handled'
                     /\ \A v \in Workers : pc'[v] = "reack" =>
                            pc[v] = "reack" /\ cur'[v] = cur[v]
  <1>7. ASSUME FetchNew(w) PROVE Good
    <2>1. TypeOK'
      BY <1>1, <1>2, <1>3, <1>5, <1>7
      DEF FetchNew, Start, TypeOK, history, PCs
    <2>2. SettledFirst'
      BY <1>1, <1>2, <1>4, <1>6, <1>7
      DEF FetchNew, Start, SettledFirst, TypeOK, history
    <2>3. QED
      BY <2>1, <2>2, <1>1, <1>7 DEF FetchNew, Start, TypeOK, history
  <1>8. ASSUME FetchLost(w) PROVE Good
    <2>1. TypeOK'
      BY <1>1, <1>2, <1>3, <1>5, <1>8, StreamAssumption
      DEF FetchLost, Fault, TypeOK, loop, history
    <2>2. SettledFirst'
      BY <1>1, <1>2, <1>4, <1>6, <1>8
      DEF FetchLost, SettledFirst, loop, history
    <2>3. QED
      BY <2>1, <2>2, <1>8 DEF FetchLost, loop, history
  <1>9. Recoverable'
    BY <1>1, <1>2, <1>7, <1>8, QuietStep
  <1>10. QED
    BY <1>7, <1>8, <1>9 DEF IInv

\* An XACK by the worker that processed the message removes an entry of a
\* handled message only.
LEMMA AcknowledgeStep ==
    ASSUME IInv, NEW w \in Workers, Acknowledge(w)
    PROVE  IInv'
  <1>1. TypeOK /\ Recoverable /\ SettledFirst
    BY DEF IInv
  <1>2. UNCHANGED <<log, last>> /\ pel' = pel \ {cur[w]}
    BY DEF Acknowledge
  <1>3. /\ Entries' = Entries /\ Delivered' = Delivered
        /\ Published' = Published /\ \A e : Msg(e)' = Msg(e)
    BY <1>2, SameStreams
  <1>4. NoEntry \notin Delivered
    BY <1>1, NoEntryFact DEF Delivered
  <1>5. TypeOK'
    BY <1>1, <1>2, <1>3 DEF Acknowledge, Release, TypeOK, history, PCs
  <1>6. SettledFirst'
    BY <1>1, <1>3, <1>4 DEF Acknowledge, Release, SettledFirst, TypeOK, history
  <1>7. Recoverable'
    <2> SUFFICES ASSUME NEW m \in Published \ handled
                 PROVE  \E e \in Available' : Msg(e)' = m /\ Secured(e)'
      BY <1>3 DEF Recoverable, Acknowledge, history
    <2>1. PICK e \in Available : Msg(e) = m /\ Secured(e)
      BY <1>1 DEF Recoverable
    <2>2. e # cur[w]
      BY <2>1, <1>1 DEF SettledFirst, Acknowledge
    <2>3. e \in Available'
      BY <2>1, <2>2, <1>2, <1>3 DEF Available
    <2>4. Secured(e)'
      BY <2>1, <1>1 DEF Secured, Acknowledge, Release, TypeOK
    <2>5. QED
      BY <2>1, <2>3, <2>4, <1>3
  <1>8. QED
    BY <1>5, <1>6, <1>7 DEF IInv

\* The XACK of a sweep removes an entry no unhandled message depends on.
LEMMA RequeueAckStep ==
    ASSUME IInv, NEW w \in Workers, RequeueAck(w)
    PROVE  IInv'
  <1>1. TypeOK /\ Recoverable /\ SettledFirst
    BY DEF IInv
  <1>2. UNCHANGED <<log, last>> /\ pel' = pel \ {cur[w]}
    BY DEF RequeueAck
  <1>3. /\ Entries' = Entries /\ Delivered' = Delivered
        /\ Published' = Published /\ \A e : Msg(e)' = Msg(e)
    BY <1>2, SameStreams
  <1>4. NoEntry \notin Delivered
    BY <1>1, NoEntryFact DEF Delivered
  <1>5. TypeOK'
    BY <1>1, <1>2, <1>3 DEF RequeueAck, Release, TypeOK, history, PCs
  <1>6. SettledFirst'
    BY <1>1, <1>3, <1>4 DEF RequeueAck, Release, SettledFirst, TypeOK, history
  <1>7. Recoverable'
    <2> SUFFICES ASSUME NEW m \in Published \ handled
                 PROVE  \E e \in Available' : Msg(e)' = m /\ Secured(e)'
      BY <1>3 DEF Recoverable, RequeueAck, history
    <2>1. PICK e \in Available : Msg(e) = m /\ Secured(e)
      BY <1>1 DEF Recoverable
    <2>2. e # cur[w]
      BY <2>1 DEF Secured, RequeueAck
    <2>3. e \in Available'
      BY <2>1, <2>2, <1>2, <1>3 DEF Available
    <2>4. Secured(e)'
      BY <2>1, <1>1 DEF Secured, RequeueAck, Release, TypeOK
    <2>5. QED
      BY <2>1, <2>3, <2>4, <1>3
  <1>8. QED
    BY <1>5, <1>6, <1>7 DEF IInv

\* The copy a sweep adds keeps its message alive, so the original it was made
\* from is free to be acknowledged.
LEMMA RequeueAddStep ==
    ASSUME IInv, NEW w \in Workers, RequeueAdd(w)
    PROVE  IInv'
  <1>1. TypeOK /\ Recoverable /\ SettledFirst /\ last' = last /\ pel' = pel
        /\ pc' = [pc EXCEPT ![w] = "reack"] /\ handled' = handled
    BY DEF IInv, RequeueAdd, history
  <1>2. PICK o \in claimed[w] :
            /\ Add(Msg(o), sweepAt[w])
            /\ cur' = [cur EXCEPT ![w] = o]
            /\ claimed' = [claimed EXCEPT ![w] = @ \ {o}]
    BY DEF RequeueAdd
  <1>3. o \in Delivered /\ sweepAt[w] \in Streams
    BY <1>1 DEF TypeOK
  <1>4. o \in Entries /\ Delivered \subseteq Entries
    BY <1>3 DEF Delivered
  <1>5. Msg(o) \in Messages
    <2>1. o \in Streams \X Nat /\ 1 <= o[2] /\ o[2] <= Len(log[o[1]])
      BY <1>1, <1>4, EntryFact
    <2>2. log[o[1]] \in Seq(Messages) /\ o[2] \in 1..Len(log[o[1]])
      BY <1>1, <2>1 DEF TypeOK
    <2>3. QED
      BY <2>2 DEF Msg
  <1>6. /\ log' \in [Streams -> Seq(Messages)]
        /\ \A t \in Streams : Len(log[t]) <= Len(log'[t])
        /\ \A e \in Entries : Msg(e)' = Msg(e)
        /\ Delivered' = Delivered
    BY <1>1, <1>2, <1>3, <1>5, AddFact
  <1>7. PICK new \in Entries' : /\ Entries' = Entries \cup {new}
                                /\ new \notin Entries
                                /\ new \notin Delivered
                                /\ Msg(new)' = Msg(o)
    BY <1>1, <1>2, <1>3, <1>5, AddFact
  <1>8. Published' = Published /\ Available' = Available \cup {new}
    <2>1. Published' = Published \cup {Msg(o)}
      BY <1>6, <1>7 DEF Published
    <2>2. Msg(o) \in Published
      BY <1>4 DEF Published
    <2>3. Available' = Available \cup {new}
      BY <1>1, <1>4, <1>6, <1>7 DEF Available
    <2>4. QED
      BY <2>1, <2>2, <2>3
  <1>9. TypeOK'
    <2>1. \A t \in Streams : last[t] <= Len(log'[t])
      <3>1. \A t \in Streams : last[t] \in Nat /\ Len(log[t]) \in Nat /\ Len(log'[t]) \in Nat
        BY <1>1, <1>6 DEF TypeOK
      <3>2. QED
        BY <3>1, <1>1, <1>6 DEF TypeOK
    <2>2. QED
      BY <1>1, <1>2, <1>3, <1>6, <1>8, <2>1 DEF RequeueAdd, TypeOK, history, PCs
  <1>10. SettledFirst'
    BY <1>1, <1>2, <1>3, <1>4, <1>6 DEF SettledFirst, TypeOK
  <1>11. \A v \in Workers : pc'[v] = "reack" => cur'[v] # new
    BY <1>6, <1>7, <1>10 DEF SettledFirst
  <1>12. Recoverable'
    <2> SUFFICES ASSUME NEW m \in Published \ handled
                 PROVE  \E e \in Available' : Msg(e)' = m /\ Secured(e)'
      BY <1>1, <1>8 DEF Recoverable
    <2>1. CASE m = Msg(o)
      <3>1. Secured(new)'
        BY <1>11 DEF Secured
      <3>2. QED
        BY <3>1, <2>1, <1>7, <1>8
    <2>2. CASE m # Msg(o)
      <3>1. PICK e \in Available : Msg(e) = m /\ Secured(e)
        BY <1>1 DEF Recoverable
      <3>2. e # o /\ e \in Entries
        BY <3>1, <2>2, <1>1 DEF Available, TypeOK, Delivered
      <3>3. Secured(e)'
        BY <3>1, <3>2, <1>1, <1>2 DEF Secured, TypeOK
      <3>4. QED
        BY <3>1, <3>2, <3>3, <1>6, <1>8
    <2>3. QED
      BY <2>1, <2>2
  <1>13. QED
    BY <1>9, <1>10, <1>12 DEF IInv

\* A step in which nothing changes.
LEMMA StutterStep ==
    ASSUME IInv, UNCHANGED vars
    PROVE  IInv'
  <1>1. UNCHANGED redis /\ UNCHANGED loop /\ UNCHANGED history /\ UNCHANGED faults
    BY DEF vars
  <1>2. /\ Entries' = Entries /\ Delivered' = Delivered
        /\ Available' = Available /\ Published' = Published
        /\ \A e : Msg(e)' = Msg(e)
    BY <1>1, SameRedis
  <1>3. TypeOK'
    BY <1>1, <1>2 DEF IInv, TypeOK, redis, loop, history
  <1>4. SettledFirst'
    BY <1>1, <1>2 DEF IInv, SettledFirst, loop, history
  <1>5. Recoverable'
    BY <1>1, <1>2 DEF IInv, Recoverable, Secured, loop, history
  <1>6. QED
    BY <1>3, <1>4, <1>5 DEF IInv

\* The invariant is inductive.
LEMMA NextStep ==
    ASSUME IInv, [Next]_vars
    PROVE  IInv'
  <1>1. ASSUME NEW m \in Messages, NEW s \in Streams, Publish(m, s)
        PROVE  IInv'
    BY <1>1, PublishStep
  <1>2. ASSUME NEW w \in Workers, Fetch(w) \/ Settle(w) \/ Sweep(w) \/ Failure(w)
        PROVE  IInv'
    <2>1. \/ LoopOnly(w) \/ FetchNew(w) \/ FetchLost(w)
          \/ Acknowledge(w) \/ RequeueAdd(w) \/ RequeueAck(w)
      BY <1>2 DEF Fetch, Settle, Sweep, Failure, LoopOnly
    <2>2. QED
      BY <2>1, LoopStep, ReadStep, AcknowledgeStep, RequeueAddStep, RequeueAckStep
  <1>3. ASSUME UNCHANGED vars
        PROVE  IInv'
    BY <1>3, StutterStep
  <1>4. QED
    BY <1>1, <1>2, <1>3 DEF Next

\* Both halves of the induction as one formula, for the modules that use the
\* queue through INSTANCE.
LEMMA Inductive == (Init => IInv) /\ (IInv /\ [Next]_vars => IInv')
BY InitIInv, NextStep

\* The type invariant and its strengthening hold of every reachable state.
THEOREM Invariance == Spec => []IInv
  <1>1. Init => IInv
    BY InitIInv
  <1>2. IInv /\ [Next]_vars => IInv'
    BY NextStep
  <1>3. QED
    BY <1>1, <1>2, PTL DEF Spec

\* Every value of the state stays within its type.
THEOREM TypeCorrect == Spec => []TypeOK
  <1>1. IInv => TypeOK
    BY DEF IInv
  <1>2. QED
    BY <1>1, Invariance, PTL

\* No published job is lost, whatever crashes, failed Redis calls and premature
\* reclaims happen.
THEOREM NoLossTheorem == Spec => []NoLoss
  <1>1. IInv => NoLoss
    BY DEF IInv, Recoverable, NoLoss, Live
  <1>2. QED
    BY <1>1, Invariance, PTL

------------------------------------------------------------------------------
(* The refinement of AtLeastOnceQueue. *)

Pool == {m \in Messages : Live(m)}

\* A live message was published, and entries carry messages.
LEMMA PoolFact ==
    ASSUME TypeOK
    PROVE  /\ Pool \subseteq Published
           /\ Published \subseteq Messages
           /\ \A m : Live(m) => m \in Pool
           /\ Available \subseteq Entries
  <1>1. Available \subseteq Entries
    BY DEF Available, Delivered, TypeOK
  <1>2. ASSUME NEW e \in Entries PROVE Msg(e) \in Messages
    <2>1. e \in Streams \X Nat /\ 1 <= e[2] /\ e[2] <= Len(log[e[1]])
      BY EntryFact
    <2>2. log[e[1]] \in Seq(Messages) /\ e[2] \in 1..Len(log[e[1]])
      BY <2>1 DEF TypeOK
    <2>3. QED
      BY <2>2 DEF Msg
  <1>3. Published \subseteq Messages
    BY <1>2 DEF Published
  <1>4. QED
    BY <1>1, <1>2, <1>3 DEF Pool, Live, Published

\* Steps that keep the available entries keep the pool.
LEMMA SamePool ==
    ASSUME Available' = Available, \A e : Msg(e)' = Msg(e)
    PROVE  Pool' = Pool
  BY DEF Pool, Live

\* An XACK of e takes at most the message of e out of the pool.
LEMMA AckPool ==
    ASSUME TypeOK, NEW e \in Delivered, UNCHANGED <<log, last>>, pel' = pel \ {e}
    PROVE  Pool' = Pool \/ Pool' = Pool \ {Msg(e)}
  <1>1. /\ Entries' = Entries /\ Delivered' = Delivered
        /\ \A d : Msg(d)' = Msg(d)
    BY SameStreams
  <1>2. Available' \subseteq Available /\ Available \subseteq Available' \cup {e}
    BY <1>1 DEF Available
  <1>3. \A m : Live(m)' => Live(m)
    BY <1>1, <1>2 DEF Live
  <1>4. \A m : m # Msg(e) /\ Live(m) => Live(m)'
    BY <1>1, <1>2 DEF Live
  <1>5. QED
    BY <1>3, <1>4 DEF Pool

\* Adding a message to a stream puts it in the pool.
LEMMA AddPool ==
    ASSUME TypeOK, NEW m \in Messages, NEW s \in Streams, Add(m, s),
           last' = last, pel' = pel
    PROVE  Pool' = Pool \cup {m}
  <1>1. /\ \A e \in Entries : Msg(e)' = Msg(e)
        /\ Delivered' = Delivered
    BY AddFact
  <1>2. PICK new \in Entries' : /\ Entries' = Entries \cup {new}
                                /\ new \notin Entries
                                /\ new \notin Delivered
                                /\ Msg(new)' = m
    BY AddFact
  <1>3. Available' = Available \cup {new} /\ Available \subseteq Entries
    BY <1>1, <1>2 DEF Available, Delivered, TypeOK
  <1>4. \A k : Live(k)' <=> Live(k) \/ k = m
    BY <1>1, <1>2, <1>3 DEF Live
  <1>5. QED
    BY <1>4 DEF Pool

\* Every step of the stream is a step of the abstract queue or a stutter.
LEMMA RefinesStep ==
    ASSUME IInv, IInv', [Next]_vars
    PROVE  Abstract!Next \/ (Pool' = Pool /\ handled' = handled)
  <1>1. TypeOK /\ SettledFirst /\ NoLoss
    BY DEF IInv, Recoverable, NoLoss, Live
  <1>2. TypeOK' /\ NoLoss'
    BY DEF IInv, Recoverable, NoLoss, Live
  <1>3. /\ Pool \subseteq Published /\ Published \subseteq Messages
        /\ \A m : Live(m) => m \in Pool
        /\ Available \subseteq Entries
    BY <1>1, PoolFact
  <1>4. ASSUME NEW m \in Messages, NEW s \in Streams, Publish(m, s)
        PROVE  Abstract!Next
    <2>1. Pool' = Pool \cup {m} /\ handled' = handled
      BY <1>1, <1>4, AddPool DEF Publish, history
    <2>2. m \notin Pool \cup handled
      BY <1>1, <1>3, <1>4 DEF Publish, TypeOK
    <2>3. Abstract!Publish(m)
      BY <2>1, <2>2 DEF Abstract!Publish, Pool
    <2>4. QED
      BY <2>3 DEF Abstract!Next
  <1>5. ASSUME NEW w \in Workers, Fetch(w) \/ Settle(w) \/ Sweep(w) \/ Failure(w)
        PROVE  Abstract!Next \/ (Pool' = Pool /\ handled' = handled)
    <2>1. CASE Finish(w) \/ Raise(w)
      <3> DEFINE m == Msg(cur[w])
      <3>1. pc[w] = "run" /\ UNCHANGED redis /\ handled' = handled \cup {m}
        BY <2>1 DEF Finish, Raise
      <3>2. m \in Published
        BY <3>1, <1>1 DEF SettledFirst, Published, Delivered
      <3>3. Pool' = Pool
        BY <3>1, SameRedis, SamePool
      <3>4. CASE m \in handled
        BY <3>1, <3>3, <3>4
      <3>5. CASE m \notin handled
        <4>1. m \in Pool /\ m \in Messages
          BY <3>2, <3>5, <1>1, <1>3 DEF NoLoss
        <4>2. Abstract!Handle(m)
          BY <4>1, <3>1, <3>3 DEF Abstract!Handle, Pool
        <4>3. QED
          BY <4>1, <4>2 DEF Abstract!Next
      <3>6. QED
        BY <3>4, <3>5
    <2>2. CASE Acknowledge(w) \/ RequeueAck(w)
      <3>1. /\ cur[w] \in Delivered /\ handled' = handled
            /\ UNCHANGED <<log, last>> /\ pel' = pel \ {cur[w]}
        BY <2>2, <1>1 DEF Acknowledge, RequeueAck, SettledFirst, history
      <3> PICK m : m = Msg(cur[w])
        OBVIOUS
      <3>2. Pool' = Pool \/ Pool' = Pool \ {m}
        BY <3>1, <1>1, AckPool
      <3>3. CASE Pool' # Pool
        <4>1. m \in Pool /\ m \notin Pool' /\ Pool' = Pool \ {m}
          BY <3>2, <3>3
        <4>2. m \in Published' /\ m \in Messages
          BY <4>1, <3>1, <1>3, SameStreams DEF Pool
        <4>3. ~Live(m)'
          BY <4>1, <4>2 DEF Pool
        <4>4. m \in handled
          BY <4>2, <4>3, <3>1, <1>2 DEF NoLoss
        <4>5. Abstract!Forget(m)
          BY <4>1, <4>4, <3>1 DEF Abstract!Forget, Pool
        <4>6. QED
          BY <4>2, <4>5 DEF Abstract!Next
      <3>4. QED
        BY <3>1, <3>3
    <2>3. CASE RequeueAdd(w)
      <3>1. PICK o \in claimed[w] : Add(Msg(o), sweepAt[w])
        BY <2>3 DEF RequeueAdd
      <3> DEFINE m == Msg(o)
      <3>2. o \in Delivered /\ sweepAt[w] \in Streams
        BY <3>1, <1>1 DEF TypeOK
      <3>3. m \in Published /\ m \in Messages
        BY <3>2, <1>3 DEF Published, Delivered
      <3>4. Pool' = Pool \cup {m} /\ handled' = handled
        BY <2>3, <3>1, <3>2, <3>3, <1>1, AddPool DEF RequeueAdd, history
      <3>5. CASE m \in Pool
        BY <3>4, <3>5
      <3>6. CASE m \notin Pool
        <4>1. m \in handled
          BY <3>3, <3>6, <1>1, <1>3 DEF NoLoss
        <4>2. Abstract!Redeliver(m)
          BY <4>1, <3>4, <3>6 DEF Abstract!Redeliver, Pool
        <4>3. QED
          BY <3>3, <4>2 DEF Abstract!Next
      <3>7. QED
        BY <3>5, <3>6
    <2>4. CASE FetchNew(w) \/ FetchLost(w)
      <3>1. Deliver /\ handled' = handled
        BY <2>4 DEF FetchNew, FetchLost, history
      <3>2. QED
        BY <3>1, <1>1, DeliverFact, SamePool
    <2>5. CASE LoopOnly(w) /\ ~Finish(w) /\ ~Raise(w)
      <3>1. UNCHANGED redis /\ handled' = handled
        BY <2>5 DEF LoopOnly, FetchBuffered, FetchNone, DeadLetter, DeadLetterError,
            AcknowledgeError, RequeueAddError, RequeueAckError, SweepOn, Crash,
            Autoclaim, AutoclaimLive, Claim, history
      <3>2. QED
        BY <3>1, SameRedis, SamePool
    <2>6. QED
      BY <1>5, <2>1, <2>2, <2>3, <2>4, <2>5
      DEF Fetch, Settle, Sweep, Failure, LoopOnly
  <1>6. ASSUME UNCHANGED vars
        PROVE  Pool' = Pool /\ handled' = handled
    BY <1>6, SameRedis, SamePool DEF vars, history
  <1>7. QED
    BY <1>4, <1>5, <1>6 DEF Next

\* The Redis streams, the consumer group and the sweep implement an
\* at-least-once queue: only a message that was processed leaves it.
THEOREM Refinement == Spec => AtLeastOnce
  <1>1. Init => Abstract!Init
    <2> SUFFICES ASSUME Init PROVE Abstract!Init
      OBVIOUS
    <2>1. Published = {}
      <3>1. \A s \in Streams : Len(log[s]) = 0
        BY DEF Init
      <3>2. QED
        BY <3>1 DEF Published, Entries
    <2>2. TypeOK
      BY InitIInv DEF IInv
    <2>3. Pool = {} /\ handled = {}
      BY <2>1, <2>2, PoolFact DEF Init
    <2>4. QED
      BY <2>3 DEF Abstract!Init, Pool
  <1>2. IInv /\ IInv' /\ [Next]_vars => [Abstract!Next]_(Abstract!vars)
    BY RefinesStep DEF Abstract!vars, Pool
  <1>3. QED
    BY <1>1, <1>2, Invariance, PTL DEF Spec, AtLeastOnce, Abstract!Spec
------------------------------------------------------------------------------
(* Who holds an entry *)

\* The entries of the messages in M are held by one worker at a time, in one
\* place, and stay pending as long as they are held.
Sole(w, e) ==
    /\ e \in pel
    /\ \A v \in Workers \ {w} : e \notin Held(v)
    /\ e \notin buffer[w] \cap claimed[w]
    /\ e = cur[w] => e \notin buffer[w] \cup claimed[w]
Exclusive(M) == \A w \in Workers : \A e \in Held(w) : Msg(e) \in M => Sole(w, e)

\* Whatever is held was delivered.
LEMMA HeldFact ==
    ASSUME TypeOK
    PROVE  \A w \in Workers : Held(w) \subseteq Delivered /\ Held(w) \subseteq Entries
  BY DEF TypeOK, Held, Delivered

\* Only worker w moves: it drops entries, or takes up pending ones nobody
\* holds, and an entry it acknowledges is not held afterwards.
LEMMA HoldRule ==
    ASSUME TypeOK, NEW M, Exclusive(M), NEW w \in Workers,
           \A e \in Entries : Msg(e)' = Msg(e),
           \A v \in Workers \ {w} :
               cur'[v] = cur[v] /\ buffer'[v] = buffer[v] /\ claimed'[v] = claimed[v],
           \A e \in Held(w)' : \/ e \in Held(w) \/ Msg(e)' \notin M
                               \/ e \in pel' /\ \A v \in Workers : e \notin Held(v),
           \A e \in pel \ pel' : \A v \in Workers : e \in Held(v)' => Msg(e) \notin M,
           \A e \in Held(w)' : Msg(e)' \in M =>
               /\ e \notin buffer'[w] \cap claimed'[w]
               /\ e = cur'[w] => e \notin buffer'[w] \cup claimed'[w]
    PROVE  Exclusive(M)'
  <1>1. \A v \in Workers \ {w} : Held(v)' = Held(v)
    BY DEF Held
  <1> SUFFICES ASSUME NEW v \in Workers, NEW e \in Held(v)', Msg(e)' \in M
               PROVE  Sole(v, e)'
    BY DEF Exclusive
  <1>2. CASE v = w /\ e \in Held(w)
    <2>1. Msg(e) \in M /\ Sole(w, e)
      BY <1>2, HeldFact DEF Exclusive
    <2>2. QED
      BY <2>1, <1>1, <1>2 DEF Sole
  <1>3. CASE v = w /\ e \notin Held(w)
    BY <1>1, <1>3 DEF Sole
  <1>4. CASE v # w
    <2>1. e \in Held(v) /\ Msg(e) \in M
      BY <1>1, <1>4, HeldFact
    <2>2. Sole(v, e)
      BY <2>1 DEF Exclusive
    <2>3. e \notin Held(w)'
      BY <2>1, <2>2, <1>4 DEF Sole
    <2>4. e \in pel'
      BY <2>1, <2>2 DEF Sole
    <2>5. QED
      BY <2>2, <2>3, <2>4, <1>1, <1>4 DEF Sole
  <1>5. QED
    BY <1>2, <1>3, <1>4

\* What a step newly claims for re-queueing is held by nobody.
NewClaims(M) ==
    \A w \in Workers : \A e \in claimed'[w] \ claimed[w] :
        Msg(e) \in M => \A v \in Workers : e \notin Held(v)

\* The parts of a worker's hand no step of another worker touches.
Others(w) ==
    \A v \in Workers \ {w} : cur'[v] = cur[v] /\ buffer'[v] = buffer[v] /\ claimed'[v] = claimed[v]

\* A message is published, or the worker takes nothing up.
LEMMA DropStep ==
    ASSUME IInv, NEW M, Exclusive(M), NEW w \in Workers, UNCHANGED redis, Others(w),
           cur'[w] \in {cur[w], NoEntry},
           buffer'[w] \subseteq buffer[w], claimed'[w] \subseteq claimed[w]
    PROVE  Exclusive(M)'
  <1>1. TypeOK /\ pel' = pel /\ \A e : Msg(e)' = Msg(e)
    BY SameRedis DEF IInv, redis
  <1>2. Held(w)' \subseteq Held(w) /\ \A e \in Held(w) : e # NoEntry
    BY <1>1, HeldFact, NoEntryFact DEF Held
  <1>3. \A e \in Held(w)' : Msg(e)' \in M =>
               /\ e \notin buffer'[w] \cap claimed'[w]
               /\ e = cur'[w] => e \notin buffer'[w] \cup claimed'[w]
    BY <1>1, <1>2 DEF Exclusive, Sole, Held
  <1>4. QED
    BY <1>1, <1>2, <1>3, HoldRule DEF Others

\* The worker takes the first of a set of deliveries in hand and buffers the rest.
LEMMA StartStep ==
    ASSUME IInv, NEW M, Exclusive(M), NEW w \in Workers, pc[w] = "fetch",
           NEW deliveries, Start(w, deliveries), claimed' = claimed,
           \A e \in Entries : Msg(e)' = Msg(e), pel \subseteq pel',
           \/ deliveries = buffer[w]
           \/ deliveries \cap Delivered = {} /\ deliveries \subseteq pel'
    PROVE  Exclusive(M)'
  <1>1. TypeOK /\ cur[w] = NoEntry
    BY DEF IInv, SettledFirst, TypeOK
  <1>2. PICK e \in deliveries : /\ cur' = [cur EXCEPT ![w] = e]
                                /\ buffer' = [buffer EXCEPT ![w] = deliveries \ {e}]
    BY DEF Start
  <1>3. /\ cur'[w] = e /\ buffer'[w] = deliveries \ {e} /\ claimed'[w] = claimed[w]
        /\ Others(w)
    BY <1>1, <1>2 DEF TypeOK, Others
  <1>4. Held(w)' \subseteq deliveries \cup claimed[w]
    BY <1>3 DEF Held
  <1>5. claimed[w] \subseteq Held(w) /\ buffer[w] \subseteq Held(w)
    BY DEF Held
  <1>6. CASE deliveries = buffer[w]
    <2>1. Held(w)' \subseteq Held(w)
      BY <1>4, <1>5, <1>6
    <2>2. \A f \in Held(w)' : Msg(f)' \in M => f \notin buffer[w] \cap claimed[w]
      BY <2>1, <1>1, HeldFact DEF Exclusive, Sole
    <2>3. QED
      BY <2>1, <2>2, <1>1, <1>3, <1>6, HoldRule DEF Others
  <1>7. CASE deliveries \cap Delivered = {} /\ deliveries \subseteq pel'
    <2>1. \A f \in deliveries : \A v \in Workers : f \notin Held(v)
      BY <1>1, <1>7, HeldFact
    <2>2. deliveries \cap claimed[w] = {}
      BY <2>1, <1>5
    <2>3. \A f \in Held(w)' : \/ f \in Held(w)
                              \/ f \in pel' /\ \A v \in Workers : f \notin Held(v)
      BY <2>1, <1>4, <1>5, <1>7
    <2>4. QED
      BY <2>2, <2>3, <1>1, <1>3, HoldRule DEF Others
  <1>8. QED
    BY <1>6, <1>7

\* The worker acknowledges what it has in hand.
LEMMA AckHoldStep ==
    ASSUME IInv, NEW M, Exclusive(M), NEW w \in Workers, NEW next,
           UNCHANGED <<log, last, buffer, claimed>>, pel' = pel \ {cur[w]}, Release(w, next),
           cur[w] \in Delivered
    PROVE  Exclusive(M)'
  <1>1. TypeOK /\ \A e : Msg(e)' = Msg(e)
    BY SameStreams DEF IInv
  <1>2. cur'[w] = NoEntry /\ Others(w)
    BY <1>1 DEF Release, TypeOK, Others
  <1>3. cur[w] # NoEntry
    BY <1>1, NoEntryFact DEF Delivered
  <1>4. cur[w] \in Held(w)
    BY <1>3 DEF Held
  <1>5. Held(w)' = buffer[w] \cup claimed[w] /\ Held(w)' \subseteq Held(w)
    BY <1>2 DEF Held
  <1>6. \A v \in Workers \ {w} : Held(v)' = Held(v)
    BY <1>2 DEF Held, Others
  <1>7. \A v \in Workers : cur[w] \in Held(v)' => Msg(cur[w]) \notin M
    BY <1>4, <1>5, <1>6 DEF Exclusive, Sole
  <1>8. \A e \in Held(w)' : Msg(e) \in M => e \notin buffer[w] \cap claimed[w]
    BY <1>5 DEF Exclusive, Sole
  <1>9. \A e \in Held(w)' : e # NoEntry
    BY <1>1, <1>5, HeldFact, NoEntryFact
  <1>10. QED
    BY <1>1, <1>2, <1>5, <1>7, <1>8, <1>9, HoldRule DEF Others

\* XAUTOCLAIM: the worker has nothing else in hand.
LEMMA ClaimStep ==
    ASSUME IInv, NEW M, Exclusive(M), NEW w \in Workers, NEW idle \in SUBSET pel,
           Claim(w, idle), NewClaims(M)
    PROVE  Exclusive(M)'
  <1>1. TypeOK /\ UNCHANGED redis /\ \A e : Msg(e)' = Msg(e)
    BY SameRedis DEF IInv, Claim
  <1>2. /\ cur' = cur /\ buffer' = buffer /\ claimed'[w] = idle /\ Others(w)
        /\ cur[w] = NoEntry
    BY <1>1 DEF Claim, TypeOK, Others, IInv, SettledFirst
  <1>3. \A e \in Held(w)' : e \in buffer[w] \/ e \in idle
    BY <1>2 DEF Held
  <1>4. \A e \in idle \ claimed[w] : Msg(e) \in M => \A v \in Workers : e \notin Held(v)
    BY <1>2 DEF NewClaims
  <1>5. buffer[w] \subseteq Held(w) /\ claimed[w] \subseteq Held(w)
    BY DEF Held
  <1>6. \A e \in Held(w)' : \/ e \in Held(w) \/ Msg(e)' \notin M
                            \/ e \in pel' /\ \A v \in Workers : e \notin Held(v)
    BY <1>1, <1>3, <1>4, <1>5 DEF redis
  <1>7. \A e \in Held(w)' : Msg(e)' \in M => e \notin buffer[w] \cap idle
    BY <1>1, <1>3, <1>4, <1>5 DEF Exclusive, Sole
  <1>8. \A e \in Held(w)' : e # NoEntry
    <2>1. idle \subseteq Entries /\ buffer[w] \subseteq Entries
      BY <1>1 DEF TypeOK, Delivered
    <2>2. QED
      BY <2>1, <1>1, <1>3, NoEntryFact
  <1>9. QED
    BY <1>1, <1>2, <1>6, <1>7, <1>8, HoldRule DEF Others, redis

\* The worker takes the entry it copies from what it has claimed.
LEMMA CopyHoldStep ==
    ASSUME IInv, NEW M, Exclusive(M), NEW w \in Workers, RequeueAdd(w)
    PROVE  Exclusive(M)'
  <1>1. TypeOK /\ last' = last /\ pel' = pel /\ buffer' = buffer
    BY DEF IInv, RequeueAdd
  <1>2. PICK o \in claimed[w] :
            /\ Add(Msg(o), sweepAt[w])
            /\ cur' = [cur EXCEPT ![w] = o]
            /\ claimed' = [claimed EXCEPT ![w] = @ \ {o}]
    BY DEF RequeueAdd
  <1>3. sweepAt[w] \in Streams /\ o \in Entries
    BY <1>1 DEF TypeOK, Delivered
  <1>4. Msg(o) \in Messages
    <2>1. o \in Streams \X Nat /\ 1 <= o[2] /\ o[2] <= Len(log[o[1]])
      BY <1>1, <1>3, EntryFact
    <2>2. log[o[1]] \in Seq(Messages) /\ o[2] \in 1..Len(log[o[1]])
      BY <1>1, <2>1 DEF TypeOK
    <2>3. QED
      BY <2>2 DEF Msg
  <1>5. \A e \in Entries : Msg(e)' = Msg(e)
    BY <1>1, <1>2, <1>3, <1>4, AddFact
  <1>6. cur'[w] = o /\ claimed'[w] = claimed[w] \ {o} /\ Others(w)
    BY <1>1, <1>2 DEF TypeOK, Others
  <1>7. Held(w)' \subseteq Held(w) /\ o \in Held(w)
    BY <1>1, <1>6 DEF Held
  <1>8. \A e \in Held(w)' : Msg(e)' \in M => e \notin buffer[w] \cap claimed[w]
    BY <1>1, <1>5, <1>7, HeldFact DEF Exclusive, Sole
  <1>9. QED
    BY <1>1, <1>5, <1>6, <1>7, <1>8, HoldRule DEF Others

\* Exclusive is kept by every step that claims only what nobody holds.
LEMMA ExclusiveStep ==
    ASSUME IInv, NEW M, Exclusive(M), [Next]_vars, NewClaims(M)
    PROVE  Exclusive(M)'
  <1> USE DEF IInv
  <1>1. CASE UNCHANGED <<last, pel, loop>> /\ \A e \in Entries : Msg(e)' = Msg(e)
    <2>1. \A w \in Workers : Held(w)' = Held(w) /\ Held(w) \subseteq Entries
      BY <1>1, HeldFact DEF Held, loop
    <2>2. QED
      BY <1>1, <2>1 DEF Exclusive, Sole, loop
  <1>2. ASSUME NEW m \in Messages, NEW s \in Streams, Publish(m, s) PROVE Exclusive(M)'
    BY <1>1, <1>2, AddFact DEF Publish
  <1>3. CASE UNCHANGED vars
    BY <1>1, <1>3, SameRedis DEF vars, redis
  <1>4. ASSUME NEW w \in Workers, Fetch(w) PROVE Exclusive(M)'
    <2>1. CASE FetchBuffered(w)
      BY <2>1, StartStep, SameRedis DEF FetchBuffered, redis
    <2>2. CASE FetchNew(w)
      <3>1. Start(w, NextDelivery) /\ Deliver /\ claimed' = claimed /\ pc[w] = "fetch"
        BY <2>2 DEF FetchNew
      <3>2. /\ \A e : Msg(e)' = Msg(e)
            /\ NextDelivery \cap Delivered = {}
            /\ pel \subseteq pel' /\ NextDelivery \subseteq pel'
        BY <3>1, DeliverFact DEF Deliver
      <3>3. QED
        BY <3>1, <3>2, StartStep
    <2>3. CASE FetchNone(w)
      BY <2>3, DropStep DEF FetchNone, Others
    <2>4. QED
      BY <1>4, <2>1, <2>2, <2>3 DEF Fetch
  <1>5. ASSUME NEW w \in Workers, Settle(w) PROVE Exclusive(M)'
    <2>1. CASE Finish(w) \/ Raise(w) \/ DeadLetter(w)
      BY <2>1, DropStep DEF Finish, Raise, DeadLetter, Others
    <2>2. CASE Acknowledge(w)
      BY <2>2, AckHoldStep DEF Acknowledge, SettledFirst
    <2>3. QED
      BY <1>5, <2>1, <2>2 DEF Settle
  <1>6. ASSUME NEW w \in Workers, Sweep(w) PROVE Exclusive(M)'
    <2>1. ASSUME NEW idle \in SUBSET pel, Autoclaim(w, idle) PROVE Exclusive(M)'
      BY <2>1, ClaimStep DEF Autoclaim
    <2>2. CASE RequeueAdd(w)
      BY <2>2, CopyHoldStep
    <2>3. CASE RequeueAck(w)
      BY <2>3, AckHoldStep DEF RequeueAck, SettledFirst
    <2>4. CASE SweepOn(w)
      BY <2>4, DropStep DEF SweepOn, Others
    <2>5. QED
      BY <1>6, <2>1, <2>2, <2>3, <2>4 DEF Sweep
  <1>7. ASSUME NEW w \in Workers, Failure(w) PROVE Exclusive(M)'
    <2>1. CASE FetchLost(w)
      <3>1. Deliver /\ UNCHANGED loop
        BY <2>1 DEF FetchLost
      <3>2. /\ \A e : Msg(e)' = Msg(e)
            /\ pel \subseteq pel'
            /\ \A v \in Workers : Held(v)' = Held(v)
        BY <3>1, DeliverFact DEF Deliver, loop, Held
      <3>3. QED
        BY <3>1, <3>2 DEF Exclusive, Sole, loop
    <2>2. CASE DeadLetterError(w)
      BY <2>2, DropStep DEF DeadLetterError, Others
    <2>3. CASE AcknowledgeError(w) \/ RequeueAckError(w)
      BY <2>3, DropStep DEF AcknowledgeError, RequeueAckError, Release, Others, TypeOK
    <2>4. ASSUME NEW idle \in SUBSET pel, AutoclaimLive(w, idle) PROVE Exclusive(M)'
      BY <2>4, ClaimStep DEF AutoclaimLive
    <2>5. CASE RequeueAddError(w)
      BY <2>5, DropStep DEF RequeueAddError, Others, TypeOK
    <2>6. CASE Crash(w)
      BY <2>6, DropStep DEF Crash, Release, Others, TypeOK
    <2>7. QED
      BY <1>7, <2>1, <2>2, <2>3, <2>4, <2>5, <2>6 DEF Failure
  <1>8. QED
    BY <1>2, <1>3, <1>4, <1>5, <1>6, <1>7 DEF Next

\* Both halves of the induction for the modules that use the queue.
LEMMA ExclusiveInductive ==
    /\ \A M : Init => Exclusive(M)
    /\ \A M : IInv /\ Exclusive(M) /\ [Next]_vars /\ NewClaims(M) => Exclusive(M)'
  <1>1. ASSUME NEW M, Init PROVE Exclusive(M)
    BY <1>1 DEF Init, Exclusive, Held
  <1>2. QED
    BY <1>1, ExclusiveStep

------------------------------------------------------------------------------
(* How many entries stand for a message *)

\* The available entries of the messages in M that a sweep has not replaced by
\* a copy.
Copies(M) == {e \in Available : Msg(e) \in M /\ Secured(e)}
OneCopy(M) == \A e, f \in Copies(M) : e = f

\* What a worker does, as opposed to a producer.
WorkerNext(w) == Fetch(w) \/ Settle(w) \/ Sweep(w) \/ Failure(w)

\* A sweep that has made a copy does not leave the original to somebody else.
NoSecond(M) ==
    \A w \in Workers :
        pc[w] = "reack" /\ Msg(cur[w]) \in M => pc'[w] = "reack" \/ cur[w] \notin pel'

\* A step that makes nothing available leaves no more copies.
LEMMA ShrinkRule ==
    ASSUME IInv, NEW M, OneCopy(M), NoSecond(M),
           Available' \subseteq Available, Delivered \subseteq Delivered',
           \A e \in Entries : Msg(e)' = Msg(e),
           \A w \in Workers : pc[w] = "reack" => pc'[w] # "reack" \/ cur'[w] = cur[w]
    PROVE  OneCopy(M)'
  <1>1. \A e \in Available : e \in Entries
    BY DEF IInv, TypeOK, Available, Delivered
  <1> SUFFICES ASSUME NEW e \in Available', Msg(e) \in M, Secured(e)',
                      NEW w \in Workers, pc[w] = "reack", cur[w] = e
               PROVE  FALSE
    BY <1>1 DEF OneCopy, Copies, Secured
  <1>2. e \in Delivered
    BY DEF IInv, SettledFirst
  <1>3. CASE pc'[w] = "reack"
    BY <1>3 DEF Secured
  <1>4. CASE pc'[w] # "reack"
    BY <1>2, <1>4 DEF NoSecond, Available
  <1>5. QED
    BY <1>3, <1>4

\* What a step of a worker other than RequeueAdd does to the streams and to the
\* entries that wait for their XACK.
LEMMA NoAddFact ==
    ASSUME IInv, NEW w \in Workers, WorkerNext(w), ~RequeueAdd(w)
    PROVE  /\ Available' \subseteq Available
           /\ Entries' = Entries
           /\ Delivered \subseteq Delivered'
           /\ \A e : Msg(e)' = Msg(e)
           /\ \A v \in Workers : pc[v] = "reack" => pc'[v] # "reack" \/ cur'[v] = cur[v]
  <1>1. TypeOK
    BY DEF IInv
  <1>2. CASE LoopOnly(w)
    <2>1. UNCHANGED redis
      BY <1>2 DEF LoopOnly, FetchBuffered, FetchNone, Finish, Raise, DeadLetter,
           DeadLetterError, AcknowledgeError, RequeueAddError, RequeueAckError,
           SweepOn, Crash, Autoclaim, AutoclaimLive, Claim
    <2>2. \A v \in Workers : pc[v] = "reack" => pc'[v] # "reack" \/ cur'[v] = cur[v]
      BY <1>1, <1>2 DEF LoopOnly, FetchBuffered, Start, FetchNone, Finish, Raise, DeadLetter,
           DeadLetterError, AcknowledgeError, RequeueAddError, RequeueAckError,
           SweepOn, Crash, Autoclaim, AutoclaimLive, Claim, Release, TypeOK
    <2>3. QED
      BY <2>1, <2>2, SameRedis
  <1>3. CASE FetchNew(w) \/ FetchLost(w)
    <2>1. Deliver
      BY <1>3 DEF FetchNew, FetchLost
    <2>2. \A v \in Workers : pc[v] = "reack" => pc'[v] # "reack" \/ cur'[v] = cur[v]
      BY <1>1, <1>3 DEF FetchNew, FetchLost, Start, TypeOK, loop
    <2>3. QED
      BY <1>1, <2>1, <2>2, DeliverFact
  <1>4. CASE Acknowledge(w) \/ RequeueAck(w)
    <2>1. UNCHANGED <<log, last>> /\ pel' \subseteq pel
      BY <1>4 DEF Acknowledge, RequeueAck
    <2>2. \A v \in Workers : pc[v] = "reack" => pc'[v] # "reack" \/ cur'[v] = cur[v]
      BY <1>1, <1>4 DEF Acknowledge, RequeueAck, Release, TypeOK
    <2>3. QED
      BY <2>1, <2>2, SameStreams DEF Available
  <1>5. QED
    BY <1>2, <1>3, <1>4 DEF WorkerNext, Fetch, Settle, Sweep, Failure, LoopOnly

\* What RequeueAdd does: the entry o a worker has claimed gets a copy.
LEMMA CopyFact ==
    ASSUME IInv, NEW w \in Workers, RequeueAdd(w)
    PROVE  \E o \in claimed[w], new \in Entries' :
             /\ o \in Entries
             /\ cur' = [cur EXCEPT ![w] = o]
             /\ pc' = [pc EXCEPT ![w] = "reack"]
             /\ \A e \in Entries : Msg(e)' = Msg(e)
             /\ new \notin Entries /\ Msg(new)' = Msg(o)
             /\ Entries' = Entries \cup {new}
             /\ Available' = Available \cup {new}
             /\ Delivered' = Delivered
  <1>1. TypeOK /\ last' = last /\ pel' = pel /\ pc' = [pc EXCEPT ![w] = "reack"]
    BY DEF IInv, RequeueAdd
  <1>2. PICK o \in claimed[w] :
            /\ Add(Msg(o), sweepAt[w])
            /\ cur' = [cur EXCEPT ![w] = o]
    BY DEF RequeueAdd
  <1>3. sweepAt[w] \in Streams /\ o \in Entries
    BY <1>1 DEF TypeOK, Delivered
  <1>4. Msg(o) \in Messages
    <2>1. o \in Streams \X Nat /\ 1 <= o[2] /\ o[2] <= Len(log[o[1]])
      BY <1>1, <1>3, EntryFact
    <2>2. log[o[1]] \in Seq(Messages) /\ o[2] \in 1..Len(log[o[1]])
      BY <1>1, <2>1 DEF TypeOK
    <2>3. QED
      BY <2>2 DEF Msg
  <1>5. PICK new \in Entries' : /\ Entries' = Entries \cup {new}
                                /\ new \notin Entries
                                /\ new \notin Delivered
                                /\ Msg(new)' = Msg(o)
    BY <1>1, <1>2, <1>3, <1>4, AddFact
  <1>6. (\A e \in Entries : Msg(e)' = Msg(e)) /\ Delivered' = Delivered
    BY <1>1, <1>2, <1>3, <1>4, AddFact
  <1>7. Available' = Available \cup {new}
    BY <1>1, <1>5, <1>6 DEF Available
  <1>8. QED
    BY <1>1, <1>2, <1>3, <1>5, <1>6, <1>7

\* Workers publish nothing.
LEMMA PublishedFact ==
    ASSUME IInv, NEW w \in Workers, WorkerNext(w)
    PROVE  Published' = Published
  <1>1. CASE RequeueAdd(w)
    BY <1>1, CopyFact DEF Published
  <1>2. CASE ~RequeueAdd(w)
    BY <1>2, NoAddFact DEF Published
  <1>3. QED
    BY <1>1, <1>2

\* A worker that makes no second copy leaves at most one.
LEMMA WorkerCopies ==
    ASSUME IInv, NEW M, Exclusive(M), OneCopy(M), NoSecond(M),
           NEW w \in Workers, WorkerNext(w)
    PROVE  OneCopy(M)'
  <1>1. CASE ~RequeueAdd(w)
    BY <1>1, NoAddFact, ShrinkRule
  <1>2. CASE RequeueAdd(w)
    <2>1. PICK o \in claimed[w], new \in Entries' :
             /\ o \in Entries
             /\ cur' = [cur EXCEPT ![w] = o]
             /\ pc' = [pc EXCEPT ![w] = "reack"]
             /\ \A e \in Entries : Msg(e)' = Msg(e)
             /\ new \notin Entries /\ Msg(new)' = Msg(o)
             /\ Entries' = Entries \cup {new}
             /\ Available' = Available \cup {new}
      BY <1>2, CopyFact
    <2>2. cur'[w] = o /\ pc'[w] = "reack" /\ pc[w] = "requeue"
          /\ \A v \in Workers \ {w} : cur'[v] = cur[v] /\ pc'[v] = pc[v]
      BY <1>2, <2>1 DEF IInv, TypeOK, RequeueAdd
    <2>3. \A e \in Available : e \in Entries
      BY DEF IInv, TypeOK, Available, Delivered
    <2>4. \A e \in Copies(M)' : e # new => e \in Copies(M) /\ e # o
      BY <2>1, <2>2, <2>3 DEF Copies, Secured
    <2>5. CASE Msg(o) \notin M
      BY <2>1, <2>4, <2>5 DEF OneCopy, Copies
    <2>6. CASE Msg(o) \in M
      <3>1. o \in Held(w)
        BY DEF Held
      <3>2. Sole(w, o)
        BY <2>6, <3>1 DEF Exclusive
      <3>3. o \in Copies(M)
        <4>1. \A v \in Workers : pc[v] = "reack" => cur[v] # o
          <5> SUFFICES ASSUME NEW v \in Workers, pc[v] = "reack", cur[v] = o PROVE FALSE
            OBVIOUS
          <5>1. v # w
            BY <2>2
          <5>2. o \in Held(v)
            BY <2>1, NoEntryFact DEF Held, IInv
          <5>3. QED
            BY <3>2, <5>1, <5>2 DEF Sole
        <4>2. QED
          BY <2>6, <3>2, <4>1 DEF Copies, Secured, Sole, Available
      <3>4. QED
        BY <2>4, <3>3 DEF OneCopy
    <2>7. QED
      BY <2>5, <2>6
  <1>3. QED
    BY <1>1, <1>2

\* A first publication makes the first copy, one of another message none.
LEMMA PublishCopies ==
    ASSUME IInv, NEW M, OneCopy(M), NEW m \in Messages, NEW s \in Streams, Publish(m, s),
           m \in M => Published \cap M = {}
    PROVE  OneCopy(M)' /\ Published' = Published \cup {m}
  <1>1. Add(m, s) /\ last' = last /\ UNCHANGED loop /\ pel' = pel
    BY DEF Publish
  <1>2. (\A e \in Entries : Msg(e)' = Msg(e)) /\ Delivered' = Delivered
    BY <1>1, AddFact DEF IInv
  <1>3. PICK new \in Entries' : /\ Entries' = Entries \cup {new}
                                /\ new \notin Entries
                                /\ Msg(new)' = m
    BY <1>1, AddFact DEF IInv
  <1>4. Available' \subseteq Available \cup {new} /\ Available \subseteq Entries
    BY <1>1, <1>2, <1>3 DEF Available, IInv, TypeOK, Delivered
  <1>5. \A e \in Copies(M)' : e # new => e \in Copies(M)
    BY <1>1, <1>2, <1>4 DEF Copies, Secured, loop
  <1>6. m \in M => Copies(M) = {}
    BY <1>4 DEF Copies, Published
  <1>7. OneCopy(M)'
    BY <1>3, <1>5, <1>6 DEF OneCopy, Copies
  <1>8. QED
    BY <1>2, <1>3, <1>7 DEF Published

\* Nothing of an unpublished message is about.
LEMMA NoCopies ==
    ASSUME IInv, NEW M, Published \cap M = {}
    PROVE  OneCopy(M)
  BY DEF OneCopy, Copies, Published, IInv, TypeOK, Available, Delivered

------------------------------------------------------------------------------
(* Where the responsibility for a message goes *)

\* No worker is done with the entry.
Unsettled(e) ==
    \A w \in Workers : cur[w] = e => pc[w] \notin {"ack", "dlq", "fail", "reack"}

\* The worker that moves finishes some other entry, if any.
NotFinished(e) ==
    \A w \in Workers : cur[w] = e /\ pc[w] = "run" => pc'[w] \notin {"ack", "dlq"}

\* No worker comes to be done with the entry in this step, except by finishing it.
Stays(e) ==
    \A v \in Workers : cur'[v] = e =>
        \/ pc[v] = "fetch" /\ pc'[v] = "run"
        \/ /\ cur[v] = e
           /\ pc'[v] = "run" => pc[v] = "run"
           /\ pc'[v] \in {"ack", "dlq", "fail", "reack"} =>
                 \/ pc[v] \in {"ack", "dlq", "fail", "reack"}
                 \/ pc[v] = "run" /\ pc'[v] \in {"ack", "dlq"}

\* An entry nobody is done with stays available, or its copy takes its place;
\* whoever has it in hand afterwards had it before or takes it up now.
LEMMA CarryStep ==
    ASSUME IInv, NEW w \in Workers, WorkerNext(w),
           NEW e \in Available, Unsettled(e), NotFinished(e)
    PROVE  \E f \in Available' :
             /\ Msg(f)' = Msg(e)
             /\ Unsettled(f)'
             /\ \A v \in Workers : cur'[v] = f /\ pc'[v] = "run" =>
                   \/ pc[v] = "fetch"
                   \/ f = e /\ cur[v] = e /\ pc[v] = "run"
  <1>1. TypeOK /\ e \in Entries /\ e # NoEntry
    BY NoEntryFact DEF IInv, TypeOK, Available, Delivered
  <1>2. ASSUME e \in Available', Msg(e)' = Msg(e), Stays(e)
        PROVE  Unsettled(e)' /\ \A v \in Workers : cur'[v] = e /\ pc'[v] = "run" =>
                   pc[v] = "fetch" \/ (cur[v] = e /\ pc[v] = "run")
    BY <1>2 DEF Unsettled, NotFinished, Stays
  <1>3. CASE LoopOnly(w)
    <2>1. UNCHANGED redis
      BY <1>3 DEF LoopOnly, FetchBuffered, FetchNone, Finish, Raise, DeadLetter,
           DeadLetterError, AcknowledgeError, RequeueAddError, RequeueAckError,
           SweepOn, Crash, Autoclaim, AutoclaimLive, Claim
    <2>2. ASSUME FetchBuffered(w) \/ FetchNone(w) \/ SweepOn(w) \/ Crash(w)
          PROVE  Stays(e)
      BY <1>1, <2>2 DEF FetchBuffered, Start, FetchNone, SweepOn, Crash, Release, TypeOK, Stays
    <2>3. ASSUME Finish(w) \/ Raise(w) \/ DeadLetter(w) \/ DeadLetterError(w)
          PROVE  Stays(e)
      BY <1>1, <2>3 DEF Finish, Raise, DeadLetter, DeadLetterError, TypeOK, Stays
    <2>4. ASSUME AcknowledgeError(w) \/ RequeueAddError(w) \/ RequeueAckError(w)
          PROVE  Stays(e)
      BY <1>1, <2>4 DEF AcknowledgeError, RequeueAddError, RequeueAckError, Release, TypeOK, Stays
    <2>5. ASSUME NEW idle \in SUBSET pel, Autoclaim(w, idle) \/ AutoclaimLive(w, idle)
          PROVE  Stays(e)
      BY <1>1, <2>5 DEF Autoclaim, AutoclaimLive, Claim, TypeOK, Stays
    <2>6. Stays(e)
      BY <1>3, <2>2, <2>3, <2>4, <2>5 DEF LoopOnly
    <2>7. QED
      BY <1>2, <2>1, <2>6, SameRedis
  <1>4. CASE FetchNew(w) \/ FetchLost(w)
    <2>1. Deliver
      BY <1>4 DEF FetchNew, FetchLost
    <2>2. Stays(e)
      BY <1>1, <1>4 DEF FetchNew, FetchLost, Start, TypeOK, loop, Stays
    <2>3. QED
      BY <1>1, <1>2, <2>1, <2>2, DeliverFact
  <1>5. CASE Acknowledge(w) \/ RequeueAck(w)
    <2>1. UNCHANGED <<log, last>> /\ pel' = pel \ {cur[w]}
      BY <1>5 DEF Acknowledge, RequeueAck
    <2>2. e # cur[w]
      BY <1>5 DEF Acknowledge, RequeueAck, Unsettled
    <2>3. e \in Available' /\ Msg(e)' = Msg(e)
      BY <2>1, <2>2, SameStreams DEF Available
    <2>4. Stays(e)
      BY <1>1, <1>5 DEF Acknowledge, RequeueAck, Release, TypeOK, Stays
    <2>5. QED
      BY <1>2, <2>3, <2>4
  <1>6. CASE RequeueAdd(w)
    <2>1. PICK o \in claimed[w], new \in Entries' :
             /\ o \in Entries
             /\ cur' = [cur EXCEPT ![w] = o]
             /\ pc' = [pc EXCEPT ![w] = "reack"]
             /\ \A f \in Entries : Msg(f)' = Msg(f)
             /\ new \notin Entries /\ Msg(new)' = Msg(o)
             /\ Available' = Available \cup {new}
      BY <1>6, CopyFact
    <2>2. CASE o = e
      <3>1. \A v \in Workers : cur'[v] # new
        BY <1>1, <2>1 DEF TypeOK, Delivered, NoEntry, IInv, Entries
      <3>2. QED
        BY <2>1, <2>2, <3>1 DEF Unsettled
    <2>3. CASE o # e
      <3>1. Stays(e)
        BY <1>1, <2>1, <2>3 DEF TypeOK, Stays
      <3>2. QED
        BY <1>1, <1>2, <2>1, <3>1
    <2>4. QED
      BY <2>2, <2>3
  <1>7. QED
    BY <1>3, <1>4, <1>5, <1>6 DEF WorkerNext, Fetch, Settle, Sweep, Failure, LoopOnly

------------------------------------------------------------------------------
(* The same as formulas, for the modules that use the queue *)

\* A worker's step leaves the others and the messages alone.
LEMMA WorkerFrame ==
    \A w \in Workers : IInv /\ WorkerNext(w) =>
        /\ \A e \in Entries : Msg(e)' = Msg(e)
        /\ Published' = Published
        /\ \A v \in Workers \ {w} : pc'[v] = pc[v] /\ cur'[v] = cur[v]
  <1> SUFFICES ASSUME NEW w \in Workers, IInv, WorkerNext(w)
               PROVE  /\ \A e \in Entries : Msg(e)' = Msg(e)
                      /\ Published' = Published
                      /\ \A v \in Workers \ {w} : pc'[v] = pc[v] /\ cur'[v] = cur[v]
    OBVIOUS
  <1>1. \A e \in Entries : Msg(e)' = Msg(e)
    BY CopyFact, NoAddFact
  <1>2. Published' = Published
    BY PublishedFact
  <1>3. \A v \in Workers \ {w} : pc'[v] = pc[v] /\ cur'[v] = cur[v]
    <2>1. ASSUME Fetch(w) \/ Settle(w)
          PROVE  \A v \in Workers \ {w} : pc'[v] = pc[v] /\ cur'[v] = cur[v]
      BY <2>1 DEF IInv, TypeOK, Fetch, Settle, FetchBuffered, FetchNew, FetchNone, Start,
         Finish, Raise, DeadLetter, Acknowledge, Release
    <2>2. ASSUME Sweep(w)
          PROVE  \A v \in Workers \ {w} : pc'[v] = pc[v] /\ cur'[v] = cur[v]
      BY <2>2 DEF IInv, TypeOK, Sweep, Autoclaim, Claim, RequeueAdd, RequeueAck, SweepOn, Release
    <2>3. ASSUME Failure(w)
          PROVE  \A v \in Workers \ {w} : pc'[v] = pc[v] /\ cur'[v] = cur[v]
      BY <2>3 DEF IInv, TypeOK, Failure, FetchLost, DeadLetterError, AcknowledgeError, AutoclaimLive,
         Claim, RequeueAddError, RequeueAckError, Crash, Release, loop
    <2>4. QED
      BY <2>1, <2>2, <2>3 DEF WorkerNext
  <1>4. QED
    BY <1>1, <1>2, <1>3

\* A publication adds an available entry that nobody holds.
LEMMA PublishFrame ==
    \A m \in Messages, s \in Streams : IInv /\ Publish(m, s) =>
        /\ \A e \in Entries : Msg(e)' = Msg(e)
        /\ Published' = Published \cup {m}
        /\ UNCHANGED <<pel, loop>>
        /\ Available \subseteq Available'
        /\ \E new \in Available' : Msg(new)' = m /\ \A w \in Workers : cur[w] # new
  <1> SUFFICES ASSUME NEW m \in Messages, NEW s \in Streams, IInv, Publish(m, s)
               PROVE  /\ \A e \in Entries : Msg(e)' = Msg(e)
                      /\ Published' = Published \cup {m}
                      /\ UNCHANGED <<pel, loop>>
                      /\ Available \subseteq Available'
                      /\ \E new \in Available' : Msg(new)' = m /\ \A w \in Workers : cur[w] # new
    OBVIOUS
  <1>1. Add(m, s) /\ last' = last /\ UNCHANGED <<pel, loop>>
    BY DEF Publish
  <1>2. (\A e \in Entries : Msg(e)' = Msg(e)) /\ Delivered' = Delivered
    BY <1>1, AddFact DEF IInv
  <1>3. PICK new \in Entries' : /\ Entries' = Entries \cup {new}
                                /\ new \notin Entries /\ new \notin Delivered
                                /\ Msg(new)' = m
    BY <1>1, AddFact DEF IInv
  <1>4. NoEntry \notin Entries'
    BY DEF Entries, NoEntry, Streams
  <1>5. \A w \in Workers : cur[w] # new
    BY <1>3, <1>4 DEF IInv, TypeOK, Delivered
  <1>6. Available' = Available \cup {new}
    BY <1>1, <1>2, <1>3 DEF Available
  <1>7. Published' = Published \cup {m}
    BY <1>2, <1>3 DEF Published
  <1>8. QED
    BY <1>1, <1>2, <1>3, <1>5, <1>6, <1>7

\* At most one copy, step by step.
LEMMA CopiesInductive ==
    /\ \A M : \A w \in Workers :
          IInv /\ Exclusive(M) /\ OneCopy(M) /\ NoSecond(M) /\ WorkerNext(w) => OneCopy(M)'
    /\ \A M : \A m \in Messages, s \in Streams :
          IInv /\ OneCopy(M) /\ Publish(m, s) /\ (m \in M => Published \cap M = {}) => OneCopy(M)'
    /\ \A M : IInv /\ Published \cap M = {} => OneCopy(M)
  <1>1. \A M : \A w \in Workers :
          IInv /\ Exclusive(M) /\ OneCopy(M) /\ NoSecond(M) /\ WorkerNext(w) => OneCopy(M)'
    BY WorkerCopies
  <1>2. \A M : \A m \in Messages, s \in Streams :
          IInv /\ OneCopy(M) /\ Publish(m, s) /\ (m \in M => Published \cap M = {}) => OneCopy(M)'
    BY PublishCopies
  <1>3. \A M : IInv /\ Published \cap M = {} => OneCopy(M)
    BY NoCopies
  <1>4. QED
    BY <1>1, <1>2, <1>3

\* Where an entry's message is after a step of a worker.
LEMMA Carries ==
    \A w \in Workers : \A e \in Available :
        IInv /\ WorkerNext(w) /\ Unsettled(e) /\ NotFinished(e) =>
            \E f \in Available' :
                /\ Msg(f)' = Msg(e)
                /\ Unsettled(f)'
                /\ \A v \in Workers : cur'[v] = f /\ pc'[v] = "run" =>
                      \/ pc[v] = "fetch"
                      \/ f = e /\ cur[v] = e /\ pc[v] = "run"
  BY CarryStep
==============================================================================
