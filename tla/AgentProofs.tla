---------------------------- MODULE AgentProofs ----------------------------
(***************************************************************************)
(* Proofs about AgentSurface for any account, plan, limits, completions,   *)
(* events and scenarios.                                                   *)
(***************************************************************************)
EXTENDS AgentSurface, SequenceTheorems, FiniteSetTheorems, WellFoundedInduction, TLAPS

----------------------------------------------------------------------------
(* Completions                                                             *)

(* The calls a fragment of which was sent.                                 *)
Begun == {i \in DOMAIN reply.calls : sent.calls[i] > 0}
Call == [id : Nat, arguments : Seq(Deltas)]
Put(i) == [id |-> i, arguments |-> SubSeq(reply.calls[i], 1, sent.calls[i])]
LlmRecord(l) == l = [pc |-> l.pc, attempt |-> l.attempt, slept |-> l.slept, heard |-> l.heard,
                     partials |-> l.partials, calls |-> l.calls, skipped |-> l.skipped]

(* What the fragments were put together to is what was sent so far, but    *)
(* for the lines passed over.                                              *)
Gathered ==
    /\ llm.partials \in [DOMAIN llm.partials -> Call] /\ DOMAIN llm.partials \subseteq Begun
    /\ \A i \in DOMAIN llm.partials : ReadFrom(llm.partials[i].arguments, reply.calls[i], sent.calls[i])
    /\ ~llm.skipped => DOMAIN llm.partials = Begun /\ \A i \in Begun : llm.partials[i] = Put(i)

Said ==
    /\ reply \in Reply
    /\ sent \in [text : Nat, calls : [DOMAIN reply.calls -> Nat]]
    /\ sent.text <= Len(reply.text)
    /\ \A i \in DOMAIN reply.calls : sent.calls[i] <= Len(reply.calls[i])

Streaming ==
    /\ Said /\ LlmRecord(llm) /\ llm.heard \in Seq(Deltas)
    /\ HeardOnce /\ CallsWhole
    /\ llm.pc \in {"idle", "asking", "reading"} => Gathered

(* Nothing is read from anything; more may have been sent; and what was    *)
(* sent next may be read.                                                  *)
LEMMA ReadNone == ASSUME NEW t, NEW n \in Nat PROVE ReadFrom(<<>>, t, n)
<1>1. <<>> \in [1..Len(<<>>) -> 1..n] /\ 1..Len(<<>>) = {}  OBVIOUS
<1> QED BY <1>1, Zenon DEF ReadFrom

LEMMA ReadLonger ==
    ASSUME NEW S, NEW s \in Seq(S), NEW t, NEW n \in Nat, ReadFrom(s, t, n)
    PROVE  ReadFrom(s, t, n + 1)
<1>1. PICK at \in [1..Len(s) -> 1..n] : /\ \A k, m \in 1..Len(s) : k < m => at[k] < at[m]
                                        /\ \A k \in 1..Len(s) : s[k] = t[at[k]]
    BY DEF ReadFrom
<1>2. at \in [1..Len(s) -> 1..(n + 1)]  OBVIOUS
<1> QED BY <1>1, <1>2 DEF ReadFrom

LEMMA ReadMore ==
    ASSUME NEW S, NEW s \in Seq(S), NEW t \in Seq(S), NEW n \in Nat, n + 1 <= Len(t), ReadFrom(s, t, n)
    PROVE  ReadFrom(Append(s, t[n + 1]), t, n + 1)
<1> DEFINE l == Append(s, t[n + 1])
<1>1. PICK at \in [1..Len(s) -> 1..n] : /\ \A k, m \in 1..Len(s) : k < m => at[k] < at[m]
                                        /\ \A k \in 1..Len(s) : s[k] = t[at[k]]
    BY DEF ReadFrom
<1> DEFINE more == [k \in 1..(Len(s) + 1) |-> IF k = Len(s) + 1 THEN n + 1 ELSE at[k]]
<1>2. /\ Len(s) \in Nat /\ Len(l) = Len(s) + 1 /\ l[Len(s) + 1] = t[n + 1]
      /\ \A k \in 1..Len(s) : l[k] = s[k]
    OBVIOUS
<1>3. \A k \in 1..Len(s) : at[k] \in 1..n  OBVIOUS
<1>4. more \in [1..(Len(s) + 1) -> 1..(n + 1)]  BY <1>2, <1>3
<1>5. ASSUME NEW k \in 1..(Len(s) + 1), NEW m \in 1..(Len(s) + 1), k < m PROVE more[k] < more[m]
  <2>1. k \in 1..Len(s) /\ more[k] = at[k] /\ at[k] \in 1..n  BY <1>2, <1>3, <1>5
  <2>2. CASE m = Len(s) + 1  BY <2>1, <2>2
  <2>3. CASE m # Len(s) + 1
    <3>1. m \in 1..Len(s) /\ more[m] = at[m]  BY <1>2, <1>5, <2>3
    <3> QED BY <1>1, <1>5, <2>1, <3>1
  <2> QED BY <2>2, <2>3
<1>6. \A k \in 1..(Len(s) + 1) : l[k] = t[more[k]]  BY <1>1, <1>2
<1> HIDE DEF l, more
<1> QED BY <1>2, <1>4, <1>5, <1>6 DEF ReadFrom, l

LEMMA Longer ==
    ASSUME NEW S, NEW s \in Seq(S), NEW n \in Nat, n + 1 <= Len(s)
    PROVE  Append(SubSeq(s, 1, n), s[n + 1]) = SubSeq(s, 1, n + 1)
<1>1. /\ SubSeq(s, 1, n) \in Seq(S) /\ s[n + 1] \in S /\ SubSeq(s, 1, n + 1) \in Seq(S)
      /\ Len(SubSeq(s, 1, n)) = n /\ Len(SubSeq(s, 1, n + 1)) = n + 1
    OBVIOUS
<1> DEFINE l == Append(SubSeq(s, 1, n), s[n + 1])
<1>2. l \in Seq(S) /\ Len(l) = n + 1  BY <1>1
<1>3. ASSUME NEW k \in 1..(n + 1) PROVE l[k] = SubSeq(s, 1, n + 1)[k]  BY <1>1
<1> HIDE DEF l
<1> QED BY <1>1, <1>2, <1>3, SeqEqual DEF l

LEMMA StreamingInit == Init => Streaming
<1> SUFFICES ASSUME Init PROVE Streaming  OBVIOUS
<1>1. PICK s \in Scenarios : InitLlm(s.reply)  BY DEF Init
<1>2. reply \in Reply  BY <1>1, ScenarioAssumption DEF InitLlm
<1>3. reply.text \in Seq(Deltas) /\ reply.calls \in Seq(Seq(Deltas) \ {<<>>})
    BY <1>2 DEF Reply
<1>4. \A i \in DOMAIN reply.calls : reply.calls[i] \in Seq(Deltas) /\ Len(reply.calls[i]) \in Nat
    BY <1>3
<1>5. sent.text = 0 /\ (\A i \in DOMAIN reply.calls : sent.calls[i] = 0)
      /\ sent \in [text : Nat, calls : [DOMAIN reply.calls -> Nat]]
    BY <1>1 DEF InitLlm
<1>6. Said  BY <1>2, <1>3, <1>4, <1>5 DEF Said
<1>7. llm.pc = "idle" /\ llm.heard = <<>> /\ llm.partials = <<>> /\ LlmRecord(llm)
    BY <1>1 DEF InitLlm, NoCompletion, LlmRecord
<1>8. Gathered  BY <1>5, <1>7 DEF Gathered, Begun
<1>9. HeardOnce  BY <1>3, <1>5, <1>7, ReadNone DEF HeardOnce
<1> QED BY <1>6, <1>7, <1>8, <1>9 DEF Streaming, CallsWhole

(* A piece more of a call is sent.                                         *)
LEMMA PieceSent ==
    ASSUME Said, NEW i \in DOMAIN reply.calls, Piece(i)
    PROVE  /\ Said' /\ sent'.text = sent.text /\ sent'.calls[i] = sent.calls[i] + 1
           /\ \A k \in DOMAIN reply.calls : k # i => sent'.calls[k] = sent.calls[k]
           /\ Begun' = Begun \cup {i} /\ reply' = reply
           /\ i \in Nat \ {0} /\ reply.calls[i] \in Seq(Deltas)
           /\ sent.calls[i] \in Nat /\ sent.calls[i] + 1 <= Len(reply.calls[i])
<1> DEFINE more == [sent.calls EXCEPT ![i] = sent.calls[i] + 1]
<1>1. /\ reply.calls \in Seq(Seq(Deltas) \ {<<>>}) /\ i \in Nat \ {0} /\ reply.calls[i] \in Seq(Deltas)
      /\ sent.calls \in [DOMAIN reply.calls -> Nat] /\ sent.text \in Nat /\ Len(reply.calls[i]) \in Nat
    BY DEF Said, Reply
<1>2. sent' = [sent EXCEPT !.calls = more] /\ reply' = reply /\ sent.calls[i] < Len(reply.calls[i])
    BY DEF Piece, Said
<1>3. more \in [DOMAIN reply.calls -> Nat] /\ more[i] = sent.calls[i] + 1
      /\ \A k \in DOMAIN reply.calls : k # i => more[k] = sent.calls[k]
    BY <1>1
<1> HIDE DEF more
<1>4. sent'.text = sent.text /\ sent'.calls = more /\ sent' \in [text : Nat, calls : [DOMAIN reply.calls -> Nat]]
    BY <1>2, <1>3 DEF Said
<1>5. sent.calls[i] \in Nat /\ sent.calls[i] + 1 <= Len(reply.calls[i])  BY <1>1, <1>2
<1>6. Said'  BY <1>2, <1>3, <1>4, <1>5 DEF Said
<1>7. Begun' = Begun \cup {i}  BY <1>1, <1>2, <1>3, <1>4 DEF Begun
<1> QED BY <1>1, <1>2, <1>3, <1>4, <1>5, <1>6, <1>7

(* A fragment is added to its own call and to no other.                    *)
LEMMA Fragment ==
    ASSUME Streaming, NEW i \in DOMAIN reply.calls, ReadFragment(i)
    PROVE  Gathered'
<1> DEFINE n == sent.calls[i] + 1
           old == llm.partials
           f == [index |-> i, id |-> IF n = 1 THEN i ELSE 0, arguments |-> <<reply.calls[i][n]>>]
           entry == IF f.index \in DOMAIN old THEN old[f.index] ELSE [id |-> 0, arguments |-> <<>>]
           new == [id |-> IF f.id # 0 THEN f.id ELSE entry.id, arguments |-> entry.arguments \o f.arguments]
<1>0. /\ llm.pc = "reading" /\ Gathered /\ Piece(i) /\ Said
      /\ llm' = [llm EXCEPT !.partials = accumulate_tool_calls(old, f)]
    BY DEF Streaming, ReadFragment, Piece
<1>1. /\ Said' /\ sent'.calls[i] = n /\ Begun' = Begun \cup {i} /\ reply' = reply
      /\ \A k \in DOMAIN reply.calls : k # i => sent'.calls[k] = sent.calls[k]
      /\ i \in Nat \ {0} /\ reply.calls[i] \in Seq(Deltas) /\ sent.calls[i] \in Nat /\ n <= Len(reply.calls[i])
    BY <1>0, PieceSent
<1>2. /\ llm'.skipped = llm.skipped
      /\ llm'.partials = [k \in DOMAIN old \cup {i} |-> IF k = i THEN new ELSE old[k]]
    BY <1>0 DEF accumulate_tool_calls, Streaming, LlmRecord
<1>3. /\ entry \in Call /\ ReadFrom(entry.arguments, reply.calls[i], sent.calls[i])
      /\ i \notin DOMAIN old => entry = [id |-> 0, arguments |-> <<>>]
    <2>1. CASE i \in DOMAIN old  BY <1>0, <2>1 DEF Gathered
    <2>2. CASE i \notin DOMAIN old  BY <1>1, <2>2, ReadNone DEF Call
    <2> QED BY <2>1, <2>2
<1>4. ~llm.skipped => entry.arguments = SubSeq(reply.calls[i], 1, sent.calls[i]) /\ (n = 1 \/ entry.id = i)
    <2>1. ASSUME i \in DOMAIN old, ~llm.skipped
          PROVE  entry.arguments = SubSeq(reply.calls[i], 1, sent.calls[i]) /\ entry.id = i
      <3>1. entry = Put(i)  BY <1>0, <2>1 DEF Gathered
      <3> QED BY <3>1 DEF Put
    <2>2. ASSUME i \notin DOMAIN old, ~llm.skipped
          PROVE  entry.arguments = SubSeq(reply.calls[i], 1, sent.calls[i]) /\ n = 1
      <3>1. sent.calls[i] = 0 /\ entry.arguments = <<>>
        BY <1>0, <1>1, <1>3, <2>2 DEF Gathered, Begun
      <3>2. SubSeq(reply.calls[i], 1, 0) = <<>>  BY SubSeqEmpty
      <3>3. n = 1  BY <3>1
      <3> HIDE DEF entry, n
      <3> QED BY <3>1, <3>2, <3>3
    <2> QED BY <2>1, <2>2
<1> DEFINE d == reply.calls[i][n]
<1>5. d \in Deltas /\ f.arguments = <<d>> /\ f.id \in {0, i} /\ (n = 1 => f.id = i) /\ (n # 1 => f.id = 0)
    BY <1>1
<1> HIDE DEF entry, f, d
<1>6. /\ new \in Call /\ new.arguments = Append(entry.arguments, d)
      /\ ~llm.skipped => new.id = i
    BY <1>1, <1>3, <1>4, <1>5 DEF Call
<1>7. /\ ReadFrom(new.arguments, reply.calls[i], n)
      /\ ~llm.skipped => new.arguments = SubSeq(reply.calls[i], 1, n)
  <2>1. entry.arguments \in Seq(Deltas) /\ n = sent.calls[i] + 1  BY <1>3 DEF Call
  <2>2. ReadFrom(Append(entry.arguments, reply.calls[i][n]), reply.calls[i], n)
    BY <1>1, <1>3, <2>1, ReadMore
  <2>3. Append(SubSeq(reply.calls[i], 1, sent.calls[i]), reply.calls[i][n]) = SubSeq(reply.calls[i], 1, n)
    BY <1>1, <2>1, Longer
  <2> QED BY <1>4, <1>6, <2>2, <2>3 DEF d
<1>8. ~llm.skipped => new = [id |-> i, arguments |-> SubSeq(reply.calls[i], 1, n)]
    BY <1>6, <1>7 DEF Call
<1> HIDE DEF new, old, n
<1>9. DOMAIN llm'.partials = DOMAIN old \cup {i} /\ llm'.partials[i] = new
      /\ \A k \in DOMAIN old : k # i => llm'.partials[k] = old[k]
    BY <1>2
<1>10. /\ llm'.partials \in [DOMAIN llm'.partials -> Call] /\ DOMAIN llm'.partials \subseteq Begun'
    BY <1>0, <1>1, <1>2, <1>6, <1>9 DEF Gathered, old
<1>11. ASSUME NEW k \in DOMAIN llm'.partials
       PROVE  ReadFrom(llm'.partials[k].arguments, reply'.calls[k], sent'.calls[k])
    <2>1. CASE k = i  BY <1>1, <1>7, <1>9, <2>1
    <2>2. CASE k # i  BY <1>0, <1>1, <1>9, <2>2 DEF Gathered, Begun, old
    <2> QED BY <2>1, <2>2
<1>12. ASSUME ~llm'.skipped, NEW k \in Begun' PROVE llm'.partials[k] = Put(k)'
    <2>1. CASE k = i  BY <1>1, <1>2, <1>8, <1>9, <1>12, <2>1 DEF Put
    <2>2. CASE k # i
      BY <1>0, <1>1, <1>2, <1>9, <1>12, <2>2 DEF Gathered, Begun, old, Put
    <2> QED BY <2>1, <2>2
<1>13. ~llm'.skipped => DOMAIN llm'.partials = Begun'
    BY <1>0, <1>1, <1>2, <1>9 DEF Gathered, old
<1> QED BY <1>10, <1>11, <1>12, <1>13 DEF Gathered

(* What is handed over at the end.                                         *)
LEMMA HandedOver == ASSUME Streaming, ReadDone PROVE CallsWhole'
<1>1. /\ UNCHANGED <<reply, sent>> /\ Gathered /\ Said /\ LlmRecord(llm)
    BY DEF Streaming, ReadDone
<1>2. PICK b \in SUBSET DOMAIN llm.partials :
          llm' = [llm EXCEPT !.pc = "done", !.partials = <<>>,
                    !.calls = [i \in DOMAIN llm.partials |-> finalise_tool_call(i, i \in b)]]
    BY DEF ReadDone
<1>3. /\ llm'.calls = [i \in DOMAIN llm.partials |-> finalise_tool_call(i, i \in b)]
      /\ llm'.skipped = llm.skipped
    BY <1>1, <1>2 DEF LlmRecord
<1>4. \A i \in DOMAIN reply.calls :
          reply.calls[i] \in Seq(Deltas) \ {<<>>} /\ Len(reply.calls[i]) \in Nat \ {0} /\ sent.calls[i] \in Nat
          /\ sent.calls[i] <= Len(reply.calls[i])
    BY <1>1 DEF Said, Reply
<1>5. ASSUME NEW i \in DOMAIN llm.partials
      PROVE  /\ i \in DOMAIN reply.calls /\ llm'.calls[i].id = llm.partials[i].id
             /\ llm'.calls[i] = [id |-> llm'.calls[i].id, arguments |-> llm'.calls[i].arguments]
             /\ llm'.calls[i].arguments = IF decodes(llm.partials[i].arguments, reply.calls[i], i \in b)
                                          THEN llm.partials[i].arguments ELSE <<>>
    <2>1. i \in DOMAIN reply.calls /\ llm.partials[i] \in Call
      BY <1>1 DEF Gathered, Begun
    <2>2. llm'.calls[i] = [llm.partials[i] EXCEPT !.arguments =
                              IF decodes(@, reply.calls[i], i \in b) THEN @ ELSE <<>>]
      BY <1>3 DEF finalise_tool_call
    <2> QED BY <2>1, <2>2 DEF Call
<1>6. ASSUME ~llm.skipped, NEW i \in DOMAIN llm.partials
      PROVE  /\ llm'.calls[i].id = i /\ llm'.calls[i].arguments \in {<<>>, reply.calls[i]}
             /\ sent.calls[i] = Len(reply.calls[i]) => llm'.calls[i].arguments = reply.calls[i]
    <2> DEFINE t == reply.calls[i]
               n == sent.calls[i]
    <2>1. llm.partials[i] = [id |-> i, arguments |-> SubSeq(t, 1, n)] /\ i \in DOMAIN reply.calls
      BY <1>1, <1>6 DEF Gathered, Begun, Put
    <2>2. t \in Seq(Deltas) /\ n \in Nat /\ n <= Len(t)  BY <1>4, <2>1
    <2>3. IsPrefix(SubSeq(t, 1, n), t)
      <3>1. Len(SubSeq(t, 1, n)) = n /\ SubSeq(t, 1, n) \in Seq(Deltas)  BY <2>2
      <3>2. SubSeq(SubSeq(t, 1, n), 1, n) = SubSeq(t, 1, n)  BY <3>1, SubSeqFull
      <3> QED BY <2>2, <3>1, <3>2 DEF IsPrefix
    <2>4. n = Len(t) => SubSeq(t, 1, n) = t  BY <2>2, SubSeqFull
    <2> HIDE DEF t, n
    <2>5. decodes(SubSeq(t, 1, n), t, i \in b) <=> SubSeq(t, 1, n) = t
      BY <2>3 DEF decodes
    <2>6. llm'.calls[i].id = i /\ llm'.calls[i].arguments = IF SubSeq(t, 1, n) = t THEN SubSeq(t, 1, n) ELSE <<>>
      <3> DEFINE c == llm.partials[i]
      <3>1. c.id = i /\ c.arguments = SubSeq(t, 1, n)
        <4> HIDE DEF c
        <4>1. c = [id |-> i, arguments |-> SubSeq(t, 1, n)]  BY <2>1 DEF c
        <4> QED BY <4>1
      <3> QED BY <1>5, <2>5, <3>1 DEF t
    <2> QED BY <2>4, <2>6 DEF t, n
<1>7. ASSUME NEW i \in DOMAIN llm'.calls
      PROVE  /\ ReadFrom(llm'.calls[i].arguments, reply.calls[i], sent.calls[i])
             /\ llm'.calls[i].id = i \/ llm.skipped
             /\ llm'.calls[i].arguments \in {<<>>, reply.calls[i]} \/ llm.skipped
    <2>1. i \in DOMAIN llm.partials /\ i \in DOMAIN reply.calls  BY <1>3, <1>5, <1>7
    <2>2. ReadFrom(llm.partials[i].arguments, reply.calls[i], sent.calls[i])
          /\ ReadFrom(<<>>, reply.calls[i], sent.calls[i])
      BY <1>1, <1>4, <2>1, ReadNone DEF Gathered
    <2> QED BY <1>5, <1>6, <2>1, <2>2
<1>8. ASSUME AllSent, ~llm.skipped
      PROVE  llm'.calls = [i \in DOMAIN reply.calls |-> [id |-> i, arguments |-> reply.calls[i]]]
    <2>1. DOMAIN llm.partials = DOMAIN reply.calls /\ \A i \in DOMAIN reply.calls : sent.calls[i] = Len(reply.calls[i])
      <3>1. \A i \in DOMAIN reply.calls : sent.calls[i] = Len(reply.calls[i])
        BY <1>8 DEF AllSent
      <3>2. \A i \in DOMAIN reply.calls : sent.calls[i] > 0  BY <1>4, <3>1
      <3> QED BY <1>1, <1>8, <3>1, <3>2 DEF Gathered, Begun
    <2>2. \A i \in DOMAIN reply.calls : llm'.calls[i] = [id |-> i, arguments |-> reply.calls[i]]
      BY <1>5, <1>6, <1>8, <2>1
    <2> QED BY <1>3, <2>1, <2>2
<1>9. AllSent' <=> AllSent  BY <1>1 DEF AllSent
<1> QED BY <1>1, <1>3, <1>7, <1>8, <1>9 DEF CallsWhole

(* The state of a completion changes in LlmNext only.                      *)
LEMMA LlmSteps == Next => LlmNext \/ UNCHANGED llmVars
<1>1. ASSUME Apart PROVE UNCHANGED llmVars  BY <1>1 DEF Apart
<1>2. ASSUME Beside \/ BesideMcp \/ BesideTelemetry \/ BesideEvents PROVE UNCHANGED llmVars
    BY <1>1, <1>2 DEF Beside, BesideMcp, BesideTelemetry, BesideEvents
<1>3. TurnNext \/ ConversationNext \/ ClickNext \/ AskNext \/ OwnerNext => Beside
    BY DEF TurnNext, ConversationNext, ClickNext, AskNext, OwnerNext
<1>4. McpNext => BesideMcp  BY DEF McpNext
<1>5. TelemetryNext => BesideTelemetry  BY DEF TelemetryNext
<1>6. EventNext => BesideEvents  BY DEF EventNext
<1> QED BY <1>2, <1>3, <1>4, <1>5, <1>6 DEF Next

LEMMA StreamingStep == Streaming /\ [Next]_vars => Streaming'
<1> SUFFICES ASSUME Streaming, LlmNext \/ UNCHANGED llmVars PROVE Streaming'
    BY LlmSteps DEF vars, llmVars
<1>0. /\ Said /\ LlmRecord(llm) /\ reply.text \in Seq(Deltas) /\ sent.text \in Nat /\ Len(reply.text) \in Nat
      /\ llm.heard \in Seq(Deltas) /\ HeardOnce
    BY DEF Streaming, Said, Reply
<1>1. CASE UNCHANGED llmVars
    BY <1>1 DEF Streaming, llmVars, CallsWhole, HeardOnce, Said, Gathered, Begun, Put, AllSent, LlmRecord
<1>2. CASE UNCHANGED <<reply, sent>> /\ llm.pc \in {"idle", "asking", "reading"}
           /\ \E pc \in {"asking", "reading", "rejected", "unavailable"} : \E a, t :
                 llm' = [llm EXCEPT !.pc = pc, !.attempt = a, !.slept = t]
  <2>1. /\ LlmRecord(llm') /\ llm'.pc \in {"asking", "reading", "rejected", "unavailable"} /\ llm'.skipped = llm.skipped
        /\ llm'.heard = llm.heard /\ llm'.partials = llm.partials /\ llm'.calls = llm.calls
    BY <1>0, <1>2 DEF LlmRecord
  <2>2. Begun' = Begun /\ Said' /\ \A i : Put(i)' = Put(i)
    BY <1>0, <1>2 DEF Begun, Said, Put
  <2>3. Gathered'  BY <1>2, <2>1, <2>2 DEF Streaming, Gathered
  <2>4. HeardOnce'  BY <1>0, <1>2, <2>1 DEF HeardOnce
  <2> QED BY <1>0, <2>1, <2>2, <2>3, <2>4 DEF Streaming, CallsWhole
<1>3. ASSUME stream PROVE Streaming'
  <2>1. llm' = [llm EXCEPT !.pc = "asking", !.attempt = llm.attempt, !.slept = llm.slept]
    BY <1>0, <1>3 DEF stream, LlmRecord
  <2> QED BY <1>2, <1>3, <2>1 DEF stream
<1>4. ASSUME NEW retryable, NEW asked, RequestRefused(retryable, asked) PROVE Streaming'
  <2> DEFINE d == retry_delay_seconds(asked, llm.attempt)
  <2>1. \/ llm' = [llm EXCEPT !.pc = "rejected"] \/ llm' = [llm EXCEPT !.pc = "unavailable"]
        \/ llm' = [llm EXCEPT !.attempt = @ + 1, !.slept = @ + d]
    BY <1>4 DEF RequestRefused
  <2> HIDE DEF d
  <2>2. \/ llm' = [llm EXCEPT !.pc = "rejected", !.attempt = llm.attempt, !.slept = llm.slept]
        \/ llm' = [llm EXCEPT !.pc = "unavailable", !.attempt = llm.attempt, !.slept = llm.slept]
        \/ llm' = [llm EXCEPT !.pc = "asking", !.attempt = llm.attempt + 1, !.slept = llm.slept + d]
    BY <1>0, <1>4, <2>1 DEF RequestRefused, LlmRecord
  <2> QED BY <1>2, <1>4, <2>2 DEF RequestRefused
<1>5. ASSUME RequestAccepted PROVE Streaming'
  <2>1. llm' = [llm EXCEPT !.pc = "reading", !.attempt = llm.attempt, !.slept = llm.slept]
    BY <1>0, <1>5 DEF RequestAccepted, LlmRecord
  <2> QED BY <1>2, <1>5, <2>1 DEF RequestAccepted
<1>6. ASSUME ReadText \/ SkipText PROVE Streaming'
  <2> DEFINE n == sent.text
  <2>1. /\ reply' = reply /\ n + 1 <= Len(reply.text) /\ sent' = [sent EXCEPT !.text = n + 1] /\ llm.pc = "reading"
        /\ sent'.text = n + 1 /\ sent'.calls = sent.calls /\ Said'
    <3>1. reply' = reply /\ n + 1 <= Len(reply.text) /\ sent' = [sent EXCEPT !.text = n + 1] /\ llm.pc = "reading"
      BY <1>0, <1>6 DEF ReadText, SkipText
    <3> QED BY <1>0, <3>1 DEF Said
  <2>2. Begun' = Begun /\ \A i : Put(i)' = Put(i)  BY <2>1 DEF Begun, Put
  <2>3. /\ LlmRecord(llm') /\ llm'.pc = "reading" /\ llm'.partials = llm.partials
        /\ \/ ReadText /\ llm'.heard = Append(llm.heard, reply.text[n + 1]) /\ llm'.skipped = llm.skipped
           \/ SkipText /\ llm'.heard = llm.heard /\ llm'.skipped = TRUE
    BY <1>0, <1>6, <2>1 DEF ReadText, SkipText, LlmRecord
  <2>4. Gathered'  BY <2>1, <2>2, <2>3 DEF Streaming, Gathered
  <2>5. llm'.heard \in Seq(Deltas) /\ HeardOnce'
    <3>1. CASE ReadText /\ llm'.heard = Append(llm.heard, reply.text[n + 1]) /\ llm'.skipped = llm.skipped
      <4>1. ReadFrom(llm'.heard, reply.text, n + 1)
        BY <1>0, <2>1, <3>1, ReadMore DEF HeardOnce
      <4>2. Append(SubSeq(reply.text, 1, n), reply.text[n + 1]) = SubSeq(reply.text, 1, n + 1)
        BY <1>0, <2>1, Longer
      <4>3. reply.text[n + 1] \in Deltas  BY <1>0, <2>1
      <4>4. ~llm'.skipped => llm'.heard = SubSeq(reply.text, 1, n + 1)
        BY <1>0, <3>1, <4>2 DEF HeardOnce
      <4>5. HeardOnce'  BY <2>1, <4>1, <4>4 DEF HeardOnce
      <4> QED BY <1>0, <3>1, <4>3, <4>5
    <3>2. CASE SkipText /\ llm'.heard = llm.heard /\ llm'.skipped = TRUE
      BY <1>0, <2>1, <3>2, ReadLonger DEF HeardOnce
    <3> QED BY <2>3, <3>1, <3>2
  <2> HIDE DEF n
  <2> QED BY <2>1, <2>3, <2>4, <2>5 DEF Streaming, CallsWhole
<1>7. ASSUME NEW i \in DOMAIN reply.calls, ReadFragment(i) \/ SkipFragment(i) PROVE Streaming'
  <2>1. /\ Piece(i) /\ LlmRecord(llm') /\ llm'.pc = "reading" /\ llm'.heard = llm.heard /\ llm.pc = "reading"
        /\ llm'.skipped = llm.skipped \/ llm'.skipped = TRUE
    BY <1>0, <1>7 DEF ReadFragment, SkipFragment, Piece, LlmRecord
  <2>2. /\ Said' /\ sent'.text = sent.text /\ sent'.calls[i] = sent.calls[i] + 1 /\ reply' = reply
        /\ \A k \in DOMAIN reply.calls : k # i => sent'.calls[k] = sent.calls[k]
        /\ Begun' = Begun \cup {i} /\ sent.calls[i] \in Nat /\ sent.calls[i] + 1 <= Len(reply.calls[i])
    BY <1>0, <2>1, PieceSent
  <2>3. HeardOnce'  BY <1>0, <2>1, <2>2 DEF HeardOnce
  <2>4. Gathered'
    <3>1. CASE ReadFragment(i)  BY <3>1, Fragment
    <3>2. CASE SkipFragment(i)
      <4>1. llm'.partials = llm.partials /\ llm'.skipped /\ Gathered
        BY <1>0, <2>1, <3>2 DEF SkipFragment, LlmRecord, Streaming
      <4>2. ASSUME NEW k \in DOMAIN llm.partials PROVE ReadFrom(llm.partials[k].arguments, reply.calls[k], sent'.calls[k])
        <5>1. /\ llm.partials[k].arguments \in Seq(Deltas) /\ k \in DOMAIN reply.calls
              /\ ReadFrom(llm.partials[k].arguments, reply.calls[k], sent.calls[k])
          BY <4>1 DEF Gathered, Begun, Call
        <5> QED BY <2>2, <5>1, ReadLonger
      <4> QED BY <2>2, <4>1, <4>2 DEF Gathered
    <3> QED BY <1>7, <3>1, <3>2
  <2> QED BY <1>0, <2>1, <2>2, <2>3, <2>4 DEF Streaming, CallsWhole
<1>8. ASSUME ReadDone PROVE Streaming'
  <2>1. /\ UNCHANGED <<reply, sent>> /\ LlmRecord(llm') /\ llm'.pc = "done" /\ llm'.heard = llm.heard
        /\ llm'.skipped = llm.skipped
    BY <1>0, <1>8 DEF ReadDone, LlmRecord
  <2> QED BY <1>0, <1>8, <2>1, HandedOver DEF Streaming, HeardOnce, Said
<1>9. ASSUME StreamBreaks PROVE Streaming'
  <2>1. /\ UNCHANGED <<reply, sent>> /\ LlmRecord(llm') /\ llm'.pc = "broken" /\ llm'.heard = llm.heard
        /\ llm'.skipped = llm.skipped
    BY <1>0, <1>9 DEF StreamBreaks, LlmRecord
  <2> QED BY <1>0, <2>1 DEF Streaming, HeardOnce, Said, CallsWhole
<1> QED BY <1>1, <1>3, <1>4, <1>5, <1>6, <1>7, <1>8, <1>9 DEF LlmNext

(* However often the provider refuses, wherever its stream breaks or ends  *)
(* and whatever lines are passed over, a completion is heard once and in   *)
(* order, and no call is handed half of its arguments unless a line was    *)
(* passed over (OpenAiLlmAdapter.stream, _read_stream,                     *)
(* _accumulate_tool_calls, _finalise_tool_call): for every answer and any  *)
(* bounds on the retries.                                                  *)
THEOREM StreamWholeTheorem == Spec => []StreamWhole
<1>1. Streaming => StreamWhole  BY DEF Streaming, StreamWhole
<1> QED BY <1>1, StreamingInit, StreamingStep, PTL DEF Spec

----------------------------------------------------------------------------
(* Job events                                                              *)

Rising(s) == \A i, k \in DOMAIN s : i < k => s[i].id < s[k].id

Passed(e) == \E m \in DOMAIN watcher.shown : watcher.shown[m] = e

(* What was read is what the stream had behind the cursor, up to its last  *)
(* entry; and what is behind the cursor was passed on, if it is the job's. *)
Watching ==
    /\ published \in Nat /\ feed \in Seq(JobEvent) /\ Rising(feed)
    /\ \A i \in DOMAIN feed : feed[i].id <= published
    /\ watcher \in [pc : {"closed", "open", "ended"}, job : SUBSET WatchedJobs, cursor : Nat,
                    batch : Seq(JobEvent), shown : Seq(JobEvent)]
    /\ watcher.cursor <= published /\ Rising(watcher.batch)
    /\ \A i \in DOMAIN watcher.batch : watcher.cursor < watcher.batch[i].id /\ watcher.batch[i].id <= published
    /\ \A k \in DOMAIN feed, n \in DOMAIN watcher.batch :
          watcher.cursor < feed[k].id /\ feed[k].id <= watcher.batch[n].id =>
              \E m \in DOMAIN watcher.batch : watcher.batch[m] = feed[k]
    /\ Rising(watcher.shown) /\ \A i \in DOMAIN watcher.shown : watcher.shown[i].id <= watcher.cursor
    /\ \A i \in DOMAIN watcher.shown :
          Terminal(watcher.shown[i]) <=> watcher.pc = "ended" /\ i = Len(watcher.shown)
    /\ watcher.pc = "ended" => watcher.shown # <<>>
    /\ watcher.pc # "closed" =>
          \A k \in DOMAIN feed : feed[k].job \in watcher.job /\ feed[k].id <= watcher.cursor => Passed(feed[k])

LEMMA WatchingInit == Init => Watching
<1> SUFFICES ASSUME Init PROVE Watching  OBVIOUS
<1>1. feed = <<>> /\ published = 0 /\ watcher = Closed  BY DEF Init, InitEvents
<1>2. /\ watcher \in [pc : {"closed", "open", "ended"}, job : SUBSET WatchedJobs, cursor : Nat,
                      batch : Seq(JobEvent), shown : Seq(JobEvent)]
      /\ watcher.pc = "closed" /\ watcher.cursor = 0 /\ watcher.batch = <<>> /\ watcher.shown = <<>>
    BY <1>1 DEF Closed
<1> QED BY <1>1, <1>2 DEF Watching, Rising

LEMMA EventSteps == Next => EventNext \/ UNCHANGED eventVars
<1>1. ASSUME Apart PROVE UNCHANGED eventVars  BY <1>1 DEF Apart
<1>2. ASSUME Beside \/ BesideMcp \/ BesideTelemetry \/ BesideLlm PROVE UNCHANGED eventVars
    BY <1>1, <1>2 DEF Beside, BesideMcp, BesideTelemetry, BesideLlm
<1>3. TurnNext \/ ConversationNext \/ ClickNext \/ AskNext \/ OwnerNext => Beside
    BY DEF TurnNext, ConversationNext, ClickNext, AskNext, OwnerNext
<1>4. McpNext => BesideMcp  BY DEF McpNext
<1>5. TelemetryNext => BesideTelemetry  BY DEF TelemetryNext
<1>6. LlmNext => BesideLlm  BY DEF LlmNext
<1> QED BY <1>2, <1>3, <1>4, <1>5, <1>6 DEF Next

(* An event is added to the newest end, and some of the oldest may go.     *)
LEMMA Published ==
    ASSUME Watching, NEW j \in WatchedJobs, NEW status \in {"PROCESSING", "COMPLETED", "FAILED"},
           publish(j, status)
    PROVE  /\ published' = published + 1 /\ watcher' = watcher
           /\ feed' \in Seq(JobEvent) /\ Rising(feed')
           /\ \A i \in DOMAIN feed' : \/ feed'[i].id = published + 1
                                      \/ \E k \in DOMAIN feed : feed'[i] = feed[k]
<1> DEFINE new == [id |-> published + 1, job |-> j, status |-> status]
           longer == Append(feed, new)
           surplus == Len(longer) - KeptEvents
<1>1. published < MaxEvents /\ published' = published + 1 /\ watcher' = watcher
    BY DEF publish
<1>2. PICK drop \in {0} \cup (IF surplus > 0 THEN {surplus} ELSE {}) :
         feed' = SubSeq(longer, drop + 1, Len(longer))
    BY DEF publish
<1>3. published \in Nat /\ feed \in Seq(JobEvent) /\ Rising(feed) /\ \A i \in DOMAIN feed : feed[i].id <= published
    BY DEF Watching
<1>4. new \in JobEvent /\ new.id = published + 1
    BY <1>1, <1>3, EventAssumption DEF JobEvent
<1> HIDE DEF new
<1>5. /\ longer \in Seq(JobEvent) /\ Len(longer) = Len(feed) + 1 /\ Len(feed) \in Nat
      /\ \A k \in 1..Len(feed) : longer[k] = feed[k]
      /\ longer[Len(feed) + 1] = new
    BY <1>3, <1>4
<1>6. drop \in 0..Len(feed)  BY <1>2, <1>5, EventAssumption
<1> HIDE DEF longer, surplus
<1>7. /\ feed' \in Seq(JobEvent) /\ Len(feed') = Len(feed) + 1 - drop
      /\ \A i \in 1..Len(feed') : feed'[i] = longer[i + drop] /\ i + drop \in 1..(Len(feed) + 1)
    BY <1>2, <1>5, <1>6
<1>8. \A i, k \in 1..(Len(feed) + 1) : i < k => longer[i].id < longer[k].id
  <2> SUFFICES ASSUME NEW i \in 1..(Len(feed) + 1), NEW k \in 1..(Len(feed) + 1), i < k
               PROVE  longer[i].id < longer[k].id
    OBVIOUS
  <2>0. \A n \in 1..Len(feed) : feed[n].id \in Nat /\ n \in DOMAIN feed
    <3>1. \A n \in 1..Len(feed) : feed[n] \in JobEvent /\ n \in DOMAIN feed  BY <1>3
    <3> QED BY <3>1, EventAssumption DEF JobEvent
  <2>1. CASE k = Len(feed) + 1  BY <1>3, <1>4, <1>5, <2>0, <2>1
  <2>2. CASE k # Len(feed) + 1
    <3>1. i \in 1..Len(feed) /\ k \in 1..Len(feed)  BY <1>5, <2>2
    <3>2. i \in DOMAIN feed /\ k \in DOMAIN feed /\ longer[i] = feed[i] /\ longer[k] = feed[k]
      BY <1>5, <2>0, <3>1
    <3>3. feed[i].id < feed[k].id  BY <1>3, <3>2 DEF Rising
    <3> QED BY <3>2, <3>3
  <2> QED BY <2>1, <2>2
<1>9. Rising(feed')
  <2> SUFFICES ASSUME NEW i \in DOMAIN feed', NEW k \in DOMAIN feed', i < k PROVE feed'[i].id < feed'[k].id
    BY DEF Rising
  <2>1. i \in 1..Len(feed') /\ k \in 1..Len(feed') /\ i + drop < k + drop  BY <1>6, <1>7
  <2> QED BY <1>7, <1>8, <2>1
<1>10. ASSUME NEW i \in DOMAIN feed'
       PROVE  feed'[i].id = published + 1 \/ \E k \in DOMAIN feed : feed'[i] = feed[k]
  <2>1. feed'[i] = longer[i + drop] /\ i + drop \in 1..(Len(feed) + 1)  BY <1>7
  <2>2. CASE i + drop = Len(feed) + 1  BY <1>4, <1>5, <2>1, <2>2
  <2>3. CASE i + drop # Len(feed) + 1  BY <1>3, <1>5, <2>1, <2>3
  <2> QED BY <2>2, <2>3
<1> QED BY <1>1, <1>7, <1>9, <1>10

LEMMA WatchingStep == Watching /\ [Next]_vars => Watching'
<1> SUFFICES ASSUME Watching, EventNext \/ UNCHANGED eventVars PROVE Watching'
    BY EventSteps DEF vars, eventVars
<1> DEFINE W == [pc : {"closed", "open", "ended"}, job : SUBSET WatchedJobs, cursor : Nat,
                 batch : Seq(JobEvent), shown : Seq(JobEvent)]
<1>0. /\ published \in Nat /\ feed \in Seq(JobEvent) /\ watcher \in W
      /\ watcher.cursor \in Nat /\ watcher.batch \in Seq(JobEvent) /\ watcher.shown \in Seq(JobEvent)
      /\ watcher.job \in SUBSET WatchedJobs
    BY DEF Watching
<1>a. \A e \in JobEvent : e.id \in Nat \ {0}  BY EventAssumption DEF JobEvent
<1>b. /\ \A k \in DOMAIN feed : feed[k] \in JobEvent /\ feed[k].id \in Nat \ {0}
      /\ \A k \in DOMAIN watcher.batch : watcher.batch[k] \in JobEvent /\ watcher.batch[k].id \in Nat \ {0}
      /\ \A k \in DOMAIN watcher.shown : watcher.shown[k] \in JobEvent /\ watcher.shown[k].id \in Nat \ {0}
  <2>1. /\ \A k \in DOMAIN feed : feed[k] \in JobEvent
        /\ \A k \in DOMAIN watcher.batch : watcher.batch[k] \in JobEvent
        /\ \A k \in DOMAIN watcher.shown : watcher.shown[k] \in JobEvent
    BY <1>0
  <2> QED BY <1>a, <2>1
<1>1. CASE UNCHANGED eventVars  BY <1>1 DEF Watching, eventVars, Passed, Rising
<1>2. ASSUME NEW j \in WatchedJobs, NEW status \in {"PROCESSING", "COMPLETED", "FAILED"}, publish(j, status)
      PROVE  Watching'
  <2>1. /\ published' = published + 1 /\ watcher' = watcher
        /\ feed' \in Seq(JobEvent) /\ Rising(feed')
        /\ \A i \in DOMAIN feed' : \/ feed'[i].id = published + 1
                                   \/ \E k \in DOMAIN feed : feed'[i] = feed[k]
    BY <1>2, Published
  <2>0. \A k \in DOMAIN feed : feed[k].id \in Nat /\ feed[k].id <= published
    BY <1>b DEF Watching
  <2>2. published' \in Nat /\ \A i \in DOMAIN feed' : feed'[i].id <= published'
    <3>1. ASSUME NEW i \in DOMAIN feed' PROVE feed'[i].id <= published + 1
      <4>1. CASE feed'[i].id = published + 1  BY <1>0, <4>1
      <4>2. CASE \E k \in DOMAIN feed : feed'[i] = feed[k]  BY <1>0, <2>0, <4>2
      <4> QED BY <2>1, <4>1, <4>2
    <3> QED BY <1>0, <2>1, <3>1
  <2>3. \A i \in DOMAIN watcher.batch : watcher.cursor < watcher.batch[i].id /\ watcher.batch[i].id <= published'
    BY <1>0, <1>b, <2>1 DEF Watching
  <2>4. ASSUME NEW k \in DOMAIN feed', NEW n \in DOMAIN watcher.batch,
               watcher.cursor < feed'[k].id, feed'[k].id <= watcher.batch[n].id
        PROVE  \E m \in DOMAIN watcher.batch : watcher.batch[m] = feed'[k]
    <3>1. watcher.batch[n].id <= published /\ watcher.batch[n].id \in Nat
      BY <1>b DEF Watching
    <3>2. feed'[k].id # published + 1  BY <1>0, <2>4, <3>1
    <3>3. PICK o \in DOMAIN feed : feed'[k] = feed[o]  BY <2>1, <3>2
    <3> QED BY <2>4, <3>3 DEF Watching
  <2>5. ASSUME NEW k \in DOMAIN feed', watcher.pc # "closed",
               feed'[k].job \in watcher.job, feed'[k].id <= watcher.cursor
        PROVE  Passed(feed'[k])
    <3>1. feed'[k].id # published + 1  BY <1>0, <2>5 DEF Watching
    <3> QED BY <2>1, <2>5, <3>1 DEF Watching
  <2>6. watcher.cursor <= published'  BY <1>0, <2>1 DEF Watching
  <2>7. \A k \in DOMAIN feed' : watcher.pc # "closed" /\ feed'[k].job \in watcher.job /\ feed'[k].id <= watcher.cursor
                               => \E m \in DOMAIN watcher.shown : watcher.shown[m] = feed'[k]
    BY <2>5 DEF Passed
  <2> QED BY <2>1, <2>2, <2>3, <2>4, <2>6, <2>7 DEF Watching, Passed, Rising
<1>3. ASSUME NEW j \in WatchedJobs, stream_job_events(j) PROVE Watching'
  <2>1. UNCHANGED <<feed, published>>  BY <1>3 DEF stream_job_events
  <2>2. /\ watcher' \in W /\ watcher'.pc = "open" /\ watcher'.cursor = 0
        /\ watcher'.batch = <<>> /\ watcher'.shown = <<>>
    <3>1. watcher' = [pc |-> "open", job |-> {j}, cursor |-> 0, batch |-> <<>>, shown |-> <<>>]
      BY <1>3 DEF stream_job_events, Closed, Start
    <3> QED BY <3>1
  <2> QED BY <1>0, <1>b, <2>1, <2>2 DEF Watching, Rising
<1>4. ASSUME xread PROVE Watching'
  <2>1. PICK i \in DOMAIN feed :
          /\ feed[i].id > watcher.cursor /\ \A k \in 1..(i - 1) : feed[k].id <= watcher.cursor
          /\ watcher' = [watcher EXCEPT !.batch =
                SubSeq(feed, i, IF i + ReadCount <= Len(feed) THEN i + ReadCount - 1 ELSE Len(feed))]
    BY <1>4 DEF xread
  <2> DEFINE l == IF i + ReadCount <= Len(feed) THEN i + ReadCount - 1 ELSE Len(feed)
             b == SubSeq(feed, i, l)
  <2>2. i \in 1..Len(feed) /\ Len(feed) \in Nat /\ DOMAIN feed = 1..Len(feed) /\ l \in i..Len(feed)
    BY <1>0, EventAssumption
  <2> HIDE DEF l
  <2>3. b \in Seq(JobEvent) /\ Len(b) = l - i + 1 /\ DOMAIN b = 1..(l - i + 1)
        /\ \A k \in 1..(l - i + 1) : b[k] = feed[k + i - 1] /\ k + i - 1 \in i..l /\ k + i - 1 \in DOMAIN feed
    BY <1>0, <2>2
  <2> HIDE DEF b
  <2>4. /\ watcher' \in W /\ watcher'.pc = watcher.pc /\ watcher'.cursor = watcher.cursor
        /\ watcher'.batch = b /\ watcher'.shown = watcher.shown /\ watcher'.job = watcher.job
    BY <1>0, <2>1, <2>3 DEF l, b
  <2>5. UNCHANGED <<feed, published>>  BY <1>4 DEF xread
  <2>6. \A n, k \in DOMAIN feed : n < k => feed[n].id < feed[k].id
    BY DEF Watching, Rising
  <2>7. Rising(b)
    <3> SUFFICES ASSUME NEW n \in DOMAIN b, NEW k \in DOMAIN b, n < k PROVE b[n].id < b[k].id
      BY DEF Rising
    <3>1. n \in 1..(l - i + 1) /\ k \in 1..(l - i + 1) /\ n + i - 1 < k + i - 1
      BY <2>2, <2>3
    <3> QED BY <2>3, <2>6, <3>1
  <2>8. ASSUME NEW n \in DOMAIN b PROVE watcher.cursor < b[n].id /\ b[n].id <= published
    <3>1. b[n] = feed[n + i - 1] /\ n + i - 1 \in i..l /\ n + i - 1 \in DOMAIN feed
      BY <2>3
    <3>2. feed[n + i - 1].id <= published /\ feed[n + i - 1].id \in Nat /\ feed[i].id \in Nat
      BY <1>b, <3>1 DEF Watching
    <3>3. n + i - 1 = i \/ i < n + i - 1  BY <2>2, <3>1
    <3>4. feed[i].id <= feed[n + i - 1].id  BY <2>6, <3>1, <3>2, <3>3
    <3> QED BY <1>0, <2>1, <3>1, <3>2, <3>4
  <2>9. ASSUME NEW k \in DOMAIN feed, NEW n \in DOMAIN b, watcher.cursor < feed[k].id, feed[k].id <= b[n].id
        PROVE  \E m \in DOMAIN b : b[m] = feed[k]
    <3>1. b[n] = feed[n + i - 1] /\ n + i - 1 \in i..l /\ n + i - 1 \in DOMAIN feed
      BY <2>3
    <3>2. ~(k < i)  BY <1>0, <1>b, <2>1, <2>2, <2>9
    <3>3. ~(n + i - 1 < k)  BY <1>b, <2>6, <2>9, <3>1
    <3>4. k - i + 1 \in 1..(l - i + 1) /\ (k - i + 1) + i - 1 = k
      BY <2>2, <3>1, <3>2, <3>3
    <3> QED BY <2>3, <3>4
  <2> HIDE DEF W
  <2> QED BY <1>0, <2>4, <2>5, <2>7, <2>8, <2>9 DEF Watching, Passed, Rising, W
<1>5. ASSUME iter_events PROVE Watching'
  <2> DEFINE e == Head(watcher.batch)
             mine == e.job \in watcher.job
             end == mine /\ Terminal(e)
             told == IF mine THEN Append(watcher.shown, e) ELSE watcher.shown
             rest == IF end THEN <<>> ELSE Tail(watcher.batch)
  <2>1. watcher.pc = "open" /\ watcher.batch # <<>> /\ UNCHANGED <<feed, published>>
        /\ watcher' = [watcher EXCEPT !.pc = IF end THEN "ended" ELSE "open", !.cursor = e.id,
                                     !.batch = rest, !.shown = told]
    BY <1>5 DEF iter_events
  <2>2. 1 \in DOMAIN watcher.batch /\ e = watcher.batch[1] /\ e \in JobEvent /\ e.id \in Nat
        /\ watcher.cursor < e.id /\ e.id <= published
    <3>1. 1 \in DOMAIN watcher.batch /\ e = watcher.batch[1]  BY <1>0, <2>1
    <3> QED BY <1>b, <3>1 DEF Watching
  <2> HIDE DEF e
  <2>3. /\ told \in Seq(JobEvent)
        /\ (mine => Len(told) = Len(watcher.shown) + 1) /\ (~mine => Len(told) = Len(watcher.shown))
        /\ \A k \in 1..Len(watcher.shown) : told[k] = watcher.shown[k]
        /\ mine => told[Len(watcher.shown) + 1] = e
    <3>1. CASE mine  BY <1>0, <2>2, <3>1
    <3>2. CASE ~mine  BY <1>0, <3>2
    <3> QED BY <3>1, <3>2
  <2>4. rest \in Seq(JobEvent)
        /\ \A k \in DOMAIN rest : /\ ~end /\ k + 1 \in DOMAIN watcher.batch /\ rest[k] = watcher.batch[k + 1]
                                  /\ k \in Nat \ {0}
    <3>1. CASE end  BY <3>1
    <3>2. CASE ~end
      <4>1. /\ Tail(watcher.batch) \in Seq(JobEvent) /\ Len(Tail(watcher.batch)) = Len(watcher.batch) - 1
            /\ \A k \in 1..Len(Tail(watcher.batch)) : Tail(watcher.batch)[k] = watcher.batch[k + 1]
        BY <1>0, <2>1, HeadTailProperties
      <4>2. rest = Tail(watcher.batch)  BY <3>2
      <4> QED BY <1>0, <3>2, <4>1, <4>2
    <3> QED BY <3>1, <3>2
  <2>5. end => mine /\ Terminal(e)  OBVIOUS
  <2>6. mine /\ Terminal(e) => end  OBVIOUS
  <2> HIDE DEF told, rest, W
  <2>7. /\ watcher' \in W /\ watcher'.pc = (IF end THEN "ended" ELSE "open") /\ watcher'.cursor = e.id
        /\ watcher'.batch = rest /\ watcher'.shown = told /\ watcher'.job = watcher.job
    BY <1>0, <2>1, <2>2, <2>3, <2>4 DEF W
  <2>8. /\ DOMAIN told = 1..Len(told) /\ Len(told) \in Nat
        /\ DOMAIN watcher.shown = 1..Len(watcher.shown) /\ Len(watcher.shown) \in Nat
    BY <1>0, <2>3
  <2>9. ASSUME NEW k \in DOMAIN told
        PROVE  \/ k \in DOMAIN watcher.shown /\ told[k] = watcher.shown[k]
               \/ mine /\ k = Len(told) /\ k = Len(watcher.shown) + 1 /\ told[k] = e
    <3>1. CASE mine
      <4>1. Len(told) = Len(watcher.shown) + 1 /\ told[Len(watcher.shown) + 1] = e
        BY <2>3, <3>1
      <4>2. k \in 1..Len(watcher.shown) \/ k = Len(watcher.shown) + 1  BY <2>8, <4>1
      <4> QED BY <2>3, <2>8, <3>1, <4>1, <4>2
    <3>2. CASE ~mine
      <4>1. Len(told) = Len(watcher.shown)  BY <2>3, <3>2
      <4> QED BY <2>3, <2>8, <4>1
    <3> QED BY <3>1, <3>2
  <2>10. Rising(told)
    <3> SUFFICES ASSUME NEW n \in DOMAIN told, NEW k \in DOMAIN told, n < k PROVE told[n].id < told[k].id
      BY DEF Rising
    <3>1. n \in DOMAIN watcher.shown /\ told[n] = watcher.shown[n]
      <4>1. CASE n = Len(told)  BY <2>8, <4>1
      <4>2. CASE n # Len(told)  BY <2>9, <4>2
      <4> QED BY <4>1, <4>2
    <3>2. CASE k \in DOMAIN watcher.shown /\ told[k] = watcher.shown[k]
      BY <3>1, <3>2 DEF Watching, Rising
    <3>3. CASE told[k] = e  BY <1>0, <1>b, <2>2, <3>1, <3>3 DEF Watching
    <3> QED BY <2>9, <3>2, <3>3
  <2>11. ASSUME NEW k \in DOMAIN told PROVE told[k].id <= e.id
    BY <1>0, <1>b, <2>2, <2>9 DEF Watching
  <2>12. ASSUME NEW k \in DOMAIN told PROVE Terminal(told[k]) <=> end /\ k = Len(told)
    <3>1. CASE k \in DOMAIN watcher.shown /\ told[k] = watcher.shown[k]
      <4>1. ~Terminal(told[k])  BY <2>1, <3>1 DEF Watching
      <4>2. ASSUME mine PROVE k # Len(told)
        <5>1. Len(told) = Len(watcher.shown) + 1  BY <2>3, <4>2
        <5> QED BY <2>8, <3>1, <5>1
      <4> QED BY <2>5, <4>1, <4>2
    <3>2. CASE mine /\ k = Len(told) /\ told[k] = e  BY <2>5, <2>6, <3>2
    <3> QED BY <2>9, <3>1, <3>2
  <2>13. ASSUME mine PROVE told # <<>> /\ Len(told) \in DOMAIN told /\ told[Len(told)] = e
    <3>1. Len(told) = Len(watcher.shown) + 1 /\ told[Len(watcher.shown) + 1] = e
      BY <2>3, <2>13
    <3>2. Len(told) # 0 /\ Len(told) \in 1..Len(told)  BY <2>8, <3>1
    <3> QED BY <2>8, <3>1, <3>2
  <2>14. \A k \in DOMAIN rest : e.id < rest[k].id /\ rest[k].id <= published
    <3> SUFFICES ASSUME NEW k \in DOMAIN rest PROVE e.id < rest[k].id /\ rest[k].id <= published
      OBVIOUS
    <3>1. 1 < k + 1 /\ k + 1 \in DOMAIN watcher.batch /\ rest[k] = watcher.batch[k + 1]
      BY <2>4
    <3> QED BY <2>2, <3>1 DEF Watching, Rising
  <2>15. Rising(rest)
    <3> SUFFICES ASSUME NEW n \in DOMAIN rest, NEW k \in DOMAIN rest, n < k PROVE rest[n].id < rest[k].id
      BY DEF Rising
    <3>1. /\ n + 1 < k + 1 /\ k + 1 \in DOMAIN watcher.batch /\ rest[k] = watcher.batch[k + 1]
          /\ n + 1 \in DOMAIN watcher.batch /\ rest[n] = watcher.batch[n + 1]
      BY <2>4
    <3> QED BY <3>1 DEF Watching, Rising
  <2>16. ASSUME NEW k \in DOMAIN feed, NEW n \in DOMAIN rest, e.id < feed[k].id, feed[k].id <= rest[n].id
         PROVE  \E m \in DOMAIN rest : rest[m] = feed[k]
    <3>1. n + 1 \in DOMAIN watcher.batch /\ rest[n] = watcher.batch[n + 1] /\ ~end
      BY <2>4
    <3>2. watcher.cursor < feed[k].id  BY <1>0, <1>b, <2>2, <2>16
    <3>3. PICK m \in DOMAIN watcher.batch : watcher.batch[m] = feed[k]
      BY <2>16, <3>1, <3>2 DEF Watching
    <3>4. m # 1  BY <1>b, <2>2, <2>16, <3>3
    <3>5. rest = Tail(watcher.batch)  BY <3>1 DEF rest
    <3>6. m - 1 \in DOMAIN rest /\ (m - 1) + 1 = m  BY <1>0, <2>1, <3>3, <3>4, <3>5
    <3> QED BY <2>4, <3>3, <3>6
  <2>17. ASSUME NEW k \in DOMAIN feed, feed[k].job \in watcher.job, feed[k].id <= e.id
         PROVE  \E m \in DOMAIN told : told[m] = feed[k]
    <3>1. CASE feed[k].id <= watcher.cursor
      <4>1. PICK m \in DOMAIN watcher.shown : watcher.shown[m] = feed[k]
        BY <2>1, <2>17, <3>1 DEF Watching, Passed
      <4>2. ASSUME mine PROVE m \in DOMAIN told
        <5>1. Len(told) = Len(watcher.shown) + 1  BY <2>3, <4>2
        <5> QED BY <2>8, <4>1, <5>1
      <4>3. ASSUME ~mine PROVE m \in DOMAIN told
        <5>1. Len(told) = Len(watcher.shown)  BY <2>3, <4>3
        <5> QED BY <2>8, <4>1, <5>1
      <4>4. told[m] = watcher.shown[m]  BY <2>3, <2>8, <4>1
      <4> QED BY <4>1, <4>2, <4>3, <4>4
    <3>2. CASE watcher.cursor < feed[k].id
      <4>1. PICK m \in DOMAIN watcher.batch : watcher.batch[m] = feed[k]
        BY <2>2, <2>17, <3>2 DEF Watching
      <4>2. ~(1 < m)  BY <1>b, <2>2, <2>17, <4>1 DEF Watching, Rising
      <4>3. feed[k] = e  BY <1>0, <2>2, <4>1, <4>2
      <4>4. mine  BY <2>17, <4>3
      <4> QED BY <2>13, <4>3, <4>4
    <3> QED BY <1>0, <1>b, <3>1, <3>2
  <2> QED
    BY <1>0, <2>1, <2>2, <2>7, <2>10, <2>11, <2>12, <2>13, <2>14, <2>15, <2>16, <2>17 DEF Watching, Passed, Rising, W
<1>6. ASSUME Disconnect PROVE Watching'
  <2>1. UNCHANGED <<feed, published>> /\ watcher' = Closed  BY <1>6 DEF Disconnect
  <2>2. /\ watcher' \in W /\ watcher'.pc = "closed" /\ watcher'.batch = <<>> /\ watcher'.shown = <<>>
        /\ watcher'.cursor = 0
    BY <2>1 DEF Closed
  <2> QED BY <1>0, <2>1, <2>2 DEF Watching, Rising
<1> QED BY <1>1, <1>2, <1>3, <1>4, <1>5, <1>6 DEF EventNext

(* A connection passes on every event of its job that the stream still     *)
(* has, in their order and none twice, and ends with the first that ends   *)
(* the job and not before (JobEventSubscriber.iter_events): for any jobs,  *)
(* however many entries the stream keeps and a read returns, and whatever  *)
(* is published or trimmed while an entry is being passed on.              *)
THEOREM WatchedInOrderTheorem == Spec => []WatchedInOrder
<1>1. Watching => WatchedInOrder
  <2> SUFFICES ASSUME Watching PROVE WatchedInOrder  OBVIOUS
  <2> DEFINE shown == watcher.shown
  <2>1. shown \in Seq(JobEvent) /\ DOMAIN shown = 1..Len(shown) /\ Len(shown) \in Nat
    BY DEF Watching
  <2>2. ASSUME NEW i \in 1..(Len(shown) - 1) PROVE shown[i].id < shown[i + 1].id /\ ~Terminal(shown[i])
    <3>1. i \in DOMAIN shown /\ i + 1 \in DOMAIN shown /\ i < i + 1 /\ i # Len(shown)
      BY <2>1
    <3> QED BY <3>1 DEF Watching, Rising
  <2>3. watcher.pc = "ended" <=> shown # <<>> /\ Terminal(Last(shown))
    <3>1. shown # <<>> => Len(shown) \in DOMAIN shown /\ Last(shown) = shown[Len(shown)]
      BY <2>1 DEF Last
    <3>2. shown # <<>> => (Terminal(Last(shown)) <=> watcher.pc = "ended")
      BY <3>1 DEF Watching
    <3>3. watcher.pc = "ended" => shown # <<>>  BY DEF Watching
    <3> QED BY <3>2, <3>3
  <2>4. watcher.pc # "closed" =>
            \A e \in Range(feed) : e.job \in watcher.job /\ e.id <= watcher.cursor => e \in Range(shown)
    BY DEF Watching, Passed, Range
  <2> QED BY <2>2, <2>3, <2>4 DEF WatchedInOrder
<1> QED BY <1>1, WatchingInit, WatchingStep, PTL DEF Spec

----------------------------------------------------------------------------
(* The rate limiter                                                        *)

By(k, by) == {g \in granted : g.key = k /\ g.by = by}

(* The grants of a key that are newer than an entry of the store are no    *)
(* more than the entries behind it, and those of the window no more than   *)
(* all the entries; the instants Redis has let through are in its set.     *)
Limiting ==
    /\ offered.keys \subseteq Keys /\ now \in Nat
    /\ IsFiniteSet(granted) /\ \A g \in granted : g.at \in 0..now
    /\ zset \in [Keys -> SUBSET Nat] /\ \A k \in Keys : IsFiniteSet(zset[k])
    /\ \A k \in Keys : \A g \in By(k, "redis") : now - g.at < Window => g.at \in zset[k]
    /\ IsFiniteSet(DOMAIN store) /\ StoreBounded
    /\ \A k \in DOMAIN store :
          /\ store[k] \in Seq(Nat)
          /\ Cardinality({g \in By(k, "memory") : now - g.at < Window}) <= Len(store[k])
          /\ \A i \in 1..Len(store[k]) :
                Cardinality({g \in By(k, "memory") : g.at > store[k][i]}) <= Len(store[k]) - i
    /\ \A g \in granted : g.by = "memory" => g.key \in DOMAIN store
    /\ RateBound

LEMMA LimitingInit == Init => Limiting
<1> SUFFICES ASSUME Init PROVE Limiting  OBVIOUS
<1>1. PICK s \in Scenarios : /\ InitTelemetry(s.start, s.telemetry)
                            /\ offered = [chat |-> s.chat, mcp |-> s.mcp, keys |-> s.keys]
    BY DEF Init
<1>2. /\ offered.keys \subseteq Keys /\ now \in Nat /\ granted = {}
      /\ zset = [k \in Keys |-> {}] /\ store = <<>>
    BY <1>1, ScenarioAssumption DEF InitTelemetry, InitLimiter
<1>3. DOMAIN store = {}  BY <1>2
<1>4. IsFiniteSet({}) /\ Cardinality({}) = 0  BY FS_EmptySet
<1>5. StoreBounded  BY <1>3, <1>4, LimiterAssumption DEF StoreBounded
<1>6. RateBound
  <2> SUFFICES ASSUME NEW k \in Keys, NEW t \in 0..now
               PROVE  /\ Cardinality({g.at : g \in {h \in granted : InWindow(h, k, t, "redis")}}) <= Limit
                      /\ Cardinality({g \in granted : InWindow(g, k, t, "memory")}) <= Limit
    BY DEF RateBound
  <2> DEFINE instants == {g.at : g \in {h \in granted : InWindow(h, k, t, "redis")}}
             requests == {g \in granted : InWindow(g, k, t, "memory")}
  <2>1. instants = {} /\ requests = {}  BY <1>2
  <2> HIDE DEF instants, requests
  <2>2. Cardinality(instants) <= Limit /\ Cardinality(requests) <= Limit
    BY <1>4, <2>1, LimiterAssumption
  <2> USE DEF instants, requests
  <2> QED BY <2>2
<1> QED BY <1>2, <1>3, <1>4, <1>5, <1>6 DEF Limiting, By

(* The limiter is passed by the requests of the clients, and time goes on; *)
(* nothing else changes it.                                                *)
LEMMA LimiterSteps ==
    ASSUME Next
    PROVE  /\ offered' = offered
           /\ \/ \E k \in offered.keys : \E ok, answers \in BOOLEAN : is_allowed(k, ok, answers)
              \/ Tick
              \/ UNCHANGED <<now, limiterVars>>
<1>1. Beside => UNCHANGED <<offered, now, limiterVars>>
    BY DEF Beside, NoTelemetry, telemetryVars, Apart
<1>2. TurnNext \/ ConversationNext \/ ClickNext \/ AskNext \/ OwnerNext => Beside
    BY DEF TurnNext, ConversationNext, ClickNext, AskNext, OwnerNext
<1>3. LlmNext => UNCHANGED <<offered, now, limiterVars>>
  <2>1. LlmNext => BesideLlm  BY DEF LlmNext
  <2> QED BY <2>1 DEF BesideLlm, telemetryVars
<1>4. EventNext => UNCHANGED <<offered, now, limiterVars>>
  <2>1. EventNext => BesideEvents  BY DEF EventNext
  <2> QED BY <2>1 DEF BesideEvents, telemetryVars
<1>5. ASSUME McpNext PROVE UNCHANGED <<offered, now, limiterVars>>
  <2>0. offered' = offered  BY <1>5 DEF McpNext, BesideMcp, Apart
  <2>1. NoTelemetry \/ \E c \in Calls : record_invocation(c)
    BY <1>5 DEF McpNext, open_mcp_scope, Gate, owned_file_in_scope, ToolActs, Rebind
  <2> QED BY <2>0, <2>1 DEF NoTelemetry, telemetryVars, record_invocation
<1>6. ASSUME TelemetryNext
      PROVE  /\ offered' = offered
             /\ \/ \E k \in offered.keys : \E ok, answers \in BOOLEAN : is_allowed(k, ok, answers)
                \/ Tick
                \/ UNCHANGED <<now, limiterVars>>
  <2>0. offered' = offered  BY <1>6 DEF TelemetryNext, BesideTelemetry, Apart
  <2>1. ASSUME NEW k \in offered.keys, NEW ok \in BOOLEAN, NEW attributable \in BOOLEAN, NEW answers \in Answers,
               api_request(k, ok, answers, attributable)
        PROVE  \E ok2, answers2 \in BOOLEAN : is_allowed(k, ok2, answers2)
    BY <2>1 DEF api_request, Answers
  <2>2. ASSUME collect \/ FlushDue \/ drain_available \/ save_events \/ save_invocations \/ WriteFails
               \/ stop \/ Cancelled \/ delete_before
        PROVE  UNCHANGED <<now, limiterVars>>
    BY <2>2 DEF collect, FlushDue, drain_available, Write, save_events, save_invocations, WriteFails, stop,
                Cancelled, delete_before
  <2>3. ASSUME NEW kind, NEW span, OpenLog(kind, span) \/ NextPage PROVE UNCHANGED <<now, limiterVars>>
    BY <2>3 DEF OpenLog, NextPage, ListPage
  <2> QED BY <1>6, <2>0, <2>1, <2>2, <2>3 DEF TelemetryNext
<1> QED BY <1>1, <1>2, <1>3, <1>4, <1>5, <1>6 DEF Next

Instants(k, t) == {g.at : g \in {h \in granted : InWindow(h, k, t, "redis")}}
Requests(k, t) == {g \in granted : InWindow(g, k, t, "memory")}

(* What a window holds is finite, and bounded as the limiter promises.     *)
LEMMA Windows ==
    ASSUME Limiting, NEW k \in Keys, NEW t \in 0..now
    PROVE  /\ IsFiniteSet(Instants(k, t)) /\ Cardinality(Instants(k, t)) <= Limit
           /\ IsFiniteSet(Requests(k, t)) /\ Cardinality(Requests(k, t)) <= Limit
<1>1. Cardinality(Instants(k, t)) <= Limit /\ Cardinality(Requests(k, t)) <= Limit
    BY DEF Limiting, RateBound, Instants, Requests
<1>2. Instants(k, t) \subseteq 0..now  BY DEF Instants, Limiting
<1>4. IsFiniteSet(0..now)  BY FS_Interval DEF Limiting
<1>3. Requests(k, t) \subseteq granted /\ IsFiniteSet(granted)
    BY DEF Requests, Limiting
<1> QED BY <1>1, <1>2, <1>3, <1>4, FS_Subset

(* A smaller set has no more elements.                                     *)
LEMMA Fewer ==
    ASSUME NEW S, NEW T, S \subseteq T, IsFiniteSet(T), NEW n \in Nat, Cardinality(T) <= n
    PROVE  IsFiniteSet(S) /\ Cardinality(S) <= n /\ Cardinality(S) \in Nat /\ Cardinality(S) <= Cardinality(T)
    BY FS_Subset, FS_CardinalityType

LEMMA BoundFromWindows ==
    ASSUME \A k \in Keys, t \in 0..now' :
              Cardinality(Instants(k, t)') <= Limit /\ Cardinality(Requests(k, t)') <= Limit
    PROVE  RateBound'
BY DEF RateBound, Instants, Requests

(* As time goes on the window only loses requests.                         *)
LEMMA TickKeepsLimit ==
    ASSUME Limiting, offered' = offered, Tick
    PROVE  Limiting'
<1>1. now' = now + 1 /\ now \in Nat /\ zset' = zset /\ store' = store /\ granted' = granted
    BY DEF Tick, limiterVars, Limiting
<1>2. \A g \in granted : g.at \in Nat /\ g.at <= now  BY <1>1 DEF Limiting
<1>3. ASSUME NEW k, NEW by PROVE By(k, by)' = By(k, by)  BY <1>1 DEF By
<1>4. ASSUME NEW k \in Keys, NEW t \in 0..now'
      PROVE  Cardinality(Instants(k, t)') <= Limit /\ Cardinality(Requests(k, t)') <= Limit
  <2>1. CASE t \in 0..now
    <3>1. Instants(k, t)' = Instants(k, t) /\ Requests(k, t)' = Requests(k, t)
      BY <1>1 DEF Instants, Requests, InWindow
    <3> QED BY <2>1, <3>1, Windows
  <2>2. CASE t = now + 1
    <3>1. \A g \in granted, by \in {"redis", "memory"} : InWindow(g, k, now + 1, by) => InWindow(g, k, now, by)
      BY <1>1, <1>2, LimiterAssumption DEF InWindow
    <3>2. Instants(k, t)' \subseteq Instants(k, now) /\ Requests(k, t)' \subseteq Requests(k, now)
      BY <1>1, <2>2, <3>1 DEF Instants, Requests, InWindow
    <3>3. now \in 0..now  BY <1>1
    <3> QED BY <3>2, <3>3, Windows, Fewer, LimiterAssumption
  <2> QED BY <1>1, <2>1, <2>2
<1>5. ASSUME NEW k \in DOMAIN store
      PROVE  Cardinality({g \in By(k, "memory") : now' - g.at < Window}) <= Len(store[k])
  <2> DEFINE A == {g \in By(k, "memory") : now' - g.at < Window}
             B == {g \in By(k, "memory") : now - g.at < Window}
  <2>1. A \subseteq B /\ B \subseteq granted  BY <1>1, <1>2, LimiterAssumption DEF By
  <2>2. IsFiniteSet(B)  BY <2>1, FS_Subset DEF Limiting
  <2>3. Cardinality(B) <= Len(store[k]) /\ Len(store[k]) \in Nat  BY DEF Limiting
  <2> HIDE DEF A, B
  <2>4. Cardinality(A) <= Len(store[k])  BY <2>1, <2>2, <2>3, Fewer
  <2> QED BY <2>4 DEF A
<1>6. ASSUME NEW k \in Keys, NEW g \in By(k, "redis"), now' - g.at < Window PROVE g.at \in zset[k]
  <2>1. now - g.at < Window  BY <1>1, <1>2, <1>6, LimiterAssumption DEF By
  <2> QED BY <2>1 DEF Limiting
<1>7. RateBound'  BY <1>4, BoundFromWindows
<1>8. StoreBounded'  BY <1>1 DEF Limiting, StoreBounded
<1>9. \A g \in granted : g.at \in 0..(now + 1)  BY <1>1, <1>2
<1>10. \A k \in Keys : \A g \in By(k, "redis")' : now' - g.at < Window => g.at \in zset'[k]
  <2> SUFFICES ASSUME NEW k \in Keys, NEW g \in By(k, "redis")', now' - g.at < Window PROVE g.at \in zset[k]
    BY <1>1
  <2>1. g \in By(k, "redis")  BY <1>3
  <2> QED BY <1>6, <2>1
<1>11. ASSUME NEW k \in DOMAIN store'
       PROVE  /\ store'[k] \in Seq(Nat)
              /\ Cardinality({g \in By(k, "memory")' : now' - g.at < Window}) <= Len(store'[k])
              /\ \A i \in 1..Len(store'[k]) :
                    Cardinality({g \in By(k, "memory")' : g.at > store'[k][i]}) <= Len(store'[k]) - i
  <2>1. store' = store /\ By(k, "memory")' = By(k, "memory") /\ now' = now + 1
    BY <1>1, <1>3
  <2>2. Cardinality({g \in By(k, "memory") : now' - g.at < Window}) <= Len(store[k])
    BY <1>5, <2>1 DEF By
  <2>3. /\ store[k] \in Seq(Nat)
        /\ \A i \in 1..Len(store[k]) :
              Cardinality({g \in By(k, "memory") : g.at > store[k][i]}) <= Len(store[k]) - i
    BY <2>1 DEF Limiting
  <2> QED BY <2>1, <2>2, <2>3
<1>12. /\ offered'.keys \subseteq Keys /\ now' \in Nat
       /\ IsFiniteSet(granted') /\ (\A g \in granted' : g.at \in 0..now')
       /\ zset' \in [Keys -> SUBSET Nat] /\ (\A k \in Keys : IsFiniteSet(zset'[k]))
       /\ IsFiniteSet(DOMAIN store') /\ \A g \in granted' : g.by = "memory" => g.key \in DOMAIN store'
    BY <1>1, <1>9 DEF Limiting
<1> QED BY <1>7, <1>8, <1>10, <1>11, <1>12 DEF Limiting

(* Redis counts every request, so what it has let through in a window is   *)
(* among what it has counted.                                              *)
LEMMA RedisKeepsLimit ==
    ASSUME Limiting, offered' = offered, NEW k \in Keys, NEW ok \in BOOLEAN, RedisCheck(k, ok)
    PROVE  Limiting'
<1> DEFINE new == Granted(k, "redis")
<1>1. /\ now' = now /\ now \in Nat /\ store' = store /\ zset' = [zset EXCEPT ![k] = Entries(k)]
      /\ ok = redis_allows(k) /\ granted' = granted \cup (IF ok THEN {new} ELSE {})
    BY DEF RedisCheck, Limiting
<1>2. new.key = k /\ new.at = now /\ new.by = "redis"  BY DEF Granted
<1> HIDE DEF new
<1>3. \A g \in granted : g.at \in Nat /\ g.at <= now  BY <1>1 DEF Limiting
<1>4. \A g \in granted' : g \in granted \/ g = new  BY <1>1
<1>5. IsFiniteSet(granted') /\ \A g \in granted' : g.at \in 0..now
  <2>1. IsFiniteSet(granted) /\ \A g \in granted : g.at \in 0..now  BY DEF Limiting
  <2>2. IsFiniteSet(granted \cup {new})  BY <2>1, FS_AddElement
  <2>3. granted' \subseteq granted \cup {new}  BY <1>1
  <2> QED BY <1>1, <1>2, <1>4, <2>1, <2>2, <2>3, FS_Subset
<1>6. \A l : By(l, "memory")' = By(l, "memory")  BY <1>1, <1>2 DEF By
<1>7. /\ Entries(k) \in SUBSET Nat /\ IsFiniteSet(Entries(k))
      /\ ok => Cardinality(Entries(k)) <= Limit
  <2> DEFINE old == {t \in zset[k] : t > now - Window}
  <2>1. zset[k] \in SUBSET Nat /\ IsFiniteSet(zset[k])  BY DEF Limiting
  <2>2. IsFiniteSet(old) /\ old \in SUBSET Nat  BY <2>1, FS_Subset
  <2>3. Entries(k) = old \cup {now}  BY DEF Entries
  <2> HIDE DEF old
  <2>4. Entries(k) \in SUBSET Nat /\ IsFiniteSet(Entries(k))
    BY <1>1, <2>2, <2>3, FS_AddElement
  <2>5. Cardinality(Entries(k)) \in Nat  BY <2>4, FS_CardinalityType
  <2>6. ASSUME ok PROVE Cardinality(Entries(k)) <= Limit
    <3> DEFINE n == Cardinality(Entries(k))
    <3>1. get_remaining(k) > 0 /\ n \in Nat  BY <1>1, <2>5, <2>6 DEF redis_allows
    <3>2. get_remaining(k) = IF Limit > n THEN Limit - n ELSE 0  BY DEF get_remaining
    <3> HIDE DEF n
    <3>3. n <= Limit  BY <3>1, <3>2, LimiterAssumption
    <3> QED BY <3>3 DEF n
  <2> QED BY <2>4, <2>6
<1>8. zset' \in [Keys -> SUBSET Nat] /\ (\A l \in Keys : IsFiniteSet(zset'[l])) /\ zset'[k] = Entries(k)
      /\ \A l \in Keys : l # k => zset'[l] = zset[l]
    BY <1>1, <1>7 DEF Limiting
<1>9. ASSUME NEW l \in Keys, NEW g \in By(l, "redis")', now - g.at < Window PROVE g.at \in zset'[l]
  <2>1. CASE g = new  BY <1>2, <1>8, <1>9, <2>1 DEF By, Entries
  <2>2. CASE g \in granted
    <3>1. g.at \in zset[l]  BY <1>9, <2>2 DEF By, Limiting
    <3>2. g.at > now - Window  BY <1>1, <1>3, <1>9, <2>2, LimiterAssumption
    <3> QED BY <1>8, <3>1, <3>2 DEF Entries
  <2> QED BY <1>4, <1>9, <2>1, <2>2 DEF By
<1>10. ASSUME NEW l \in Keys, NEW t \in 0..now'
       PROVE  Cardinality(Instants(l, t)') <= Limit /\ Cardinality(Requests(l, t)') <= Limit
  <2>1. t \in 0..now /\ t \in Nat /\ t <= now  BY <1>1
  <2>2. Requests(l, t)' = Requests(l, t)  BY <1>1, <1>2 DEF Requests, InWindow
  <2>3. CASE l = k /\ t = now /\ ok
    <3>1. Instants(l, t)' \subseteq zset'[k]
      <4> SUFFICES ASSUME NEW h \in granted', InWindow(h, k, now, "redis") PROVE h.at \in zset'[k]
        BY <1>1, <2>3 DEF Instants, InWindow
      <4>1. h \in By(k, "redis")' /\ now - h.at < Window  BY DEF InWindow, By
      <4> QED BY <1>9, <4>1
    <3> QED BY <1>7, <1>8, <2>1, <2>2, <2>3, <3>1, Fewer, Windows, LimiterAssumption
  <2>4. CASE ~(l = k /\ t = now /\ ok)
    <3>1. \A h \in granted' : InWindow(h, l, t, "redis") => h \in granted
      BY <1>1, <1>2, <1>4, <2>1, <2>4 DEF InWindow
    <3>2. Instants(l, t)' = Instants(l, t)  BY <1>1, <3>1 DEF Instants, InWindow
    <3> QED BY <2>1, <2>2, <3>2, Windows
  <2> QED BY <2>3, <2>4
<1>11. RateBound'  BY <1>10, BoundFromWindows
<1>12. StoreBounded'  BY <1>1 DEF Limiting, StoreBounded
<1>13. \A g \in granted' : g.by = "memory" => g.key \in DOMAIN store
    BY <1>2, <1>4 DEF Limiting
<1> QED BY <1>1, <1>5, <1>6, <1>8, <1>9, <1>11, <1>12, <1>13 DEF Limiting

LEMMA MinIsLeast ==
    ASSUME NEW X \in SUBSET Nat, X # {}
    PROVE  Min(X) \in X /\ \A y \in X : Min(X) <= y
<1> DEFINE R == OpToRel(<, Nat)
<1>1. IsWellFoundedOn(R, Nat)  BY NatLessThanWellFounded
<1>2. \A x, y \in Nat : <<x, y>> \in R <=> x < y  BY DEF OpToRel
<1> HIDE DEF R
<1>3. PICK x \in X : \A y \in X : ~(<<y, x>> \in R)  BY <1>1, WFMin
<1>4. ASSUME NEW y \in X PROVE x <= y
  <2>1. ~(y < x)  BY <1>2, <1>3
  <2> QED BY <2>1
<1>5. \E z \in X : \A y \in X : z <= y  BY <1>4
<1> QED BY <1>5 DEF Min

(* The times kept for a key, of which gs were let through: no more of      *)
(* these are in the window than there are times, and no more are after a   *)
(* time than follow it.                                                    *)
Covers(times, gs) ==
    /\ times \in Seq(Nat)
    /\ Cardinality({g \in gs : now - g.at < Window}) <= Len(times)
    /\ \A i \in 1..Len(times) : Cardinality({g \in gs : g.at > times[i]}) <= Len(times) - i

(* The times that have passed say nothing about the window.                *)
LEMMA RecentCovers ==
    ASSUME now \in Nat, NEW gs, IsFiniteSet(gs), \A g \in gs : g.at \in 0..now,
           NEW times, Covers(times, gs)
    PROVE  Covers(Recent(times), gs)
<1> DEFINE recent == {i \in DOMAIN times : now - times[i] < Window}
           inWindow == {g \in gs : now - g.at < Window}
           Later(i) == {g \in gs : g.at > times[i]}
           n == Len(times)
<1>1. times \in Seq(Nat) /\ DOMAIN times = 1..n /\ n \in Nat /\ \A i \in 1..n : times[i] \in Nat
    BY DEF Covers
<1>2. Cardinality(inWindow) <= n /\ \A i \in 1..n : Cardinality(Later(i)) <= n - i
    BY DEF Covers
<1>3. ASSUME NEW i \in 1..n, i \notin recent PROVE Cardinality(inWindow) <= n - i
  <2>1. inWindow \subseteq Later(i)  BY <1>1, <1>3, LimiterAssumption
  <2>2. IsFiniteSet(Later(i))  BY FS_Subset
  <2>3. Cardinality(Later(i)) <= n - i  BY <1>2
  <2> HIDE DEF inWindow, Later
  <2>4. Cardinality(inWindow) \in Nat /\ Cardinality(inWindow) <= Cardinality(Later(i)) /\ Cardinality(Later(i)) \in Nat
    BY <2>1, <2>2, FS_Subset, FS_CardinalityType
  <2> QED BY <1>1, <2>3, <2>4
<1>4. CASE recent = {}
  <2>1. Recent(times) = <<>>  BY <1>4 DEF Recent
  <2>2. Cardinality(inWindow) <= 0
    <3>1. CASE n = 0  BY <1>2, <3>1
    <3>2. CASE n # 0
      <4>1. n \in 1..n /\ n - n = 0  BY <1>1, <3>2
      <4> QED BY <1>3, <1>4, <4>1
    <3> QED BY <3>1, <3>2
  <2>3. <<>> \in Seq(Nat) /\ Len(<<>>) = 0 /\ 1..0 = {}  OBVIOUS
  <2> QED BY <2>1, <2>2, <2>3 DEF Covers
<1>5. CASE recent # {}
  <2> DEFINE m == Min(recent)
             kept == SubSeq(times, m, n)
  <2>1. m \in recent /\ \A i \in recent : m <= i
    <3>1. recent \in SUBSET Nat  BY <1>1
    <3> HIDE DEF recent
    <3> QED BY <1>5, <3>1, MinIsLeast
  <2>2. Recent(times) = kept  BY <1>5 DEF Recent
  <2>3. m \in 1..n  BY <1>1, <2>1
  <2> HIDE DEF m
  <2>4. kept \in Seq(Nat) /\ Len(kept) = n - m + 1 /\ \A i \in 1..(n - m + 1) : kept[i] = times[m + i - 1]
    BY <1>1, <2>3, SubSeqProperties
  <2> HIDE DEF kept
  <2>5. Cardinality(inWindow) <= n - m + 1
    <3>1. CASE m = 1  BY <1>1, <1>2, <3>1
    <3>2. CASE m # 1
      <4>1. m - 1 \in 1..n /\ m - 1 \notin recent /\ n - (m - 1) = n - m + 1
        BY <1>1, <2>1, <2>3, <3>2
      <4> HIDE DEF recent, inWindow, n
      <4> QED BY <1>3, <4>1
    <3> QED BY <3>1, <3>2
  <2>6. ASSUME NEW i \in 1..(n - m + 1)
        PROVE  Cardinality({g \in gs : g.at > kept[i]}) <= n - m + 1 - i
    <3>1. m + i - 1 \in 1..n /\ n - (m + i - 1) = n - m + 1 - i /\ kept[i] = times[m + i - 1]
      BY <1>1, <2>3, <2>4
    <3>2. {g \in gs : g.at > kept[i]} = Later(m + i - 1)  BY <3>1
    <3> HIDE DEF Later, n
    <3>3. Cardinality(Later(m + i - 1)) <= n - m + 1 - i  BY <1>2, <3>1
    <3> QED BY <3>2, <3>3
  <2>7. /\ kept \in Seq(Nat)
        /\ Cardinality({g \in gs : now - g.at < Window}) <= Len(kept)
        /\ \A i \in 1..Len(kept) : Cardinality({g \in gs : g.at > kept[i]}) <= Len(kept) - i
    <3> HIDE DEF n
    <3>1. Cardinality(inWindow) <= Len(kept)  BY <2>4, <2>5
    <3>2. ASSUME NEW i \in 1..Len(kept) PROVE Cardinality({g \in gs : g.at > kept[i]}) <= Len(kept) - i
      <4>1. i \in 1..(n - m + 1) /\ Len(kept) = n - m + 1 /\ n \in Nat /\ m \in Nat /\ i \in Nat
        BY <1>1, <2>3, <2>4
      <4> DEFINE c == Cardinality({g \in gs : g.at > kept[i]})
      <4>2. c <= n - m + 1 - i  BY <2>6, <4>1
      <4> HIDE DEF c
      <4>3. c <= Len(kept) - i  BY <4>1, <4>2
      <4> QED BY <4>3 DEF c
    <3> QED BY <2>4, <3>1, <3>2
  <2> QED BY <2>2, <2>7 DEF Covers
<1> QED BY <1>4, <1>5

(* A request let through is entered with its time.                         *)
LEMMA GrantCovers ==
    ASSUME now \in Nat, NEW gs, IsFiniteSet(gs), \A g \in gs : g.at \in 0..now,
           NEW times, Covers(times, gs), NEW new, new.at = now
    PROVE  Covers(Append(times, now), gs \cup {new})
<1> DEFINE more == Append(times, now)
           n == Len(times)
           hs == gs \cup {new}
<1>1. times \in Seq(Nat) /\ n \in Nat /\ more \in Seq(Nat) /\ Len(more) = n + 1 /\ more[n + 1] = now
      /\ \A i \in 1..n : more[i] = times[i]
    BY DEF Covers
<1>2. ASSUME NEW S, S \subseteq gs PROVE IsFiniteSet(S) /\ Cardinality(S) \in Nat
    BY <1>2, FS_Subset, FS_CardinalityType
<1>3. ASSUME NEW S, NEW T, S \subseteq T \cup {new}, T \subseteq gs
      PROVE  Cardinality(S) <= Cardinality(T) + 1 /\ Cardinality(S) \in Nat
  <2>1. IsFiniteSet(T) /\ Cardinality(T) \in Nat  BY <1>2, <1>3
  <2>2. IsFiniteSet(T \cup {new}) /\ Cardinality(T \cup {new}) <= Cardinality(T) + 1
    BY <2>1, FS_AddElement
  <2>3. Cardinality(T \cup {new}) \in Nat /\ Cardinality(S) \in Nat /\ Cardinality(S) <= Cardinality(T \cup {new})
    BY <1>3, <2>2, FS_Subset, FS_CardinalityType
  <2> QED BY <2>1, <2>2, <2>3
<1>4. Cardinality({g \in hs : now - g.at < Window}) <= n + 1
  <2> DEFINE S == {g \in hs : now - g.at < Window}
             T == {g \in gs : now - g.at < Window}
  <2>1. S \subseteq T \cup {new} /\ T \subseteq gs /\ Cardinality(T) <= n  BY DEF Covers
  <2> HIDE DEF S, T
  <2>2. Cardinality(S) <= Cardinality(T) + 1 /\ Cardinality(S) \in Nat /\ Cardinality(T) \in Nat
    BY <1>2, <1>3, <2>1
  <2>3. Cardinality(S) <= n + 1  BY <1>1, <2>1, <2>2
  <2> QED BY <2>3 DEF S
<1>5. ASSUME NEW i \in 1..(n + 1) PROVE Cardinality({g \in hs : g.at > more[i]}) <= n + 1 - i
  <2> DEFINE S == {g \in hs : g.at > more[i]}
  <2>1. CASE i = n + 1
    <3>1. S = {}  BY <1>1, <2>1
    <3> HIDE DEF S
    <3>2. Cardinality(S) <= n + 1 - i  BY <1>1, <2>1, <3>1, FS_EmptySet
    <3> QED BY <3>2 DEF S
  <2>2. CASE i \in 1..n
    <3> DEFINE T == {g \in gs : g.at > times[i]}
    <3>1. S \subseteq T \cup {new} /\ T \subseteq gs /\ Cardinality(T) <= n - i
      BY <1>1, <2>2 DEF Covers
    <3> HIDE DEF S, T
    <3>2. Cardinality(S) <= Cardinality(T) + 1 /\ Cardinality(S) \in Nat /\ Cardinality(T) \in Nat
      BY <1>2, <1>3, <3>1
    <3> DEFINE a == Cardinality(S)
               b == Cardinality(T)
    <3> HIDE DEF n
    <3>3. a <= b + 1 /\ a \in Nat /\ b \in Nat /\ b <= n - i /\ n \in Nat /\ i \in Nat
      BY <1>1, <2>2, <3>1, <3>2
    <3> HIDE DEF a, b
    <3>4. a <= n + 1 - i  BY <3>3
    <3> USE DEF a, n
    <3> QED BY <3>4 DEF S
  <2>3. i = n + 1 \/ i \in 1..n  BY <1>1
  <2> QED BY <2>1, <2>2, <2>3
<1> QED BY <1>1, <1>4, <1>5 DEF Covers

(* A new key finds room, whatever has to be forgotten for it.              *)
LEMMA PruneMakesRoom ==
    ASSUME IsFiniteSet(DOMAIN store), NEW kept \in prune_store
    PROVE  kept \subseteq DOMAIN store /\ IsFiniteSet(kept) /\ Cardinality(kept) + 1 <= MaxKeys
<1> DEFINE tracked == DOMAIN store
           fresh == {k \in tracked : Recent(store[k]) # <<>>}
<1>1. fresh \subseteq tracked  OBVIOUS
<1>2. \/ kept = tracked /\ ~AtCap(tracked)
      \/ kept = fresh /\ ~AtCap(fresh)
      \/ kept \subseteq fresh /\ Cardinality(kept) = MaxKeys \div 2
    BY DEF prune_store
<1> HIDE DEF fresh, tracked
<1>3. kept \subseteq tracked  BY <1>1, <1>2
<1>4. IsFiniteSet(kept) /\ Cardinality(kept) \in Nat
    BY <1>3, FS_Subset, FS_CardinalityType DEF tracked
<1>5. MaxKeys \in Nat /\ MaxKeys >= 1 /\ MaxKeys \div 2 + 1 <= MaxKeys
    BY LimiterAssumption
<1>6. Cardinality(kept) + 1 <= MaxKeys  BY <1>2, <1>4, <1>5 DEF AtCap
<1> QED BY <1>3, <1>4, <1>6 DEF tracked

(* In memory the times of the window say what may still be let through,    *)
(* and of a key that had to be forgotten nothing is held against it.       *)
LEMMA MemoryKeepsLimit ==
    ASSUME Limiting, offered' = offered, NEW k \in Keys, NEW ok \in BOOLEAN, MemoryCheck(k, ok)
    PROVE  Limiting'
<1> DEFINE new == Granted(k, "memory")
           times == IF k \in DOMAIN store THEN Recent(store[k]) ELSE <<>>
<1>0. PICK kept \in (IF k \in DOMAIN store THEN {DOMAIN store} ELSE prune_store) :
         /\ ok = (Len(times) < Limit)
         /\ store' = [l \in kept \cup {k} |-> IF l # k THEN store[l]
                                             ELSE IF ok THEN Append(times, now) ELSE times]
         /\ granted' = {g \in granted : ~(g.by = "memory" /\ g.key \in DOMAIN store \ kept)}
                          \cup (IF ok THEN {new} ELSE {})
    BY DEF MemoryCheck
<1>1. now' = now /\ zset' = zset /\ now \in Nat  BY DEF MemoryCheck, Limiting
<1>2. new.key = k /\ new.at = now /\ new.by = "memory"  BY DEF Granted
<1> HIDE DEF new
<1>3. \A g \in granted : g.at \in Nat /\ g.at <= now /\ g.at \in 0..now
    BY <1>1 DEF Limiting
<1>4. \A g \in granted' : g \in granted \/ (g = new /\ ok)  BY <1>0
<1>5. kept \subseteq DOMAIN store /\ IsFiniteSet(kept) /\ (k \in DOMAIN store => kept = DOMAIN store)
  <2>1. IsFiniteSet(DOMAIN store)  BY DEF Limiting
  <2> QED BY <1>0, <2>1, PruneMakesRoom
<1>6. DOMAIN store' = kept \cup {k} /\ store'[k] = (IF ok THEN Append(times, now) ELSE times)
      /\ \A l \in kept : l # k => store'[l] = store[l]
    BY <1>0
<1>7. IsFiniteSet(DOMAIN store') /\ StoreBounded'
  <2>1. IsFiniteSet(kept \cup {k}) /\ Cardinality(kept \cup {k}) =
            IF k \in kept THEN Cardinality(kept) ELSE Cardinality(kept) + 1
    BY <1>5, FS_AddElement
  <2>2. CASE k \in DOMAIN store
    <3>1. DOMAIN store' = DOMAIN store  BY <1>5, <1>6, <2>2
    <3> QED BY <3>1 DEF Limiting, StoreBounded
  <2>3. CASE k \notin DOMAIN store
    <3>1. Cardinality(kept) + 1 <= MaxKeys /\ k \notin kept
      BY <1>0, <1>5, <2>3, PruneMakesRoom DEF Limiting
    <3> QED BY <1>6, <2>1, <3>1 DEF StoreBounded
  <2> QED BY <2>2, <2>3
<1>8. IsFiniteSet(granted') /\ \A g \in granted' : g.at \in 0..now
  <2>1. IsFiniteSet(granted \cup {new})  BY FS_AddElement DEF Limiting
  <2>2. granted' \subseteq granted \cup {new}  BY <1>0
  <2> QED BY <1>1, <1>2, <1>3, <1>4, <2>1, <2>2, FS_Subset
<1>9. \A l : By(l, "redis")' = By(l, "redis")  BY <1>0, <1>2 DEF By
<1>10. ASSUME NEW l \in kept, l # k PROVE By(l, "memory")' = By(l, "memory")
    BY <1>0, <1>2, <1>10 DEF By
<1>11. By(k, "memory")' = By(k, "memory") \cup (IF ok THEN {new} ELSE {})
    BY <1>0, <1>2, <1>5 DEF By
<1>12. IsFiniteSet(By(k, "memory")) /\ \A g \in By(k, "memory") : g.at \in 0..now
    BY <1>3, FS_Subset DEF By, Limiting
<1>13. Covers(times, By(k, "memory"))
  <2>1. CASE k \in DOMAIN store
    <3>1. Covers(store[k], By(k, "memory"))  BY <2>1 DEF Limiting, Covers
    <3> QED BY <1>1, <1>12, <2>1, <3>1, RecentCovers
  <2>2. CASE k \notin DOMAIN store
    <3> DEFINE S == {g \in By(k, "memory") : now - g.at < Window}
    <3>1. S = {}  BY <2>2 DEF By, Limiting
    <3> HIDE DEF S
    <3>2. Cardinality(S) <= 0  BY <3>1, FS_EmptySet
    <3>3. <<>> \in Seq(Nat) /\ Len(<<>>) = 0 /\ 1..0 = {} /\ times = <<>>  BY <2>2
    <3> QED BY <3>2, <3>3 DEF Covers, S
  <2> QED BY <2>1, <2>2
<1> HIDE DEF times
<1>14. Covers(store'[k], By(k, "memory")')
  <2>1. CASE ok  BY <1>1, <1>2, <1>6, <1>11, <1>12, <1>13, <2>1, GrantCovers
  <2>2. CASE ~ok  BY <1>6, <1>11, <1>13, <2>2
  <2> QED BY <2>1, <2>2
<1>15. ASSUME NEW l \in DOMAIN store' PROVE Covers(store'[l], By(l, "memory")')
  <2>1. CASE l = k  BY <1>14, <2>1
  <2>2. CASE l # k
    <3>1. l \in kept /\ l \in DOMAIN store /\ store'[l] = store[l] /\ By(l, "memory")' = By(l, "memory")
      BY <1>5, <1>6, <1>10, <2>2
    <3>2. Covers(store[l], By(l, "memory"))  BY <3>1 DEF Limiting, Covers
    <3> QED BY <3>1, <3>2
  <2> QED BY <2>1, <2>2
<1>16. ASSUME NEW l \in DOMAIN store'
       PROVE  /\ store'[l] \in Seq(Nat)
              /\ Cardinality({g \in By(l, "memory")' : now' - g.at < Window}) <= Len(store'[l])
              /\ \A i \in 1..Len(store'[l]) :
                    Cardinality({g \in By(l, "memory")' : g.at > store'[l][i]}) <= Len(store'[l]) - i
    BY <1>1, <1>15 DEF Covers
<1>17. ASSUME NEW l \in Keys, NEW t \in 0..now'
       PROVE  Cardinality(Instants(l, t)') <= Limit /\ Cardinality(Requests(l, t)') <= Limit
  <2>1. t \in 0..now /\ t \in Nat /\ t <= now  BY <1>1
  <2>2. Instants(l, t)' = Instants(l, t)  BY <1>0, <1>1, <1>2 DEF Instants, InWindow
  <2>3. CASE l = k /\ t = now /\ ok
    <3> DEFINE S == {g \in By(k, "memory")' : now' - g.at < Window}
    <3>1. Requests(l, t)' \subseteq S  BY <1>1, <2>3 DEF Requests, InWindow, By
    <3>2. Cardinality(S) <= Len(store'[k])  BY <1>6, <1>16
    <3>3. S \subseteq granted'  BY DEF By
    <3> HIDE DEF S
    <3>4. Len(store'[k]) <= Limit /\ Len(store'[k]) \in Nat
      <4>1. times \in Seq(Nat) /\ Len(times) < Limit /\ store'[k] = Append(times, now)
        BY <1>0, <1>6, <1>13, <2>3 DEF Covers
      <4>2. Len(store'[k]) = Len(times) + 1 /\ Len(times) \in Nat  BY <1>1, <4>1
      <4> QED BY <4>1, <4>2, LimiterAssumption
    <3>5. IsFiniteSet(S)  BY <1>8, <3>3, FS_Subset
    <3>6. Cardinality(Requests(l, t)') <= Len(store'[k]) /\ Cardinality(Requests(l, t)') \in Nat
      BY <3>1, <3>2, <3>4, <3>5, Fewer
    <3>7. Cardinality(Requests(l, t)') <= Limit  BY <3>4, <3>6, LimiterAssumption
    <3> QED BY <2>1, <2>2, <3>7, Windows
  <2>4. CASE ~(l = k /\ t = now /\ ok)
    <3>1. \A h \in granted' : InWindow(h, l, t, "memory") => h \in granted
      BY <1>1, <1>2, <1>4, <2>1, <2>4 DEF InWindow
    <3>2. Requests(l, t)' \subseteq Requests(l, t)  BY <1>1, <3>1 DEF Requests, InWindow
    <3> QED BY <2>1, <2>2, <3>2, Windows, Fewer, LimiterAssumption
  <2> QED BY <2>3, <2>4
<1>18. RateBound'  BY <1>17, BoundFromWindows
<1>19. \A g \in granted' : g.by = "memory" => g.key \in DOMAIN store'
    BY <1>0, <1>2, <1>6 DEF Limiting
<1>20. \A l \in Keys : \A g \in By(l, "redis")' : now' - g.at < Window => g.at \in zset'[l]
    BY <1>1, <1>9 DEF Limiting
<1>21. /\ offered'.keys \subseteq Keys /\ now' \in Nat /\ (\A g \in granted' : g.at \in 0..now')
       /\ zset' \in [Keys -> SUBSET Nat] /\ \A l \in Keys : IsFiniteSet(zset'[l])
    BY <1>1, <1>8 DEF Limiting
<1> QED BY <1>7, <1>8, <1>16, <1>18, <1>19, <1>20, <1>21 DEF Limiting

LEMMA LimitingStep == Limiting /\ [Next]_vars => Limiting'
<1> SUFFICES ASSUME Limiting, [Next]_vars PROVE Limiting'  OBVIOUS
<1>1. ASSUME UNCHANGED <<offered, now, limiterVars>> PROVE Limiting'
  <2>1. /\ offered' = offered /\ now' = now /\ zset' = zset /\ store' = store /\ granted' = granted
    BY <1>1 DEF limiterVars
  <2>2. \A k, by : By(k, by)' = By(k, by)  BY <2>1 DEF By
  <2>3. RateBound' /\ StoreBounded'
    BY <2>1 DEF Limiting, RateBound, InWindow, StoreBounded
  <2> QED BY <2>1, <2>2, <2>3 DEF Limiting
<1>2. CASE Next
  <2>1. offered' = offered  BY <1>2, LimiterSteps
  <2>2. ASSUME NEW k \in offered.keys, NEW ok \in BOOLEAN, NEW answers \in BOOLEAN, is_allowed(k, ok, answers)
        PROVE  Limiting'
    <3>1. k \in Keys  BY DEF Limiting
    <3>2. RedisCheck(k, ok) \/ MemoryCheck(k, ok)
      BY <2>2 DEF is_allowed, RedisFails, FallenBack
    <3> QED BY <2>1, <3>1, <3>2, RedisKeepsLimit, MemoryKeepsLimit
  <2>3. CASE Tick  BY <2>1, <2>3, TickKeepsLimit
  <2> QED BY <1>1, <1>2, <2>1, <2>2, <2>3, LimiterSteps
<1>3. CASE UNCHANGED vars  BY <1>1, <1>3 DEF vars, telemetryVars, limiterVars
<1> QED BY <1>2, <1>3

(* In no window of the limit's length does Redis let requests of a key     *)
(* through in more milliseconds than the limit, or the memory after it     *)
(* more requests than the limit, each counted by itself, and no more keys  *)
(* are tracked in memory than the cap, whenever Redis fails and whoever is *)
(* forgotten to make room (get_remaining, RateLimitMiddleware._is_allowed, *)
(* _prune_store): for any limit, window and cap, and any keys.             *)
THEOREM LimiterSoundTheorem == Spec => []LimiterSound
<1>1. Limiting => LimiterSound  BY DEF Limiting, LimiterSound
<1> QED BY <1>1, LimitingInit, LimitingStep, PTL DEF Spec

----------------------------------------------------------------------------
(* Finite sets in order                                                    *)

Orders(R, S) ==
    /\ \A x \in S : <<x, x>> \notin R
    /\ \A x, y \in S : x = y \/ <<x, y>> \in R \/ <<y, x>> \in R
    /\ \A x, y, z \in S : <<x, y>> \in R /\ <<y, z>> \in R => <<x, z>> \in R

Ahead(R, S, x) == {y \in S : <<y, x>> \in R}

(* Every place is taken, by one element.                                   *)
Ranked(R, S) ==
    /\ Cardinality(S) \in Nat
    /\ \A i \in 1..Cardinality(S) : \E x \in S : Cardinality(Ahead(R, S, x)) = i - 1
    /\ \A x \in S : Cardinality(Ahead(R, S, x)) + 1 \in 1..Cardinality(S)
    /\ \A x, z \in S : Cardinality(Ahead(R, S, x)) = Cardinality(Ahead(R, S, z)) => x = z
    /\ \A x, z \in S : <<x, z>> \in R => Cardinality(Ahead(R, S, x)) < Cardinality(Ahead(R, S, z))

LEMMA EveryPlace ==
    ASSUME NEW S, IsFiniteSet(S), NEW R, Orders(R, S)
    PROVE  Ranked(R, S)
<1> DEFINE Below(x) == Ahead(R, S, x)
           n == Cardinality(S)
           rank == [x \in S |-> Cardinality(Below(x))]
<1>1. n \in Nat  BY FS_CardinalityType
<1>2. ASSUME NEW x \in S PROVE IsFiniteSet(Below(x)) /\ Cardinality(Below(x)) \in Nat /\ Cardinality(Below(x)) < n
  <2>1. Below(x) \subseteq S /\ x \notin Below(x)  BY DEF Orders, Ahead
  <2> HIDE DEF Below
  <2>2. IsFiniteSet(Below(x)) /\ Cardinality(Below(x)) \in Nat /\ Cardinality(Below(x)) <= n
    BY <2>1, FS_Subset, FS_CardinalityType
  <2>3. Below(x) # S  BY <2>1
  <2>4. Cardinality(Below(x)) # n  BY <2>1, <2>3, FS_Subset
  <2> QED BY <1>1, <2>2, <2>4
<1>3. ASSUME NEW x \in S, NEW z \in S, <<x, z>> \in R PROVE Cardinality(Below(x)) < Cardinality(Below(z))
  <2>1. Below(x) \subseteq Below(z) /\ x \in Below(z) /\ x \notin Below(x)
    BY <1>3 DEF Orders, Ahead
  <2>2. IsFiniteSet(Below(z)) /\ Cardinality(Below(z)) \in Nat /\ Cardinality(Below(x)) \in Nat
    BY <1>2
  <2> HIDE DEF Below
  <2>3. Cardinality(Below(x)) <= Cardinality(Below(z)) /\ Cardinality(Below(x)) # Cardinality(Below(z))
    BY <2>1, <2>2, FS_Subset
  <2> QED BY <2>2, <2>3
<1> HIDE DEF Below
<1>4. ASSUME NEW x \in S, NEW z \in S, Cardinality(Below(x)) = Cardinality(Below(z)) PROVE x = z
  <2>1. Cardinality(Below(x)) \in Nat /\ Cardinality(Below(z)) \in Nat  BY <1>2
  <2>2. <<x, z>> \notin R /\ <<z, x>> \notin R  BY <1>3, <1>4, <2>1
  <2> QED BY <2>2 DEF Orders
<1>5. \A x \in S : Cardinality(Below(x)) \in 0..(n - 1)  BY <1>1, <1>2
<1>6. rank \in Injection(S, 0..(n - 1))  BY <1>4, <1>5 DEF Injection, IsInjective
<1>7. IsFiniteSet(0..(n - 1)) /\ Cardinality(0..(n - 1)) = n  BY <1>1, FS_Interval
<1> HIDE DEF rank
<1>8. rank \in Surjection(S, 0..(n - 1))  BY <1>6, <1>7, FS_Injection
<1>9. ASSUME NEW i \in 1..n PROVE \E x \in S : Cardinality(Below(x)) = i - 1
  <2>1. i - 1 \in 0..(n - 1)  BY <1>1
  <2>2. PICK x \in S : rank[x] = i - 1  BY <1>8, <2>1 DEF Surjection
  <2> QED BY <2>2 DEF rank
<1>10. \A x \in S : Cardinality(Below(x)) + 1 \in 1..n  BY <1>1, <1>5
<1> QED BY <1>1, <1>3, <1>4, <1>9, <1>10 DEF Below, Ranked

(* A finite set has as many elements as a sequence that has each once.     *)
LEMMA Enumerated ==
    ASSUME NEW s, NEW n \in Nat, NEW S, s \in [1..n -> S], \A i, j \in 1..n : s[i] = s[j] => i = j
    PROVE  Cardinality(Range(s)) = n
<1>1. s \in Bijection(1..n, Range(s))
    BY DEF Range, Bijection, Injection, Surjection, IsInjective
<1>2. IsFiniteSet(1..n) /\ Cardinality(1..n) = n  BY FS_Interval
<1>3. ExistsBijection(1..n, Range(s))  BY <1>1 DEF ExistsBijection
<1> QED BY <1>2, <1>3, FS_Bijection

LEMMA SetInSequence ==
    ASSUME NEW S, IsFiniteSet(S)
    PROVE  /\ Cardinality(S) \in Nat /\ SetToSeq(S) \in [1..Cardinality(S) -> S]
           /\ \A i, j \in 1..Cardinality(S) : SetToSeq(S)[i] = SetToSeq(S)[j] => i = j
<1> DEFINE n == Cardinality(S)
<1>1. n \in Nat /\ ExistsBijection(1..n, S)  BY FS_CardinalityType
<1>2. \E f \in [1..n -> S] : IsInjective(f)
    BY <1>1 DEF ExistsBijection, Bijection, Injection
<1>3. SetToSeq(S) \in [1..n -> S] /\ IsInjective(SetToSeq(S))  BY <1>2 DEF SetToSeq
<1> QED BY <1>1, <1>3 DEF IsInjective

(* Indices in order.                                                       *)
LEMMA IndicesInOrder ==
    ASSUME NEW K \in SUBSET Nat, IsFiniteSet(K)
    PROVE  /\ Cardinality(K) \in Nat
           /\ InOrder(K, <) \in [1..Cardinality(K) -> K]
           /\ \A i, j \in 1..Cardinality(K) : InOrder(K, <)[i] = InOrder(K, <)[j] => i = j
<1> DEFINE R == {e \in K \X K : e[1] < e[2]}
           Rank(x) == Cardinality({y \in K : y < x})
           n == Cardinality(K)
<1>1. \A x, y \in K : <<x, y>> \in R <=> x < y  OBVIOUS
<1> HIDE DEF R
<1>2. Orders(R, K)  BY <1>1 DEF Orders
<1>3. ASSUME NEW x \in K PROVE Cardinality(Ahead(R, K, x)) = Rank(x)
  <2>1. Ahead(R, K, x) = {y \in K : y < x}  BY <1>1 DEF Ahead
  <2> QED BY <2>1
<1>4. n \in Nat /\ \A i \in 1..n : \E x \in K : Rank(x) = i - 1
  <2>1. n \in Nat /\ \A i \in 1..n : \E x \in K : Cardinality(Ahead(R, K, x)) = i - 1
    <3>1. Ranked(R, K)  BY <1>2, EveryPlace
    <3> QED BY <3>1 DEF Ranked
  <2> HIDE DEF Rank, n
  <2>2. ASSUME NEW i \in 1..n PROVE \E x \in K : Rank(x) = i - 1
    <3>1. PICK x \in K : Cardinality(Ahead(R, K, x)) = i - 1  BY <2>1
    <3>2. Rank(x) = i - 1  BY <1>3, <3>1
    <3> QED BY <3>2
  <2> QED BY <2>1, <2>2
<1>5. InOrder(K, <) = [i \in 1..n |-> CHOOSE x \in K : Rank(x) = i - 1]  BY DEF InOrder
<1> HIDE DEF Rank, n
<1>6. \A i \in 1..n : InOrder(K, <)[i] \in K /\ Rank(InOrder(K, <)[i]) = i - 1
    BY <1>4, <1>5
<1>7. InOrder(K, <) \in [1..n -> K]  BY <1>5, <1>6
<1>8. ASSUME NEW i \in 1..n, NEW j \in 1..n, InOrder(K, <)[i] = InOrder(K, <)[j] PROVE i = j
  <2>1. i - 1 = j - 1  BY <1>6, <1>8
  <2> QED BY <2>1
<1> QED BY <1>4, <1>7, <1>8 DEF n

----------------------------------------------------------------------------
(* What a turn does to the account                                         *)

TurnFields == {"pc", "conv", "ws", "attached", "wrote", "round", "asked", "artifacts", "before", "slot",
               "history", "earlier"}
IsTurn(r) == DOMAIN r = TurnFields /\ r = [x \in TurnFields |-> r[x]]

(* Nothing that counts; and one action, taken while there was budget.      *)
Harmless(produced) ==
    \A i \in DOMAIN produced : produced[i].type # "delete" /\ produced[i].state # "started"
OneAction(t, produced) ==
    /\ ~BudgetSpent(t)
    /\ \/ \E f \in Files : produced = <<[type |-> "delete", id |-> f, state |-> "pending"]>>
       \/ \E j \in Jobs : produced = <<[type |-> "job", id |-> j, state |-> "started"]>>

Yields(t) == \E S : \E produced \in Seq(S) : Yield(t, produced) /\ (Harmless(produced) \/ OneAction(t, produced))

LEMMA PlainYields == ASSUME NEW t, Plain(t) PROVE Yields(t)
<1>1. <<>> \in Seq({}) /\ Harmless(<<>>)  BY DEF Harmless
<1> QED BY <1>1 DEF Plain, Report, Yields

(* Something is shown.                                                     *)
LEMMA ShownYields ==
    ASSUME NEW t, NEW type \in {"file", "folder", "job", "workspace", "workspace_file", "execution"},
           NEW id, Yield(t, <<Shown(type, id)>>)
    PROVE  Yields(t)
<1>1. <<Shown(type, id)>> \in Seq({Shown(type, id)}) /\ Harmless(<<Shown(type, id)>>)
    BY DEF Shown, Harmless
<1> QED BY <1>1 DEF Yields

LEMMA ListedYields ==
    ASSUME NEW t, NEW type \in {"file", "job", "workspace"},
           NEW ids, ids \in SUBSET Files \/ ids \in SUBSET Jobs \/ ids \in SUBSET Workspaces,
           Yield(t, Listed(type, ids))
    PROVE  Yields(t)
<1> DEFINE shown == SetToSeq(ids)
           m == IF Len(shown) < MaxShown THEN Len(shown) ELSE MaxShown
<1>1. IsFiniteSet(ids)
  <2>1. IsFiniteSet(Files) /\ IsFiniteSet(Jobs) /\ IsFiniteSet(Workspaces)
    BY ToolAssumption
  <2> QED BY <2>1, FS_Subset
<1>2. Cardinality(ids) \in Nat /\ shown \in [1..Cardinality(ids) -> ids]
    BY <1>1, SetInSequence
<1> HIDE DEF shown
<1>3. shown \in Seq(ids) /\ Len(shown) \in Nat /\ \A i \in 1..Len(shown) : shown[i] \in ids
    BY <1>2, SeqDef
<1>4. m \in Nat /\ m <= Len(shown)  BY <1>3, ToolAssumption
<1>5. Listed(type, ids) = [i \in 1..m |-> Shown(type, shown[i])]  BY DEF Listed, shown
<1> HIDE DEF m
<1>6. Listed(type, ids) \in Seq({Shown(type, shown[i]) : i \in 1..m})
    BY <1>4, <1>5, SeqDef
<1>9. Harmless(Listed(type, ids))  BY <1>5 DEF Harmless, Shown
<1> QED BY <1>6, <1>9 DEF Yields

LEMMA LibraryTools ==
    ASSUME NEW t, tool_list_files(t) \/ tool_get_file_info(t) \/ tool_create_folder(t) \/ tool_move_file(t)
                  \/ tool_delete_file(t) \/ document_text(t)
    PROVE  Yields(t)
<1>1. ASSUME tool_list_files(t) PROVE Yields(t)
  <2>1. PICK whole \in BOOLEAN, ref \in References, narrowed \in SUBSET Files :
            Report(t, Listed("file", (IF whole THEN {f \in Files : get_file(f)}
                                      ELSE UNION {list_files(p) : p \in resolve_optional_folder(ref)}) \cap narrowed))
    BY <1>1 DEF tool_list_files
  <2> DEFINE found == (IF whole THEN {f \in Files : get_file(f)}
                      ELSE UNION {list_files(p) : p \in resolve_optional_folder(ref)}) \cap narrowed
  <2>2. found \in SUBSET Files /\ Yield(t, Listed("file", found))  BY <2>1 DEF Report
  <2> HIDE DEF found
  <2> QED BY <2>2, ListedYields
<1>2. ASSUME NEW f \in Files, Yield(t, <<file_artifact(f)>>) PROVE Yields(t)
    BY <1>2, ShownYields DEF file_artifact
<1>3. ASSUME tool_get_file_info(t) PROVE Yields(t)
    BY <1>2, <1>3, PlainYields DEF tool_get_file_info, Plain, Report
<1>4. ASSUME document_text(t) PROVE Yields(t)
    BY <1>2, <1>4, PlainYields DEF document_text, Plain, Report
<1>5. ASSUME tool_create_folder(t) PROVE Yields(t)
  <2>1. Plain(t) \/ \E d \in Folders : Yield(t, <<folder_artifact(d)>>)
    BY <1>5 DEF tool_create_folder
  <2> QED BY <2>1, PlainYields, ShownYields DEF folder_artifact
<1>6. ASSUME tool_move_file(t) PROVE Yields(t)
  <2>1. Plain(t) \/ \E f \in Files : Yield(t, <<file_artifact(f)>>)
    BY <1>6 DEF tool_move_file
  <2> QED BY <1>2, <2>1, PlainYields
<1>7. ASSUME tool_delete_file(t) PROVE Yields(t)
  <2>1. PICK f \in Files : Report(t, IF BudgetSpent(t) \/ ~get_file(f) THEN <<>>
                                     ELSE <<[type |-> "delete", id |-> f, state |-> "pending"]>>)
    BY <1>7 DEF tool_delete_file
  <2>2. CASE BudgetSpent(t) \/ ~get_file(f)  BY <2>1, <2>2, PlainYields DEF Plain
  <2>3. CASE ~(BudgetSpent(t) \/ ~get_file(f))
    <3> DEFINE a == [type |-> "delete", id |-> f, state |-> "pending"]
    <3>2. <<a>> \in Seq({a})  OBVIOUS
    <3>3. Yield(t, <<a>>) /\ ~BudgetSpent(t)  BY <2>1, <2>3 DEF Report
    <3>4. OneAction(t, <<a>>)  BY <3>3 DEF OneAction
    <3> QED BY <3>2, <3>3, <3>4 DEF Yields
  <2> QED BY <2>2, <2>3
<1> QED BY <1>1, <1>3, <1>4, <1>5, <1>6, <1>7

LEMMA ConversionTools ==
    ASSUME NEW t, tool_start_conversion(t) \/ tool_get_conversion_status(t) \/ tool_list_recent_conversions(t)
    PROVE  Yields(t)
<1>1. ASSUME tool_start_conversion(t) PROVE Yields(t)
  <2>1. \/ Plain(t)
        \/ ~BudgetSpent(t) /\ \E j \in Jobs : Yield(t, <<[type |-> "job", id |-> j, state |-> "started"]>>)
    BY <1>1 DEF tool_start_conversion
  <2>2. ASSUME ~BudgetSpent(t), NEW j \in Jobs, Yield(t, <<[type |-> "job", id |-> j, state |-> "started"]>>)
        PROVE  Yields(t)
    <3> DEFINE a == [type |-> "job", id |-> j, state |-> "started"]
    <3>2. <<a>> \in Seq({a})  OBVIOUS
    <3>3. OneAction(t, <<a>>)  BY <2>2 DEF OneAction
    <3> QED BY <2>2, <3>2, <3>3 DEF Yields
  <2> QED BY <2>1, <2>2, PlainYields
<1>2. ASSUME tool_get_conversion_status(t) PROVE Yields(t)
    BY <1>2, PlainYields, ShownYields DEF tool_get_conversion_status, Plain, Report
<1>3. ASSUME tool_list_recent_conversions(t) PROVE Yields(t)
  <2> DEFINE mine == {j \in Jobs : is_job_owner(j)}
  <2>1. mine \in SUBSET Jobs /\ Yield(t, Listed("job", mine))
    BY <1>3 DEF tool_list_recent_conversions, Report
  <2> HIDE DEF mine
  <2> QED BY <2>1, ListedYields
<1> QED BY <1>1, <1>2, <1>3

LEMMA WorkspaceToolsYield == ASSUME NEW t, NEW name, workspace_dispatch(t, name) PROVE Yields(t)
<1>1. ASSUME NEW w, NEW type \in {"workspace", "workspace_file"}, Yield(t, <<Shown(type, w)>>)
      PROVE  Yields(t)
    BY <1>1, ShownYields
<1>2. ASSUME NEW w, NEW type \in {"workspace", "workspace_file"},
             ensure_runtime(t, w, <<Shown(type, w)>>)
      PROVE  Yields(t)
    BY <1>1, <1>2, PlainYields DEF ensure_runtime
<1>3. ASSUME tool_list_workspaces(t) PROVE Yields(t)
  <2> DEFINE mine == {w \in Workspaces : Usable(w)}
  <2>1. mine \in SUBSET Workspaces /\ Yield(t, Listed("workspace", mine))
    BY <1>3 DEF tool_list_workspaces, Report
  <2> HIDE DEF mine
  <2> QED BY <2>1, ListedYields
<1>4. ASSUME tool_get_workspace(t) \/ tool_save_workspace_environment(t) PROVE Yields(t)
  <2>1. Plain(t) \/ \E w : Yield(t, <<Shown("workspace", w)>>)
    BY <1>4 DEF tool_get_workspace, tool_save_workspace_environment, SomeWorkspace, Plain, Report
  <2> QED BY <1>1, <2>1, PlainYields
<1>5. ASSUME tool_create_workspace(t) PROVE Yields(t)
    BY <1>1, <1>5, PlainYields DEF tool_create_workspace
<1>6. ASSUME tool_list_workspace_files(t) \/ tool_read_workspace_file(t) \/ tool_write_workspace_file(t)
      PROVE  Yields(t)
  <2>1. Plain(t) \/ \E w : \E type \in {"workspace", "workspace_file"} :
                        ensure_runtime(t, w, <<Shown(type, w)>>)
    BY <1>6 DEF tool_list_workspace_files, tool_read_workspace_file, tool_write_workspace_file, SomeWorkspace
  <2> QED BY <1>2, <2>1, PlainYields
<1>7. ASSUME tool_run_python(t) PROVE Yields(t)
  <2>1. Plain(t) \/ \E e \in Executions : Yield(t, <<Shown("execution", e)>>)
    BY <1>7 DEF tool_run_python, SomeWorkspace
  <2> QED BY <2>1, PlainYields, ShownYields
<1>8. ASSUME tool_cancel_execution(t) PROVE Yields(t)
  <2>1. Yield(t, <<>>)  BY <1>8 DEF tool_cancel_execution
  <2>2. <<>> \in Seq({}) /\ Harmless(<<>>)  BY DEF Harmless
  <2> QED BY <2>1, <2>2 DEF Yields
<1>9. ASSUME tool_get_execution(t) PROVE Yields(t)
    BY <1>9, PlainYields DEF tool_get_execution
<1> QED BY <1>3, <1>4, <1>5, <1>6, <1>7, <1>8, <1>9 DEF workspace_dispatch

LEMMA ExecuteYields ==
    ASSUME NEW t, NEW name, execute(t, name)
    PROVE  Yields(t)
<1>1. Plain(t) \/ dispatch(t, name)  BY DEF execute
<1>2. ASSUME dispatch(t, name), ~workspace_dispatch(t, name) PROVE Yields(t)
    BY <1>2, PlainYields, LibraryTools, ConversionTools
       DEF dispatch, tool_list_folders, tool_list_supported_targets, tool_get_account_overview,
           tool_read_file_text, tool_summarize_file
<1> QED BY <1>1, <1>2, PlainYields, WorkspaceToolsYield

Counted(done) == {i \in DOMAIN done : done[i].type = "delete" \/ done[i].state = "started"}

(* In a turn a deletion is only proposed, and only a conversion started.   *)
Sober(done) ==
    /\ \E S : done \in Seq(S)
    /\ \A i \in DOMAIN done : /\ done[i].type = "delete" => done[i].state = "pending"
                              /\ done[i].state = "started" => done[i].type = "job"
    /\ Cardinality(Counted(done)) <= MaxActions

LEMMA SoberEmpty == Sober(<<>>)
<1>1. <<>> \in Seq({})  OBVIOUS
<1>2. Counted(<<>>) = {}  BY DEF Counted
<1>3. Cardinality(Counted(<<>>)) <= MaxActions
  <2>1. Cardinality(Counted(<<>>)) = 0  BY <1>2, FS_EmptySet
  <2> QED BY <2>1, ToolAssumption
<1>4. DOMAIN <<>> = {}  OBVIOUS
<1> QED BY <1>1, <1>3, <1>4 DEF Sober

LEMMA SoberLonger ==
    ASSUME NEW t, Sober(turn[t].artifacts), NEW T, NEW produced \in Seq(T),
           Harmless(produced) \/ OneAction(t, produced)
    PROVE  Sober(turn[t].artifacts \o produced)
<1> DEFINE done == turn[t].artifacts
           more == done \o produced
           n == Len(done)
<1>1. PICK S : done \in Seq(S)  BY DEF Sober
<1>2. done \in Seq(S \cup T) /\ produced \in Seq(S \cup T)  BY <1>1, SeqMonotonic
<1>3. /\ n \in Nat /\ Len(produced) \in Nat /\ DOMAIN done = 1..n /\ DOMAIN produced = 1..Len(produced)
      /\ more \in Seq(S \cup T) /\ DOMAIN more = 1..(n + Len(produced))
      /\ \A i \in 1..n : more[i] = done[i]
      /\ \A i \in 1..(n + Len(produced)) : i \notin 1..n => i - n \in 1..Len(produced) /\ more[i] = produced[i - n]
    BY <1>2
<1>4. Cardinality(Counted(done)) <= MaxActions
      /\ \A i \in DOMAIN done : /\ done[i].type = "delete" => done[i].state = "pending"
                                /\ done[i].state = "started" => done[i].type = "job"
    BY DEF Sober
<1>5. \A i \in DOMAIN produced : /\ produced[i].type = "delete" => produced[i].state = "pending"
                                 /\ produced[i].state = "started" => produced[i].type = "job"
    BY <1>3 DEF Harmless, OneAction
<1>6. IsFiniteSet(Counted(done)) /\ Cardinality(Counted(done)) \in Nat
  <2>1. Counted(done) \subseteq 1..n  BY <1>3 DEF Counted
  <2>2. IsFiniteSet(1..n)
    <3>1. n \in Int /\ 1 \in Int  BY <1>3
    <3> HIDE DEF n
    <3> QED BY <3>1, FS_Interval
  <2> QED BY <2>1, <2>2, FS_Subset, FS_CardinalityType
<1> HIDE DEF done, more
<1>7. Cardinality(Counted(more)) <= MaxActions
  <2>1. CASE Harmless(produced)
    <3>1. Counted(more) = Counted(done)  BY <1>3, <2>1 DEF Counted, Harmless
    <3> QED BY <1>4, <3>1
  <2>2. CASE OneAction(t, produced)
    <3>1. Len(produced) = 1 /\ ~(actions_taken(done) >= MaxActions)
      BY <2>2 DEF OneAction, BudgetSpent, done
    <3>2. actions_taken(done) = Cardinality(Counted(done))
      <4>1. {i \in DOMAIN done : \/ done[i].type = "job" /\ done[i].state = "started"
                                 \/ done[i].type = "delete" /\ done[i].state = "pending"} = Counted(done)
        BY <1>4 DEF Counted
      <4> QED BY <4>1 DEF actions_taken
    <3>3. Counted(more) \subseteq Counted(done) \cup {n + 1}  BY <1>3, <3>1 DEF Counted
    <3>4. IsFiniteSet(Counted(done) \cup {n + 1})
          /\ Cardinality(Counted(done) \cup {n + 1}) <= Cardinality(Counted(done)) + 1
          /\ Cardinality(Counted(done) \cup {n + 1}) \in Nat
      <4> DEFINE x == n + 1
      <4> HIDE DEF x
      <4>1. /\ IsFiniteSet(Counted(done) \cup {x})
            /\ Cardinality(Counted(done) \cup {x}) \in {Cardinality(Counted(done)), Cardinality(Counted(done)) + 1}
        BY <1>6, FS_AddElement
      <4>2. /\ IsFiniteSet(Counted(done) \cup {x}) /\ Cardinality(Counted(done) \cup {x}) \in Nat
            /\ Cardinality(Counted(done) \cup {x}) <= Cardinality(Counted(done)) + 1
        BY <1>6, <4>1
      <4> QED BY <4>2 DEF x
    <3>5. Cardinality(Counted(more)) <= Cardinality(Counted(done) \cup {n + 1})
          /\ Cardinality(Counted(more)) \in Nat
      BY <3>3, <3>4, FS_Subset, FS_CardinalityType
    <3>6. Cardinality(Counted(done)) + 1 <= MaxActions
      BY <1>6, <3>1, <3>2, ToolAssumption
    <3> QED BY <1>6, <3>4, <3>5, <3>6, ToolAssumption
  <2> QED BY <2>1, <2>2
<1>8. \A i \in DOMAIN more : /\ more[i].type = "delete" => more[i].state = "pending"
                             /\ more[i].state = "started" => more[i].type = "job"
  <2> SUFFICES ASSUME NEW i \in DOMAIN more
               PROVE  /\ more[i].type = "delete" => more[i].state = "pending"
                      /\ more[i].state = "started" => more[i].type = "job"
    OBVIOUS
  <2>1. CASE i \in 1..n  BY <1>3, <1>4, <2>1
  <2>2. CASE i \notin 1..n
    <3>1. i - n \in DOMAIN produced /\ more[i] = produced[i - n]  BY <1>3, <2>2
    <3> QED BY <1>5, <3>1
  <2> QED BY <2>1, <2>2
<1>9. Sober(more)  BY <1>3, <1>7, <1>8 DEF Sober
<1> QED BY <1>9 DEF more, done

Acting ==
    /\ turn = [t \in Turns |-> turn[t]]
    /\ \A t \in Turns : IsTurn(turn[t]) /\ Sober(turn[t].artifacts)

(* Another step of the turn, which does nothing, or ends it.               *)
Moves(t) == \E r : /\ IsTurn(r) /\ r.artifacts \in {turn[t].artifacts, <<>>}
                   /\ turn' = [turn EXCEPT ![t] = r]

LEMMA MovesAct == ASSUME Acting, NEW t \in Turns, Moves(t) PROVE Acting'
<1>1. PICK r : IsTurn(r) /\ r.artifacts \in {turn[t].artifacts, <<>>} /\ turn' = [turn EXCEPT ![t] = r]
    BY DEF Moves
<1>2. Sober(r.artifacts)  BY <1>1, SoberEmpty DEF Acting
<1>3. turn' = [u \in Turns |-> IF u = t THEN r ELSE turn[u]]  BY <1>1 DEF Acting
<1> HIDE DEF Moves
<1>4. \A u \in Turns : IsTurn(turn'[u]) /\ Sober(turn'[u].artifacts)
    BY <1>1, <1>2, <1>3 DEF Acting
<1> QED BY <1>3, <1>4 DEF Acting

LEMMA YieldsAct == ASSUME Acting, NEW t \in Turns, Yields(t) PROVE Acting'
<1>1. PICK S : \E produced \in Seq(S) : Yield(t, produced) /\ (Harmless(produced) \/ OneAction(t, produced))
    BY DEF Yields
<1>2. PICK produced \in Seq(S) : Yield(t, produced) /\ (Harmless(produced) \/ OneAction(t, produced))
    BY <1>1
<1> DEFINE r == [turn[t] EXCEPT !.pc = "result", !.artifacts = @ \o produced]
<1>3. IsTurn(turn[t]) /\ Sober(turn[t].artifacts)  BY DEF Acting
<1>4. IsTurn(r) /\ r.artifacts = turn[t].artifacts \o produced
    BY <1>3 DEF IsTurn, TurnFields
<1>5. Sober(r.artifacts)  BY <1>2, <1>3, <1>4, SoberLonger
<1>6. turn' = [u \in Turns |-> IF u = t THEN r ELSE turn[u]]
    BY <1>2, <1>3 DEF Acting, Yield, IsTurn, TurnFields
<1> HIDE DEF r
<1>7. \A u \in Turns : IsTurn(turn'[u]) /\ Sober(turn'[u].artifacts)
    BY <1>4, <1>5, <1>6 DEF Acting
<1> QED BY <1>6, <1>7 DEF Acting

LEMMA TurnActs == ASSUME Acting, NEW t \in Turns, NEW name,
                         \/ \E answers \in BOOLEAN : stream_chat(t, answers)
                         \/ load_or_create_conversation(t) \/ CountRow(t) \/ add_message(t) \/ ReadHistory(t)
                         \/ \E n \in Nat : ModelReplies(t, n)
                         \/ RunTool(t, name) \/ Conclude(t) \/ TurnEnds(t)
                  PROVE  Acting'
<1>0. IsTurn(turn[t]) /\ turn = [u \in Turns |-> turn[u]]  BY DEF Acting
<1>1. IsTurn(IdleTurn) /\ IdleTurn.artifacts = <<>>  BY DEF IsTurn, TurnFields, IdleTurn
<1>2. ASSUME NEW answers \in BOOLEAN, stream_chat(t, answers) PROVE Moves(t)
  <2> DEFINE r(pc, c, files, w) == [IdleTurn EXCEPT !.pc = pc, !.conv = c, !.ws = w, !.attached = files]
  <2>1. \E pc, c, files, w : turn' = [turn EXCEPT ![t] = r(pc, c, files, w)]
    <3>1. \E c \in {d \in Conversations : conv[d] # "unused"} \cup {NoConversation},
             files \in SUBSET {f \in Files : place[f] # Fresh},
             w \in {v \in Workspaces : ws[v] # "unused"} \cup {NoWorkspace} :
                turn' = [turn EXCEPT ![t] = r(IF ~(Cardinality(files) > MaxAttachments) /\ LetThrough(answers)
                                              THEN "resolve" ELSE "done", c, files, w)]
      BY <1>2 DEF stream_chat, Only
    <3> HIDE DEF r
    <3> QED BY <3>1
  <2>2. ASSUME NEW pc, NEW c, NEW files, NEW w
        PROVE  IsTurn(r(pc, c, files, w)) /\ r(pc, c, files, w).artifacts = <<>>
    BY <1>1 DEF IsTurn, TurnFields
  <2> HIDE DEF r
  <2> QED BY <2>1, <2>2 DEF Moves
<1>3. ASSUME load_or_create_conversation(t) PROVE Moves(t)
  <2> DEFINE done == [turn[t] EXCEPT !.pc = "done"]
             r(c, w) == [turn[t] EXCEPT !.pc = "user", !.conv = c, !.ws = w]
  <2>1. turn' = [turn EXCEPT ![t] = done] \/ \E c, w : turn' = [turn EXCEPT ![t] = r(c, w)]
    BY <1>3 DEF load_or_create_conversation, Open, Only
  <2>2. IsTurn(done) /\ done.artifacts = turn[t].artifacts
    BY <1>0 DEF IsTurn, TurnFields
  <2>3. ASSUME NEW c, NEW w PROVE IsTurn(r(c, w)) /\ r(c, w).artifacts = turn[t].artifacts
    BY <1>0 DEF IsTurn, TurnFields
  <2> HIDE DEF r, done
  <2> QED BY <2>1, <2>2, <2>3 DEF Moves
<1>4. ASSUME CountRow(t) PROVE Moves(t)
  <2> DEFINE r == [turn[t] EXCEPT !.slot = {next_position(turn[t].conv)}]
  <2>1. turn' = [turn EXCEPT ![t] = r]  BY <1>0, <1>4 DEF CountRow
  <2>2. IsTurn(r) /\ r.artifacts \in {turn[t].artifacts, <<>>}
    BY <1>0, <1>1 DEF IsTurn, TurnFields
  <2> HIDE DEF r
  <2> QED BY <2>1, <2>2 DEF Moves
<1>5. ASSUME add_message(t) PROVE Moves(t)
  <2> DEFINE done == [IdleTurn EXCEPT !.pc = "done"]
  <2>0. IsTurn(done) /\ done.artifacts = <<>>  BY <1>1 DEF IsTurn, TurnFields
  <2>1. CASE turn' = [turn EXCEPT ![t] = done]
    <3> HIDE DEF done
    <3> QED BY <2>0, <2>1 DEF Moves
  <2>2. CASE turn' # [turn EXCEPT ![t] = done]
    <3> DEFINE next == [After(t) EXCEPT !.slot = {}, !.wrote = turn[t].wrote + 1]
               r == [next EXCEPT !.before = Len(next.artifacts)]
    <3>1. turn' = [turn EXCEPT ![t] = r]  BY <1>5, <2>2 DEF add_message, Only
    <3>2. IsTurn(After(t)) /\ After(t).artifacts \in {turn[t].artifacts, <<>>}
      <4>1. \/ \E pc : After(t) = [turn[t] EXCEPT !.pc = pc]
            \/ \E pc, rest : After(t) = [turn[t] EXCEPT !.asked = rest, !.pc = pc]
            \/ After(t) = done
        BY DEF After
      <4>2. ASSUME NEW pc, NEW rest, NEW a,
                   a = [turn[t] EXCEPT !.pc = pc] \/ a = [turn[t] EXCEPT !.asked = rest, !.pc = pc]
            PROVE  IsTurn(a) /\ a.artifacts = turn[t].artifacts
        <5>1. CASE a = [turn[t] EXCEPT !.pc = pc]  BY <1>0, <5>1 DEF IsTurn, TurnFields
        <5>2. CASE a = [turn[t] EXCEPT !.asked = rest, !.pc = pc]
          BY <1>0, <5>2 DEF IsTurn, TurnFields
        <5> QED BY <4>2, <5>1, <5>2
      <4> HIDE DEF done
      <4> QED BY <2>0, <4>1, <4>2
    <3>3. IsTurn(next) /\ next.artifacts = After(t).artifacts
      BY <3>2 DEF IsTurn, TurnFields
    <3> HIDE DEF next
    <3>4. IsTurn(r) /\ r.artifacts = next.artifacts  BY <3>3 DEF IsTurn, TurnFields
    <3> HIDE DEF r
    <3> QED BY <3>1, <3>2, <3>3, <3>4 DEF Moves
  <2> QED BY <2>1, <2>2
<1>6. ASSUME ReadHistory(t) PROVE Moves(t)
  <2> DEFINE r(e, h) == [turn[t] EXCEPT !.pc = "complete", !.earlier = e, !.history = h]
  <2>1. \E e, h : turn' = [turn EXCEPT ![t] = r(e, h)]  BY <1>6 DEF ReadHistory, Only
  <2>2. ASSUME NEW e, NEW h PROVE IsTurn(r(e, h)) /\ r(e, h).artifacts = turn[t].artifacts
    BY <1>0 DEF IsTurn, TurnFields
  <2> HIDE DEF r
  <2> QED BY <2>1, <2>2 DEF Moves
<1>7. ASSUME NEW n \in Nat, ModelReplies(t, n) PROVE Moves(t)
  <2> DEFINE told == [turn[t] EXCEPT !.history = <<>>, !.earlier = {}]
  <2>1. IsTurn(told) /\ told.artifacts = turn[t].artifacts
    BY <1>0 DEF IsTurn, TurnFields
  <2> DEFINE answer == [told EXCEPT !.pc = "answer"]
             request == [told EXCEPT !.pc = "request", !.round = turn[t].round + 1,
                                     !.asked = [i \in 1..n |-> <<t, turn[t].round + 1, i>>]]
  <2>2. turn' = [turn EXCEPT ![t] = answer] \/ turn' = [turn EXCEPT ![t] = request]
    BY <1>7 DEF ModelReplies, Only
  <2> HIDE DEF told
  <2>3. IsTurn(answer) /\ IsTurn(request) /\ answer.artifacts = told.artifacts /\ request.artifacts = told.artifacts
    BY <2>1 DEF IsTurn, TurnFields
  <2> HIDE DEF answer, request
  <2> QED BY <2>1, <2>2, <2>3 DEF Moves
<1>8. ASSUME Conclude(t) PROVE Moves(t)
  <2> DEFINE r == [turn[t] EXCEPT !.pc = "answer"]
  <2>1. turn' = [turn EXCEPT ![t] = r]  BY <1>0, <1>8 DEF Conclude
  <2>2. IsTurn(r) /\ r.artifacts \in {turn[t].artifacts, <<>>}
    BY <1>0, <1>1 DEF IsTurn, TurnFields
  <2> HIDE DEF r
  <2> QED BY <2>1, <2>2 DEF Moves
<1>9. ASSUME TurnEnds(t) PROVE Moves(t)
  <2> DEFINE r == [IdleTurn EXCEPT !.pc = "done"]
  <2>1. turn' = [turn EXCEPT ![t] = r]  BY <1>0, <1>9 DEF TurnEnds, Only
  <2>2. IsTurn(r) /\ r.artifacts \in {turn[t].artifacts, <<>>}
    BY <1>0, <1>1 DEF IsTurn, TurnFields
  <2> HIDE DEF r
  <2> QED BY <2>1, <2>2 DEF Moves
<1>10. ASSUME RunTool(t, name) PROVE Acting'
    BY <1>10, ExecuteYields, YieldsAct DEF RunTool
<1> QED BY <1>2, <1>3, <1>4, <1>5, <1>6, <1>7, <1>8, <1>9, <1>10, MovesAct

Distinct(s, n, S) == s \in [1..n -> S] /\ \A i, j \in 1..n : s[i] = s[j] => i = j

(* What is recommended is supported, named once, and something.            *)
LEMMA RankedSoundly ==
    ASSUME NEW candidates, IsFiniteSet(candidates), candidates # {}, NEW D, NEW suggested \in SeqOf(D, 2)
    PROVE  LET ranking == rank_targets(suggested, candidates)
           IN /\ ranking # <<>> /\ Range(ranking) \subseteq candidates
              /\ Cardinality(Range(ranking)) = Len(ranking)
<1> DEFINE K == {i \in DOMAIN suggested : /\ suggested[i] \in candidates
                                          /\ \A j \in 1..(i - 1) : suggested[j] # suggested[i]}
           kept == InOrder(K, <)
           k == Cardinality(K)
           ranked == llm_rank(suggested, candidates)
           listed == IF ranked = <<>> THEN deterministic_ranking(candidates) ELSE ranked
           ranking == rank_targets(suggested, candidates)
<1>1. PICK m \in 0..2 : suggested \in [1..m -> D]  BY DEF SeqOf
<1>2. K \in SUBSET Nat /\ IsFiniteSet(K)
  <2>1. K \subseteq 1..m /\ 1..m \subseteq Nat  BY <1>1
  <2>2. IsFiniteSet(1..m)  BY FS_Interval
  <2> HIDE DEF K
  <2> QED BY <2>1, <2>2, FS_Subset
<1>3. ASSUME NEW i \in K, NEW j \in K, suggested[i] = suggested[j] PROVE i = j
  <2>1. i \in 1..m /\ j \in 1..m  BY <1>1
  <2>2. ~(i < j) /\ ~(j < i)  BY <1>1, <1>3, <2>1
  <2> QED BY <2>1, <2>2
<1>4. \A i \in K : suggested[i] \in candidates  OBVIOUS
<1>5. ranked = [n \in DOMAIN kept |-> suggested[kept[n]]]  BY DEF llm_rank
<1> HIDE DEF K
<1>6. k \in Nat /\ kept \in [1..k -> K] /\ \A i, j \in 1..k : kept[i] = kept[j] => i = j
    BY <1>2, IndicesInOrder
<1> HIDE DEF kept, k, ranked
<1>7. Distinct(ranked, k, candidates)  BY <1>3, <1>4, <1>5, <1>6 DEF Distinct
<1>8. \E n \in Nat : n # 0 /\ Distinct(listed, n, candidates)
  <2>1. CASE ranked = <<>>
    <3>1. /\ Distinct(deterministic_ranking(candidates), Cardinality(candidates), candidates)
          /\ Cardinality(candidates) \in Nat
      BY SetInSequence DEF deterministic_ranking, Distinct
    <3>2. Cardinality(candidates) # 0  BY FS_EmptySet
    <3> QED BY <2>1, <3>1, <3>2
  <2>2. CASE ranked # <<>>
    <3>1. k # 0
      <4> SUFFICES ASSUME k = 0 PROVE FALSE  OBVIOUS
      <4>1. ranked \in Seq(candidates) /\ Len(ranked) = 0  BY <1>7, SeqDef DEF Distinct
      <4> QED BY <2>2, <4>1
    <3> QED BY <1>6, <1>7, <2>2, <3>1
  <2> QED BY <2>1, <2>2
<1>9. PICK n \in Nat : n # 0 /\ Distinct(listed, n, candidates)  BY <1>8
<1>10. ranking = SubSeq(listed, 1, IF Len(listed) < MaxRanked THEN Len(listed) ELSE MaxRanked)
    BY DEF rank_targets, ranked
<1> HIDE DEF listed, ranking
<1>11. listed \in Seq(candidates) /\ Len(listed) = n  BY <1>9, SeqDef DEF Distinct
<1> DEFINE l == IF Len(listed) < MaxRanked THEN Len(listed) ELSE MaxRanked
<1>12. l \in 1..n  BY <1>9, <1>11, AssistantAssumption
<1> HIDE DEF l
<1>13. ranking = SubSeq(listed, 1, l)  BY <1>10 DEF l
<1>14. ranking \in Seq(candidates) /\ Len(ranking) = l /\ \A i \in 1..l : ranking[i] = listed[i]
    BY <1>11, <1>12, <1>13
<1>15. Distinct(ranking, l, candidates) /\ l \in Nat
  <2>1. DOMAIN ranking = 1..l /\ ranking \in [1..l -> candidates] /\ l \in Nat
    BY <1>12, <1>14
  <2>2. ASSUME NEW i \in 1..l, NEW j \in 1..l, ranking[i] = ranking[j] PROVE i = j
    <3>1. i \in 1..n /\ j \in 1..n /\ listed[i] = listed[j]  BY <1>12, <1>14, <2>2
    <3> QED BY <1>9, <3>1 DEF Distinct
  <2> QED BY <2>1, <2>2 DEF Distinct
<1>16. Cardinality(Range(ranking)) = l  BY <1>15, Enumerated DEF Distinct
<1>17. ranking # <<>>  BY <1>12, <1>14
<1>18. Range(ranking) \subseteq candidates  BY <1>15 DEF Range, Distinct
<1> QED BY <1>14, <1>16, <1>17, <1>18 DEF ranking

(* The meter counts every request it lets through.                         *)
Metering ==
    /\ used \in Nat /\ admitted \in Nat /\ admitted <= used /\ admitted <= HourlyQuota
    /\ AdviceSound

LEMMA Consumed ==
    ASSUME Metering, NEW answers \in BOOLEAN, consume(answers)
    PROVE  used' \in Nat /\ admitted' \in Nat /\ admitted' <= used' /\ admitted' <= HourlyQuota
<1>1. used \in Nat /\ admitted \in Nat /\ admitted <= used /\ admitted <= HourlyQuota /\ HourlyQuota \in Nat
    BY AssistantAssumption DEF Metering
<1>2. CASE answers /\ used + 1 <= HourlyQuota  BY <1>1, <1>2 DEF consume, Within
<1>3. CASE answers /\ ~(used + 1 <= HourlyQuota)  BY <1>1, <1>3 DEF consume, Within
<1>4. CASE ~answers  BY <1>1, <1>4 DEF consume
<1> QED BY <1>2, <1>3, <1>4

LEMMA MeteringSteps ==
    ASSUME Metering,
           \/ \E t : \E answers \in BOOLEAN : stream_chat(t, answers)
           \/ \E answers \in BOOLEAN : summarize_file(answers)
           \/ \E source \in DOMAIN Targets, suggested \in SeqOf(DOMAIN Targets, 2), answers \in BOOLEAN :
                  recommend(source, suggested, answers)
           \/ HourRolls
    PROVE  Metering'
<1>1. ASSUME NEW t, NEW answers \in BOOLEAN, stream_chat(t, answers) PROVE Metering'
  <2>1. consume(answers) \/ UNCHANGED <<used, admitted>>  BY <1>1 DEF stream_chat
  <2>2. advice' = advice  BY <1>1 DEF stream_chat
  <2> QED BY <2>1, <2>2, Consumed DEF Metering, AdviceSound
<1>2. ASSUME NEW answers \in BOOLEAN, summarize_file(answers) PROVE Metering'
    BY <1>2, Consumed DEF summarize_file, Metering, AdviceSound
<1>3. ASSUME NEW source \in DOMAIN Targets, NEW suggested \in SeqOf(DOMAIN Targets, 2), NEW answers \in BOOLEAN,
             recommend(source, suggested, answers)
      PROVE  Metering'
  <2>1. consume(answers)  BY <1>3 DEF recommend
  <2>2. CASE advice' = advice  BY <2>1, <2>2, Consumed DEF Metering, AdviceSound
  <2>3. CASE advice' # advice
    <3> DEFINE ranking == rank_targets(suggested, Targets[source])
    <3>1. advice' = <<source, ranking>> /\ Targets[source] # {}
      BY <1>3, <2>3 DEF recommend
    <3>2. IsFiniteSet(Targets[source])  BY DriveAssumption
    <3>3. ranking # <<>> /\ Range(ranking) \subseteq Targets[source] /\ Cardinality(Range(ranking)) = Len(ranking)
      BY <3>1, <3>2, RankedSoundly
    <3> HIDE DEF ranking
    <3>4. advice'[1] = source /\ advice'[2] = ranking  BY <3>1
    <3>5. AdviceSound'  BY <3>3, <3>4 DEF AdviceSound
    <3> QED BY <2>1, <3>5, Consumed DEF Metering
  <2> QED BY <2>2, <2>3
<1>4. ASSUME HourRolls PROVE Metering'
    BY <1>4, AssistantAssumption DEF HourRolls, Metering, AdviceSound
<1> QED BY <1>1, <1>2, <1>3, <1>4

LEMMA BoundedInit == Init => Acting /\ Metering
<1> SUFFICES ASSUME Init PROVE Acting /\ Metering  OBVIOUS
<1>1. PICK s \in Scenarios : InitAssistant(s.transcript)  BY DEF Init
<1>2. turn = [t \in Turns |-> IdleTurn] /\ used = 0 /\ admitted = 0 /\ advice = <<>>
    BY <1>1 DEF InitAssistant
<1>3. IsTurn(IdleTurn) /\ IdleTurn.artifacts = <<>>  BY DEF IsTurn, TurnFields, IdleTurn
<1>4. Acting  BY <1>2, <1>3, SoberEmpty DEF Acting
<1>5. Metering  BY <1>2, AssistantAssumption DEF Metering, AdviceSound
<1> QED BY <1>4, <1>5

LEMMA BoundedStep == Acting /\ Metering /\ [Next]_vars => (Acting /\ Metering)'
<1> SUFFICES ASSUME Acting, Metering, [Next]_vars PROVE Acting' /\ Metering'  OBVIOUS
<1>0. Answers \subseteq BOOLEAN  BY DEF Answers
<1>1. ASSUME turn' = turn PROVE Acting'  BY <1>1 DEF Acting
<1>2. ASSUME UNCHANGED <<used, admitted, advice>> PROVE Metering'
    BY <1>2 DEF Metering, AdviceSound
<1>3. CASE TurnNext
  <2>1. PICK t \in Turns :
            \/ \E answers \in Answers : stream_chat(t, answers)
            \/ load_or_create_conversation(t) \/ CountRow(t) \/ add_message(t) \/ ReadHistory(t)
            \/ \E n \in Nat : ModelReplies(t, n)
            \/ \E name : RunTool(t, name)
            \/ Conclude(t) \/ TurnEnds(t)
    <3>1. 1..MaxCalls \subseteq Nat /\ 0 \in Nat  OBVIOUS
    <3> QED BY <1>3, <3>1 DEF TurnNext
  <2>2. Acting'  BY <1>0, <2>1, TurnActs
  <2>3. CASE \E answers \in Answers : stream_chat(t, answers)
    BY <1>0, <2>2, <2>3, MeteringSteps
  <2>4. CASE \/ load_or_create_conversation(t) \/ CountRow(t) \/ add_message(t) \/ ReadHistory(t)
             \/ (\E n \in Nat : ModelReplies(t, n))
             \/ (\E name : RunTool(t, name))
             \/ Conclude(t) \/ TurnEnds(t)
    <3>1. NoMeter
      BY <2>4 DEF load_or_create_conversation, CountRow, add_message, ReadHistory, ModelReplies, RunTool,
                  Conclude, TurnEnds
    <3> QED BY <1>2, <2>2, <3>1 DEF NoMeter
  <2> QED BY <2>1, <2>3, <2>4
<1>4. CASE ConversationNext \/ ClickNext
  <2>1. UNCHANGED turn /\ NoMeter
    BY <1>4 DEF ConversationNext, ClickNext, delete_conversation, create_conversation, truncate_from_message,
                resolve_deletion, ClickActs, update_message_meta, ClickLost
  <2> QED BY <1>1, <1>2, <2>1 DEF NoMeter
<1>5. CASE AskNext
  <2>1. turn' = turn  BY <1>5 DEF AskNext, summarize_file, recommend, HourRolls
  <2>2. \/ \E answers \in BOOLEAN : summarize_file(answers)
        \/ \E source \in DOMAIN Targets, suggested \in SeqOf(DOMAIN Targets, 2), answers \in BOOLEAN :
               recommend(source, suggested, answers)
        \/ HourRolls
    BY <1>0, <1>5 DEF AskNext
  <2> QED BY <1>1, <2>1, <2>2, MeteringSteps
<1>6. CASE McpNext \/ TelemetryNext \/ OwnerNext \/ LlmNext \/ EventNext \/ UNCHANGED vars
  <2>1. UNCHANGED <<turn, chatVars>>
    BY <1>6 DEF McpNext, TelemetryNext, OwnerNext, LlmNext, EventNext, vars,
                BesideMcp, BesideTelemetry, BesideLlm, BesideEvents
  <2> QED BY <1>1, <1>2, <2>1 DEF chatVars
<1> QED BY <1>3, <1>4, <1>5, <1>6 DEF Next

----------------------------------------------------------------------------
(* What an application does to the account                                 *)

SameDomains ==
    /\ DOMAIN place' = DOMAIN place /\ DOMAIN parent' = DOMAIN parent
    /\ DOMAIN ws' = DOMAIN ws /\ DOMAIN run' = DOMAIN run

LEMMA ServicesKeepDomains ==
    /\ NoChange => SameDomains
    /\ \A f, p : move_file(f, p) => SameDomains
    /\ \A d, p : create_folder(d, p) => SameDomains
    /\ \A j, origin : convert_library_file(j, origin) => SameDomains
    /\ \A w, state : SetWorkspace(w, state) => SameDomains
    /\ \A e, state : SetRun(e, state) => SameDomains
<1>1. NoChange => SameDomains  BY DEF NoChange, driveVars, SameDomains
<1>2. ASSUME NEW x, NEW y PROVE /\ move_file(x, y) => SameDomains
                                /\ create_folder(x, y) => SameDomains
                                /\ convert_library_file(x, y) => SameDomains
                                /\ SetWorkspace(x, y) => SameDomains
                                /\ SetRun(x, y) => SameDomains
    BY DEF move_file, create_folder, convert_library_file, SetWorkspace, SetRun, SameDomains
<1> QED BY <1>1, <1>2

LEMMA AssistantKeepsDomains == ASSUME NEW t, NEW name, execute(t, name) PROVE SameDomains
<1>1. ASSUME NEW produced, Report(t, produced) PROVE SameDomains
    BY <1>1, ServicesKeepDomains DEF Report
<1>2. Plain(t) => SameDomains  BY <1>1 DEF Plain
<1>3. tool_create_folder(t) \/ tool_move_file(t) => SameDomains
    BY <1>2, ServicesKeepDomains DEF tool_create_folder, tool_move_file
<1>4. tool_start_conversion(t) => SameDomains
    BY <1>2, ServicesKeepDomains DEF tool_start_conversion
<1>5. tool_list_files(t) \/ tool_get_file_info(t) \/ tool_delete_file(t) \/ document_text(t)
      \/ tool_get_conversion_status(t) \/ tool_list_recent_conversions(t) => SameDomains
    BY <1>1 DEF tool_list_files, tool_get_file_info, tool_delete_file, document_text, tool_get_conversion_status,
                tool_list_recent_conversions
<1>6. workspace_dispatch(t, name) => SameDomains
  <2>1. tool_list_workspaces(t) \/ tool_get_workspace(t) \/ tool_save_workspace_environment(t) => SameDomains
    BY <1>1, <1>2 DEF tool_list_workspaces, tool_get_workspace, tool_save_workspace_environment, SomeWorkspace
  <2>2. tool_create_workspace(t) => SameDomains
    BY <1>2, ServicesKeepDomains DEF tool_create_workspace, create_workspace
  <2>3. ASSUME NEW w, NEW produced, ensure_runtime(t, w, produced) PROVE SameDomains
    BY <1>2, <2>3, ServicesKeepDomains DEF ensure_runtime, start_runtime
  <2>4. tool_list_workspace_files(t) \/ tool_read_workspace_file(t) \/ tool_write_workspace_file(t) => SameDomains
    BY <1>2, <2>3 DEF tool_list_workspace_files, tool_read_workspace_file, tool_write_workspace_file, SomeWorkspace
  <2>5. tool_run_python(t) => SameDomains
    BY <1>2, ServicesKeepDomains DEF tool_run_python, SomeWorkspace, submit
  <2>6. tool_cancel_execution(t) \/ tool_get_execution(t) => SameDomains
    BY <1>2, ServicesKeepDomains DEF tool_cancel_execution, tool_get_execution, cancel
  <2> QED BY <2>1, <2>2, <2>4, <2>5, <2>6 DEF workspace_dispatch
<1> QED BY <1>2, <1>3, <1>4, <1>5, <1>6
       DEF execute, dispatch, tool_list_folders, tool_list_supported_targets, tool_get_account_overview,
           tool_read_file_text, tool_summarize_file

CallFields == {"pc", "tool", "confined", "bound", "reach", "files", "dest", "outcome", "stale"}
IsCall(r) == DOMAIN r = CallFields /\ r = [x \in CallFields |-> r[x]]

Shaped == /\ DOMAIN place = Files /\ DOMAIN parent = Folders /\ DOMAIN ws = Workspaces /\ DOMAIN run = Executions
          /\ call = [c \in Calls |-> call[c]] /\ \A c \in Calls : IsCall(call[c])

Settled(c, outcome, files, dest) ==
    [call[c] EXCEPT !.pc = "record", !.outcome = outcome, !.files = @ \cup files, !.dest = dest]

LEMMA Classified ==
    ASSUME Shaped, NEW c \in Calls, NEW outcome, NEW files, NEW dest, classify(c, outcome, files, dest)
    PROVE  /\ call' = [call EXCEPT ![c] = Settled(c, outcome, files, dest)]
           /\ IsCall(Settled(c, outcome, files, dest)) /\ Settled(c, outcome, files, dest).outcome = outcome
<1>1. IsCall(call[c]) /\ call = [d \in Calls |-> call[d]]  BY DEF Shaped
<1>2. IsCall(Settled(c, outcome, files, dest)) /\ Settled(c, outcome, files, dest).outcome = outcome
    BY <1>1 DEF IsCall, CallFields, Settled
<1>3. call' = [call EXCEPT ![c] = Settled(c, outcome, files, dest)]
    BY <1>1 DEF classify, Settled
<1> QED BY <1>2, <1>3

Succeeds(c) == call'[c].outcome = "SUCCESS"

LEMMA DoneSucceeds ==
    ASSUME Shaped, NEW c \in Calls, NEW files, NEW dest, Done(c, files, dest)
    PROVE  Succeeds(c)
<1>1. /\ call' = [call EXCEPT ![c] = Settled(c, "SUCCESS", files, dest)]
      /\ Settled(c, "SUCCESS", files, dest).outcome = "SUCCESS"
    BY Classified DEF Done
<1>2. call'[c] = Settled(c, "SUCCESS", files, dest)  BY <1>1 DEF Shaped
<1> QED BY <1>1, <1>2 DEF Succeeds

(* Nothing that was there is removed, moved or stopped.                    *)
NothingLost ==
    /\ \A f \in Files : get_file(f) => place'[f] = place[f]
    /\ \A d \in Folders : get_folder(d) => parent'[d] = parent[d]
    /\ \A e \in Executions : run[e] = "active" => run'[e] = "active"
    /\ \A w \in Workspaces : Usable(w) => ws'[w] = ws[w]

LEMMA NoChangeLoses == NoChange => NothingLost /\ SameDomains
BY DEF NoChange, driveVars, NothingLost, SameDomains

LEMMA AnswersChangeNothing ==
    ASSUME NEW c, (\E files : Answer(c, files)) \/ Refuse(c) PROVE NoChange
BY DEF Answer, Refuse

LEMMA ReadingTools ==
    ASSUME NEW c,
           \/ mcp_get_supported_conversions(c) \/ mcp_list_files(c) \/ mcp_get_file(c) \/ mcp_download_file(c)
           \/ mcp_list_folders(c) \/ mcp_get_conversion_status(c) \/ mcp_get_conversion_history(c)
           \/ mcp_get_credits(c) \/ mcp_list_workspaces(c) \/ mcp_get_workspace(c)
           \/ mcp_list_workspace_files(c) \/ mcp_read_workspace_file(c) \/ mcp_write_workspace_file(c)
           \/ mcp_get_execution(c) \/ mcp_list_artifacts(c) \/ mcp_save_workspace_environment(c)
    PROVE  NoChange
<1>1. mcp_get_supported_conversions(c) \/ mcp_get_file(c) \/ mcp_get_conversion_status(c)
      \/ mcp_get_conversion_history(c) \/ mcp_get_credits(c) \/ mcp_list_workspaces(c) \/ mcp_get_workspace(c)
      \/ mcp_list_workspace_files(c) \/ mcp_read_workspace_file(c) \/ mcp_write_workspace_file(c)
      \/ mcp_get_execution(c) \/ mcp_list_artifacts(c) \/ mcp_save_workspace_environment(c) => NoChange
    BY AnswersChangeNothing
       DEF mcp_get_supported_conversions, mcp_get_file, mcp_get_conversion_status, mcp_get_conversion_history,
           mcp_get_credits, mcp_list_workspaces, mcp_get_workspace, mcp_list_workspace_files,
           mcp_read_workspace_file, mcp_write_workspace_file, mcp_get_execution, mcp_list_artifacts,
           mcp_save_workspace_environment, failures_as_values
<1>2. mcp_list_files(c) => NoChange
    BY AnswersChangeNothing DEF mcp_list_files, OutOfReach
<1>3. mcp_list_folders(c) => NoChange
    BY AnswersChangeNothing DEF mcp_list_folders, OutOfReach
<1>4. mcp_download_file(c) => NoChange  BY AnswersChangeNothing DEF mcp_download_file
<1> QED BY <1>1, <1>2, <1>3, <1>4

(* What makes something new.                                               *)
LEMMA MakingTools ==
    ASSUME Shaped, NEW c \in Calls,
           mcp_create_folder(c) \/ mcp_convert_file(c) \/ mcp_save_file(c) \/ mcp_upload_file(c)
           \/ mcp_create_workspace(c) \/ mcp_run_code(c)
    PROVE  NoChange \/ (Succeeds(c) /\ NothingLost /\ SameDomains)
<1>0. Fresh \notin Places  BY DriveAssumption DEF Places
<1>1. ASSUME NEW d, NEW p, parent[d] = Fresh, create_folder(d, p) PROVE NothingLost /\ SameDomains
  <2>1. SameDomains  BY <1>1, ServicesKeepDomains
  <2>2. \A e \in Folders : get_folder(e) => e # d  BY <1>0, <1>1 DEF get_folder
  <2>3. \A e \in Folders : get_folder(e) => parent'[e] = parent[e]
    BY <1>1, <2>2 DEF create_folder, Shaped
  <2> QED BY <1>1, <2>1, <2>3 DEF create_folder, NothingLost
<1>2. ASSUME NEW f, NEW p, place[f] = Fresh, add_file(f, p) PROVE NothingLost /\ SameDomains
  <2>1. SameDomains  BY <1>2, ServicesKeepDomains DEF add_file
  <2>2. \A g \in Files : get_file(g) => g # f  BY <1>0, <1>2 DEF get_file
  <2>3. \A g \in Files : get_file(g) => place'[g] = place[g]
    BY <1>2, <2>2 DEF add_file, move_file, Shaped
  <2> QED BY <1>2, <2>1, <2>3 DEF add_file, move_file, NothingLost
<1>3. ASSUME mcp_create_folder(c), ~NoChange PROVE Succeeds(c) /\ NothingLost /\ SameDomains
    BY <1>1, <1>3, AnswersChangeNothing, DoneSucceeds DEF mcp_create_folder, OutOfReach
<1>4. ASSUME mcp_convert_file(c), ~NoChange PROVE Succeeds(c) /\ NothingLost /\ SameDomains
  <2>1. PICK j : convert_library_file(j, "mcp") /\ Done(c, {}, {})
    BY <1>4, AnswersChangeNothing DEF mcp_convert_file
  <2> QED BY <2>1, DoneSucceeds, ServicesKeepDomains DEF convert_library_file, NothingLost
<1>5. ASSUME NEW p, Store(c, p), ~NoChange PROVE Succeeds(c) /\ NothingLost /\ SameDomains
    BY <1>2, <1>5, AnswersChangeNothing, DoneSucceeds DEF Store
<1>6. ASSUME mcp_save_file(c) \/ mcp_upload_file(c), ~NoChange PROVE Succeeds(c) /\ NothingLost /\ SameDomains
    BY <1>5, <1>6, AnswersChangeNothing DEF mcp_save_file, mcp_upload_file, OutOfReach
<1>7. ASSUME mcp_create_workspace(c), ~NoChange PROVE Succeeds(c) /\ NothingLost /\ SameDomains
  <2>1. PICK w \in Workspaces : ws[w] = "unused" /\ create_workspace(w) /\ Done(c, {}, {})
    BY <1>7, AnswersChangeNothing DEF mcp_create_workspace
  <2>2. \A v \in Workspaces : Usable(v) => ws'[v] = ws[v]
    BY <2>1 DEF create_workspace, SetWorkspace, Usable, Shaped
  <2> QED BY <2>1, <2>2, DoneSucceeds, ServicesKeepDomains DEF create_workspace, SetWorkspace, NothingLost
<1>8. ASSUME mcp_run_code(c), ~NoChange PROVE Succeeds(c) /\ NothingLost /\ SameDomains
  <2>1. PICK e \in Executions : run[e] = "unused" /\ submit(e) /\ Done(c, {}, {})
    BY <1>8, AnswersChangeNothing DEF mcp_run_code, failures_as_values
  <2>2. \A x \in Executions : run[x] = "active" => run'[x] = "active"
    BY <2>1 DEF submit, SetRun, Shaped
  <2> QED BY <2>1, <2>2, DoneSucceeds, ServicesKeepDomains DEF submit, SetRun, NothingLost
<1> QED BY <1>3, <1>4, <1>6, <1>7, <1>8

LEMMA RemovingTools ==
    ASSUME Shaped, NEW c \in Calls, mcp_delete_file(c) \/ mcp_cancel_execution(c)
    PROVE  NoChange \/ (Succeeds(c) /\ SameDomains)
BY AnswersChangeNothing, DoneSucceeds, ServicesKeepDomains
   DEF mcp_delete_file, mcp_cancel_execution, delete_file, cancel

(* What a tool is registered with.                                         *)
LEMMA Registration ==
    /\ \A name \in {"get_supported_conversions", "list_files", "get_file", "download_file", "list_folders",
                    "get_conversion_status", "get_conversion_history", "get_credits"} :
          Registered(name) = ToolAnnotations(READ, TRUE, FALSE)
    /\ \A name \in {"list_workspaces", "get_workspace", "list_workspace_files", "read_workspace_file",
                    "get_execution", "list_artifacts"} :
          Registered(name) = ToolAnnotations(WS_READ, TRUE, FALSE)
    /\ \A name \in {"create_folder", "save_file", "upload_file"} :
          Registered(name) = ToolAnnotations(WRITE, FALSE, FALSE)
    /\ \A name \in {"create_workspace", "write_workspace_file", "run_code", "save_workspace_environment"} :
          Registered(name) = ToolAnnotations(WS_EXECUTE, FALSE, FALSE)
    /\ Registered("convert_file") = ToolAnnotations(CONVERT, FALSE, FALSE)
    /\ Registered("delete_file") = ToolAnnotations(DELETE, FALSE, TRUE)
    /\ Registered("cancel_execution") = ToolAnnotations(WS_EXECUTE, FALSE, TRUE)
BY DEF Registered, DocumentTools, WorkspaceTools,
       register_get_supported_conversions, register_list_files, register_get_file, register_download_file,
       register_list_folders, register_create_folder, register_get_conversion_status,
       register_get_conversion_history, register_get_credits, register_convert_file, register_save_file,
       register_upload_file, register_delete_file, register_list_workspaces, register_get_workspace,
       register_create_workspace, register_list_workspace_files, register_read_workspace_file,
       register_write_workspace_file, register_run_code, register_get_execution, register_list_artifacts,
       register_cancel_execution, register_save_workspace_environment

(* What a registered tool promises, when it acts for the grant it was      *)
(* checked against.                                                        *)
Promised(c) ==
    LET hints == Registered(call[c].tool)
    IN /\ (\/ hints.read_only \/ call'[c].outcome # "SUCCESS"
           \/ grant.scopes \subseteq {READ, WS_READ}) => UNCHANGED driveVars
       /\ ~hints.destructive => NothingLost

LEMMA ToolKeepsPromise ==
    ASSUME Shaped, NEW c \in Calls, require(c), tool_body(c)
    PROVE  Promised(c) /\ SameDomains
<1> DEFINE hints == Registered(call[c].tool)
<1>1. ASSUME NoChange PROVE Promised(c) /\ SameDomains
    BY <1>1, NoChangeLoses DEF Promised, NoChange
<1>2. ASSUME NEW scope \in {CONVERT, WRITE, DELETE, WS_EXECUTE}, NEW destructive \in BOOLEAN,
             hints = ToolAnnotations(scope, FALSE, destructive),
             NoChange \/ (Succeeds(c) /\ SameDomains /\ (~destructive => NothingLost))
      PROVE  Promised(c) /\ SameDomains
  <2>1. hints.scope = scope /\ hints.read_only = FALSE /\ hints.destructive = destructive
    BY <1>2 DEF ToolAnnotations
  <2>2. scope \notin {READ, WS_READ}
    BY <1>2 DEF READ, CONVERT, WRITE, DELETE, WS_READ, WS_EXECUTE
  <2>3. ~(grant.scopes \subseteq {READ, WS_READ})  BY <2>1, <2>2 DEF require
  <2> HIDE DEF hints
  <2>4. CASE Succeeds(c) /\ SameDomains /\ (~destructive => NothingLost)
    BY <2>1, <2>3, <2>4 DEF Promised, Succeeds, hints
  <2> QED BY <1>1, <1>2, <2>4
<1>3. CASE \/ call[c].tool = "create_folder" /\ mcp_create_folder(c)
           \/ call[c].tool = "convert_file" /\ mcp_convert_file(c)
           \/ call[c].tool = "save_file" /\ mcp_save_file(c)
           \/ call[c].tool = "upload_file" /\ mcp_upload_file(c)
           \/ call[c].tool = "create_workspace" /\ mcp_create_workspace(c)
           \/ call[c].tool = "run_code" /\ mcp_run_code(c)
  <2>1. NoChange \/ (Succeeds(c) /\ NothingLost /\ SameDomains)  BY <1>3, MakingTools
  <2>2. \E scope \in {CONVERT, WRITE, DELETE, WS_EXECUTE} : hints = ToolAnnotations(scope, FALSE, FALSE)
    BY <1>3, Registration
  <2> HIDE DEF hints
  <2> QED BY <1>2, <2>1, <2>2
<1>4. CASE \/ call[c].tool = "delete_file" /\ mcp_delete_file(c)
           \/ call[c].tool = "cancel_execution" /\ mcp_cancel_execution(c)
  <2>1. NoChange \/ (Succeeds(c) /\ SameDomains)  BY <1>4, RemovingTools
  <2>2. \E scope \in {CONVERT, WRITE, DELETE, WS_EXECUTE} : hints = ToolAnnotations(scope, FALSE, TRUE)
    BY <1>4, Registration
  <2> HIDE DEF hints
  <2> QED BY <1>2, <2>1, <2>2
<1>5. CASE \/ mcp_get_supported_conversions(c) \/ mcp_list_files(c) \/ mcp_get_file(c) \/ mcp_download_file(c)
           \/ mcp_list_folders(c) \/ mcp_get_conversion_status(c) \/ mcp_get_conversion_history(c)
           \/ mcp_get_credits(c) \/ mcp_list_workspaces(c) \/ mcp_get_workspace(c)
           \/ mcp_list_workspace_files(c) \/ mcp_read_workspace_file(c) \/ mcp_write_workspace_file(c)
           \/ mcp_get_execution(c) \/ mcp_list_artifacts(c) \/ mcp_save_workspace_environment(c)
    BY <1>1, <1>5, ReadingTools
<1> QED BY <1>3, <1>4, <1>5 DEF tool_body

(* Every tool ends in an answer, a success or a refusal.                   *)
Classifies(c) == \E outcome, files, dest : classify(c, outcome, files, dest)

LEMMA AnswersClassify ==
    ASSUME NEW c
    PROVE  /\ Refuse(c) => Classifies(c)
           /\ OutOfReach(c) => Classifies(c)
           /\ failures_as_values(c) => Classifies(c)
           /\ \A files : Answer(c, files) => Classifies(c)
           /\ \A files, dest : Done(c, files, dest) => Classifies(c)
<1>1. Refuse(c) => Classifies(c)  BY DEF Refuse, Classifies
<1>2. ASSUME NEW files, NEW dest, Done(c, files, dest) PROVE Classifies(c)
    BY <1>2 DEF Done, Classifies
<1> QED BY <1>1, <1>2 DEF OutOfReach, failures_as_values, Answer

LEMMA ToolClassifies == ASSUME NEW c, tool_body(c) PROVE Classifies(c)
<1>1. CASE mcp_get_supported_conversions(c) \/ mcp_get_file(c) \/ mcp_get_conversion_status(c)
           \/ mcp_get_conversion_history(c) \/ mcp_get_credits(c) \/ mcp_list_workspaces(c) \/ mcp_get_workspace(c)
           \/ mcp_list_workspace_files(c) \/ mcp_read_workspace_file(c) \/ mcp_write_workspace_file(c)
           \/ mcp_get_execution(c) \/ mcp_list_artifacts(c) \/ mcp_save_workspace_environment(c)
    BY <1>1, AnswersClassify
       DEF mcp_get_supported_conversions, mcp_get_file, mcp_get_conversion_status, mcp_get_conversion_history,
           mcp_get_credits, mcp_list_workspaces, mcp_get_workspace, mcp_list_workspace_files,
           mcp_read_workspace_file, mcp_write_workspace_file, mcp_get_execution, mcp_list_artifacts,
           mcp_save_workspace_environment
<1>2. CASE mcp_list_files(c)  BY <1>2, AnswersClassify DEF mcp_list_files
<1>3. CASE mcp_list_folders(c)  BY <1>3, AnswersClassify DEF mcp_list_folders
<1>4. CASE mcp_create_folder(c)  BY <1>4, AnswersClassify DEF mcp_create_folder
<1>5. CASE mcp_convert_file(c) \/ mcp_delete_file(c)
    BY <1>5, AnswersClassify DEF mcp_convert_file, mcp_delete_file
<1>6. CASE mcp_save_file(c) \/ mcp_upload_file(c)
    BY <1>6, AnswersClassify DEF mcp_save_file, mcp_upload_file, Store
<1>7. CASE mcp_create_workspace(c) \/ mcp_run_code(c) \/ mcp_cancel_execution(c)
    BY <1>7, AnswersClassify DEF mcp_create_workspace, mcp_run_code, mcp_cancel_execution
<1>8. CASE mcp_download_file(c)
  <2>1. ASSUME NEW outcome, classify(c, outcome, {}, {}) PROVE Classifies(c)
    BY <2>1 DEF Classifies
  <2>2. ASSUME NEW f, NEW status, page_error(c, f, status) PROVE Classifies(c)
    BY <2>1, <2>2 DEF page_error
  <2>3. ASSUME NEW f, NEW chunk, NEW data, turn_page(c, f, chunk, data) PROVE Classifies(c)
    BY <2>1, <2>2, <2>3 DEF turn_page
  <2> QED BY <1>8, <2>2, <2>3, AnswersClassify DEF mcp_download_file
<1> QED BY <1>1, <1>2, <1>3, <1>4, <1>5, <1>6, <1>7, <1>8 DEF tool_body

(* A call that has passed the gate has the scope of its tool.              *)
Guarded ==
    /\ Shaped /\ grant \in Grant
    /\ \A c \in Calls : call[c].pc \in {"own", "act"} => require(c)

GuardedMove ==
    Guarded' /\ \A c \in Calls : call[c].pc = "act" /\ call'[c].pc = "record" => Promised(c)

LEMMA GuardedInit == Init => Guarded
<1> SUFFICES ASSUME Init PROVE Guarded  OBVIOUS
<1>1. PICK s \in Scenarios : InitDrive(s.files, s.folders, s.workspaces) /\ InitMcp(s.grant, s.sizes)
    BY DEF Init
<1>2. IsCall(IdleCall) /\ IdleCall.pc = "idle"  BY DEF IsCall, CallFields, IdleCall
<1>3. call = [c \in Calls |-> IdleCall] /\ grant \in Grant
    BY <1>1, ScenarioAssumption DEF InitMcp
<1>4. Shaped  BY <1>1, <1>2, <1>3 DEF InitDrive, Shaped
<1> QED BY <1>2, <1>3, <1>4 DEF Guarded

(* A step that changes no call but in passing.                             *)
LEMMA InPassing ==
    ASSUME Guarded, SameDomains, grant' \in Grant, grant'.scopes = grant.scopes, Noticed \/ call' = call
    PROVE  GuardedMove
<1>1. ASSUME NEW c \in Calls
      PROVE  IsCall(call'[c]) /\ call'[c].pc = call[c].pc /\ call'[c].tool = call[c].tool
  <2>0. IsCall(call[c])  BY DEF Guarded, Shaped
  <2>1. CASE call' = call  BY <2>0, <2>1
  <2>2. CASE Noticed
    <3> DEFINE stale == call[c].stale \/ (call[c].pc # "idle" /\ <<place, parent>>' # <<place, parent>>)
               r == [call[c] EXCEPT !.stale = stale]
    <3>1. call'[c] = r  BY <2>2 DEF Noticed
    <3> HIDE DEF stale
    <3>2. IsCall(r) /\ r.pc = call[c].pc /\ r.tool = call[c].tool
      BY <2>0 DEF IsCall, CallFields
    <3> HIDE DEF r
    <3> QED BY <3>1, <3>2
  <2> QED BY <2>1, <2>2
<1>2. call' = [c \in Calls |-> call'[c]]  BY DEF Noticed, Guarded, Shaped
<1>3. Shaped'  BY <1>1, <1>2 DEF Guarded, Shaped, SameDomains
<1>4. \A c \in Calls : call'[c].pc \in {"own", "act"} => require(c)'
    BY <1>1 DEF Guarded, require
<1> QED BY <1>1, <1>3, <1>4 DEF GuardedMove, Guarded

LEMMA DisturbedPasses == ASSUME Guarded, SameDomains, Disturbed PROVE GuardedMove
<1>1. grant \in Grant /\ Root \in Places  BY DEF Guarded, Places
<1>2. grant' \in Grant /\ grant'.scopes = grant.scopes  BY <1>1 DEF Disturbed, Grant
<1> QED BY <1>2, InPassing DEF Disturbed

(* A step of one call, with what it makes of the call.                     *)
LEMMA OneCall ==
    ASSUME Guarded, SameDomains, NEW c \in Calls, NEW r, IsCall(r), call' = [call EXCEPT ![c] = r],
           grant' = grant, r.pc \in {"own", "act"} => Registered(r.tool).scope \in grant.scopes,
           call[c].pc = "act" /\ r.pc = "record" => Promised(c)
    PROVE  GuardedMove
<1>1. call' = [d \in Calls |-> IF d = c THEN r ELSE call[d]]  BY DEF Guarded, Shaped
<1>2. Shaped'  BY <1>1 DEF Guarded, Shaped, SameDomains
<1>3. \A d \in Calls : call'[d].pc \in {"own", "act"} => require(d)'
    BY <1>1 DEF Guarded, require
<1>4. ASSUME NEW d \in Calls, call[d].pc = "act", call'[d].pc = "record" PROVE Promised(d)
    BY <1>1, <1>4
<1> QED BY <1>2, <1>3, <1>4 DEF GuardedMove, Guarded

LEMMA McpGuarded == ASSUME Guarded, McpNext PROVE GuardedMove
<1>0. NoChange => SameDomains  BY NoChangeLoses
<1>1. ASSUME NEW c \in Calls, NEW name, open_mcp_scope(c, name) PROVE GuardedMove
  <2> DEFINE r == [IdleCall EXCEPT !.pc = "gate", !.tool = name, !.confined = grant.confined, !.bound = grant.folder]
  <2>1. IsCall(r) /\ r.pc = "gate"  BY DEF IsCall, CallFields, IdleCall
  <2>2. call' = [call EXCEPT ![c] = r] /\ grant' = grant /\ NoChange
    BY <1>1 DEF open_mcp_scope
  <2> HIDE DEF r
  <2> QED BY <1>0, <2>1, <2>2, OneCall
<1>2. ASSUME NEW c \in Calls, Gate(c) PROVE GuardedMove
  <2>0. IsCall(call[c]) /\ call = [d \in Calls |-> call[d]] /\ call[c].pc = "gate" /\ grant' = grant /\ NoChange
    BY <1>2 DEF Guarded, Shaped, Gate
  <2>1. ASSUME NEW outcome, classify(c, outcome, {}, {}) PROVE GuardedMove
    <3> DEFINE r == Settled(c, outcome, {}, {})
    <3>1. call' = [call EXCEPT ![c] = r] /\ IsCall(r)  BY <2>1, Classified DEF Guarded
    <3>2. r.pc = "record"  BY <2>0 DEF Settled, IsCall, CallFields
    <3> HIDE DEF r
    <3> QED BY <1>0, <2>0, <3>1, <3>2, OneCall
  <2>2. ASSUME require(c), NEW pc, NEW reach, call' = [call EXCEPT ![c].pc = pc, ![c].reach = reach]
        PROVE  GuardedMove
    <3> DEFINE r == [call[c] EXCEPT !.pc = pc, !.reach = reach]
    <3>1. IsCall(r) /\ r.tool = call[c].tool  BY <2>0 DEF IsCall, CallFields
    <3>2. call' = [call EXCEPT ![c] = r]  BY <2>0, <2>2
    <3> HIDE DEF r
    <3>3. Registered(r.tool).scope \in grant.scopes  BY <2>2, <3>1 DEF require
    <3> QED BY <1>0, <2>0, <3>1, <3>2, <3>3, OneCall
  <2>3. ASSUME require(c), call' = [call EXCEPT ![c].pc = "act"] PROVE GuardedMove
    <3> DEFINE r == [call[c] EXCEPT !.pc = "act"]
    <3>1. IsCall(r) /\ r.tool = call[c].tool  BY <2>0 DEF IsCall, CallFields
    <3>2. call' = [call EXCEPT ![c] = r]  BY <2>0, <2>3
    <3> HIDE DEF r
    <3>3. Registered(r.tool).scope \in grant.scopes  BY <2>3, <3>1 DEF require
    <3> QED BY <1>0, <2>0, <3>1, <3>2, <3>3, OneCall
  <2> QED BY <1>2, <2>1, <2>2, <2>3 DEF Gate
<1>3. ASSUME NEW c \in Calls, NEW f, owned_file_in_scope(c, f) PROVE GuardedMove
  <2>0. IsCall(call[c]) /\ call = [d \in Calls |-> call[d]] /\ call[c].pc = "own" /\ grant' = grant /\ NoChange
        /\ require(c)
    BY <1>3 DEF Guarded, Shaped, owned_file_in_scope
  <2>1. ASSUME classify(c, "ERROR", {}, {}) PROVE GuardedMove
    <3> DEFINE r == Settled(c, "ERROR", {}, {})
    <3>1. call' = [call EXCEPT ![c] = r] /\ IsCall(r)  BY <2>1, Classified DEF Guarded
    <3>2. r.pc = "record"  BY <2>0 DEF Settled, IsCall, CallFields
    <3> HIDE DEF r
    <3> QED BY <1>0, <2>0, <3>1, <3>2, OneCall
  <2>2. ASSUME call' = [call EXCEPT ![c].pc = "act", ![c].files = {f}] PROVE GuardedMove
    <3> DEFINE r == [call[c] EXCEPT !.pc = "act", !.files = {f}]
    <3>1. IsCall(r) /\ r.tool = call[c].tool  BY <2>0 DEF IsCall, CallFields
    <3>2. call' = [call EXCEPT ![c] = r]  BY <2>0, <2>2
    <3> HIDE DEF r
    <3>3. Registered(r.tool).scope \in grant.scopes  BY <2>0, <3>1 DEF require
    <3> QED BY <1>0, <2>0, <3>1, <3>2, <3>3, OneCall
  <2> QED BY <1>3, <2>1, <2>2 DEF owned_file_in_scope
<1>4. ASSUME NEW c \in Calls, ToolActs(c) PROVE GuardedMove
  <2>1. Promised(c) /\ SameDomains  BY <1>4, ToolKeepsPromise DEF Guarded, ToolActs
  <2>2. Classifies(c)  BY <1>4, ToolClassifies DEF ToolActs
  <2>3. PICK outcome, files, dest : classify(c, outcome, files, dest)
    BY <2>2 DEF Classifies
  <2> DEFINE r == Settled(c, outcome, files, dest)
  <2>4. call' = [call EXCEPT ![c] = r] /\ IsCall(r)  BY <2>3, Classified DEF Guarded
  <2>5. r.pc = "record"  BY DEF Settled, IsCall, CallFields, Guarded, Shaped
  <2> HIDE DEF r
  <2> QED BY <1>4, <2>1, <2>4, <2>5, OneCall DEF ToolActs
<1>5. ASSUME NEW c \in Calls, record_invocation(c) PROVE GuardedMove
  <2>1. IsCall(IdleCall) /\ IdleCall.pc = "idle"  BY DEF IsCall, CallFields, IdleCall
  <2> QED BY <1>0, <1>5, <2>1, OneCall DEF record_invocation
<1>6. ASSUME Rebind PROVE GuardedMove
  <2>1. SameDomains
    BY <1>0, <1>6, ServicesKeepDomains DEF Rebind, resolve_consent_folder
  <2>2. grant' \in Grant /\ grant'.scopes = grant.scopes
    <3>1. grant \in Grant  BY DEF Guarded
    <3>2. PICK p \in Places : grant' = [grant EXCEPT !.confined = (p # Root), !.folder = p]
      BY <1>6 DEF Rebind
    <3>3. (p # Root) \in BOOLEAN  OBVIOUS
    <3> QED BY <3>1, <3>2, <3>3 DEF Grant
  <2> QED BY <1>6, <2>1, <2>2, InPassing DEF Rebind
<1> QED BY <1>1, <1>2, <1>3, <1>4, <1>5, <1>6 DEF McpNext

(* Whoever else acts leaves the account's shape as it is.                  *)
LEMMA OthersKeepDomains ==
    ASSUME Guarded, TurnNext \/ ConversationNext \/ ClickNext \/ AskNext \/ OwnerNext
    PROVE  SameDomains /\ Disturbed
<1>0. NoChange => SameDomains  BY NoChangeLoses
<1>1. CASE TurnNext
  <2>1. Disturbed  BY <1>1 DEF TurnNext, Beside
  <2>2. (\E t, name : execute(t, name)) \/ NoChange
    BY <1>1 DEF TurnNext, stream_chat, load_or_create_conversation, CountRow, add_message, ReadHistory,
                ModelReplies, RunTool, Conclude, TurnEnds
  <2> QED BY <1>0, <2>1, <2>2, AssistantKeepsDomains
<1>2. CASE ConversationNext \/ AskNext
  <2>1. Disturbed  BY <1>2 DEF ConversationNext, AskNext, Beside
  <2>2. NoChange
    BY <1>2 DEF ConversationNext, AskNext, delete_conversation, create_conversation, truncate_from_message,
                summarize_file, recommend, HourRolls, NoChange
  <2> QED BY <1>0, <2>1, <2>2
<1>3. CASE ClickNext
  <2>1. Disturbed  BY <1>3 DEF ClickNext, Beside
  <2>2. (\E f : delete_file(f)) \/ NoChange
    BY <1>3 DEF ClickNext, resolve_deletion, ClickActs, update_message_meta, ClickLost
  <2> QED BY <1>0, <2>1, <2>2, ServicesKeepDomains DEF delete_file
<1>4. CASE OwnerNext
  <2>1. Disturbed /\ (OwnerActs \/ BackgroundActs)  BY <1>4 DEF OwnerNext, Beside
  <2>2. ASSUME NEW d, OwnerMovesFolder(d) PROVE SameDomains
    BY <2>2 DEF OwnerMovesFolder, SameDomains
  <2>3. ASSUME NEW d, OwnerDeletesFolder(d) PROVE SameDomains
    BY <2>3 DEF OwnerDeletesFolder, SameDomains, Guarded, Shaped
  <2>4. OwnerActs => SameDomains
    BY <2>2, <2>3, ServicesKeepDomains DEF OwnerActs, OwnerMovesFile, OwnerDeletesFile, delete_file,
                                          OwnerDeletesWorkspace
  <2>5. ASSUME NEW j, ConversionEnds(j) PROVE SameDomains
    BY <2>5 DEF ConversionEnds, SameDomains
  <2>6. BackgroundActs => SameDomains
    BY <2>5, ServicesKeepDomains DEF BackgroundActs, RuntimeStops, RunEnds
  <2> QED BY <2>1, <2>4, <2>6
<1> QED BY <1>1, <1>2, <1>3, <1>4

LEMMA GuardedStep == ASSUME Guarded, [Next]_vars PROVE GuardedMove
<1>1. CASE TurnNext \/ ConversationNext \/ ClickNext \/ AskNext \/ OwnerNext
    BY <1>1, OthersKeepDomains, DisturbedPasses
<1>2. CASE McpNext  BY <1>2, McpGuarded
<1>3. CASE TelemetryNext \/ LlmNext \/ EventNext \/ UNCHANGED vars
  <2>1. UNCHANGED <<driveVars, mcpVars>>
    BY <1>3 DEF TelemetryNext, LlmNext, EventNext, vars, BesideTelemetry, BesideLlm, BesideEvents
  <2>2. SameDomains /\ grant' = grant /\ call' = call
    BY <2>1, NoChangeLoses DEF mcpVars, NoChange
  <2>3. grant' \in Grant  BY <2>2 DEF Guarded
  <2> QED BY <2>2, <2>3, InPassing
<1> QED BY <1>1, <1>2, <1>3 DEF Next

LEMMA HintsKept == Spec => HintsHonest
<1>1. Guarded /\ [Next]_vars => Guarded'  BY GuardedStep DEF GuardedMove
<1>2. Guarded /\ [Next]_vars =>
        [\A c \in Calls : call[c].pc = "act" /\ call'[c].pc = "record" => Promised(c)]_<<driveVars, mcpVars>>
    BY GuardedStep DEF GuardedMove
<1> QED BY <1>1, <1>2, GuardedInit, PTL DEF Spec, HintsHonest, Promised, NothingLost

----------------------------------------------------------------------------
(* Decisions in the transcript                                             *)

MessageFields == {"id", "pos", "role", "calls", "answers", "artifacts", "attached", "ws"}
IsMessage(m) == DOMAIN m = MessageFields /\ m = [x \in MessageFields |-> m[x]]

ClickFields == {"pc", "conv", "file", "approve", "msg", "artifacts", "state"}
IsClick(r) == DOMAIN r = ClickFields /\ r = [x \in ClickFields |-> r[x]]

(* No turn will give this id to a message.                                 *)
Spent(id) ==
    \A t \in Turns, n \in Nat : id = <<t, n>> => turn[t].pc = "done" \/ n < turn[t].wrote

TurnKept(r) ==
    /\ r.wrote \in Nat /\ r.slot \subseteq Nat
    /\ r.pc = "idle" => r.wrote = 0
    /\ r.pc \notin Appending => r.slot = {}
    /\ r.conv \in Conversations \cup {NoConversation}
    /\ r.pc \notin {"idle", "resolve", "done"} => r.conv \in Conversations

RowsKept(c) ==
    /\ chat[c] \in Seq(Range(chat[c]))
    /\ \A m \in Range(chat[c]) : IsMessage(m) /\ m.pos \in Nat /\ Spent(m.id)
    /\ \A m, n \in Range(chat[c]) : m.id = n.id => m = n

(* A click's copy of the message is what the transcript has, unless two    *)
(* clicks met on it.                                                       *)
CopyKept(k) ==
    click[k].pc # "idle" =>
        /\ click[k].conv \in Conversations /\ Spent(click[k].msg)
        /\ \/ click[k].msg \in raced
           \/ \A m \in Range(chat[click[k].conv]) : m.id = click[k].msg => m.artifacts = click[k].artifacts
        /\ \A l \in Clicks : l # k /\ click[l].pc # "idle" /\ click[l].msg = click[k].msg => click[k].msg \in raced

Kept ==
    /\ \A t \in Turns : TurnKept(turn[t])
    /\ chat = [c \in Conversations |-> chat[c]] /\ \A c \in Conversations : RowsKept(c)
    /\ click = [k \in Clicks |-> click[k]] /\ \A k \in Clicks : IsClick(click[k]) /\ CopyKept(k)

(* What a step may do to the rows.                                         *)
DecisionsStand ==
    \A c \in Conversations : \A m \in Range(chat[c]), n \in Range(chat'[c]) :
        m.id = n.id /\ m.id \notin raced =>
            \A i \in DOMAIN m.artifacts :
                m.artifacts[i].state \in {"deleted", "failed", "cancelled"} => n.artifacts[i] = m.artifacts[i]

KeptMove == Kept' /\ DecisionsStand

(* The turns go on, and number their rows on.                              *)
Onward ==
    \A t \in Turns : /\ TurnKept(turn'[t])
                     /\ turn[t].pc = "done" => turn'[t].pc = "done"
                     /\ turn'[t].pc = "done" \/ turn[t].wrote <= turn'[t].wrote

LEMMA SpentStays == ASSUME Kept, Onward, NEW id, Spent(id) PROVE Spent(id)'
<1> SUFFICES ASSUME NEW t \in Turns, NEW n \in Nat, id = <<t, n>>
             PROVE  turn'[t].pc = "done" \/ n < turn'[t].wrote
    BY DEF Spent
<1>1. turn[t].pc = "done" \/ n < turn[t].wrote  BY DEF Spent
<1>2. turn[t].wrote \in Nat /\ turn'[t].wrote \in Nat  BY DEF Kept, Onward, TurnKept
<1> QED BY <1>1, <1>2 DEF Onward

(* A step that writes no row.                                              *)
LEMMA RowsStand ==
    ASSUME Kept, Onward, UNCHANGED <<click, raced>>, chat' = [c \in Conversations |-> chat'[c]],
           \A c \in Conversations : chat'[c] \in Seq(Range(chat'[c])) /\ Range(chat'[c]) \subseteq Range(chat[c])
    PROVE  KeptMove
<1>1. \A t \in Turns : TurnKept(turn'[t])  BY DEF Onward
<1>2. ASSUME NEW c \in Conversations PROVE RowsKept(c)'
  <2>1. RowsKept(c) /\ chat'[c] \in Seq(Range(chat'[c])) /\ Range(chat'[c]) \subseteq Range(chat[c])
    BY DEF Kept
  <2>2. \A m \in Range(chat'[c]) : IsMessage(m) /\ m.pos \in Nat /\ Spent(m.id)'
    BY <2>1, SpentStays DEF RowsKept
  <2>3. \A m, n \in Range(chat'[c]) : m.id = n.id => m = n  BY <2>1 DEF RowsKept
  <2> QED BY <2>1, <2>2, <2>3 DEF RowsKept
<1>3. ASSUME NEW k \in Clicks PROVE CopyKept(k)'
  <2> SUFFICES ASSUME click[k].pc # "idle"
               PROVE  /\ click[k].conv \in Conversations /\ Spent(click[k].msg)'
                      /\ \/ click[k].msg \in raced
                         \/ \A m \in Range(chat'[click[k].conv]) :
                                m.id = click[k].msg => m.artifacts = click[k].artifacts
                      /\ \A l \in Clicks :
                            l # k /\ click[l].pc # "idle" /\ click[l].msg = click[k].msg => click[k].msg \in raced
    BY DEF CopyKept
  <2>1. CopyKept(k)  BY DEF Kept
  <2>2. click[k].conv \in Conversations /\ Spent(click[k].msg)'
    BY <2>1, SpentStays DEF CopyKept
  <2> QED BY <2>1, <2>2 DEF CopyKept
<1>4. Kept'  BY <1>1, <1>2, <1>3 DEF Kept
<1>5. ASSUME NEW c \in Conversations, NEW m \in Range(chat[c]), NEW n \in Range(chat'[c]), m.id = n.id PROVE m = n
    BY <1>5 DEF Kept, RowsKept
<1>6. DecisionsStand  BY <1>5 DEF DecisionsStand
<1> QED BY <1>4, <1>6 DEF KeptMove

(* A step of one turn.                                                     *)
GoesOn(t) == \E r : /\ TurnKept(r) /\ turn[t].pc # "done" /\ (r.pc = "done" \/ turn[t].wrote <= r.wrote)
                    /\ turn' = [turn EXCEPT ![t] = r]

LEMMA GoesOnward == ASSUME Acting, Kept, NEW t \in Turns, GoesOn(t) PROVE Onward
<1>1. PICK r : /\ TurnKept(r) /\ turn[t].pc # "done" /\ (r.pc = "done" \/ turn[t].wrote <= r.wrote)
               /\ turn' = [turn EXCEPT ![t] = r]
    BY DEF GoesOn
<1>2. turn' = [u \in Turns |-> IF u = t THEN r ELSE turn[u]]  BY <1>1 DEF Acting
<1>3. ASSUME NEW u \in Turns
      PROVE  /\ TurnKept(turn'[u]) /\ (turn[u].pc = "done" => turn'[u].pc = "done")
             /\ turn'[u].pc = "done" \/ turn[u].wrote <= turn'[u].wrote
  <2>1. CASE u = t  BY <1>1, <1>2, <2>1
  <2>2. CASE u # t
    <3>1. turn'[u] = turn[u] /\ TurnKept(turn[u])  BY <1>2, <2>2 DEF Kept
    <3> QED BY <3>1 DEF TurnKept
  <2> QED BY <2>1, <2>2
<1> QED BY <1>3 DEF Onward

LEMMA TurnsGoOn == ASSUME Acting, Kept, NEW t \in Turns, NEW name,
                          \/ \E answers \in BOOLEAN : stream_chat(t, answers)
                          \/ load_or_create_conversation(t) \/ CountRow(t) \/ ReadHistory(t)
                          \/ \E n \in Nat : ModelReplies(t, n)
                          \/ RunTool(t, name) \/ Conclude(t) \/ TurnEnds(t)
                   PROVE  GoesOn(t)
<1>0. IsTurn(turn[t]) /\ turn = [u \in Turns |-> turn[u]] /\ TurnKept(turn[t])
    BY DEF Acting, Kept
<1>1. /\ IsTurn(IdleTurn) /\ IdleTurn.wrote = 0 /\ IdleTurn.slot = {} /\ IdleTurn.pc = "idle"
      /\ IdleTurn.conv = NoConversation
    BY DEF IsTurn, TurnFields, IdleTurn
<1>2. ASSUME NEW answers \in BOOLEAN, stream_chat(t, answers) PROVE GoesOn(t)
  <2> DEFINE r(pc, c, files, w) == [IdleTurn EXCEPT !.pc = pc, !.conv = c, !.ws = w, !.attached = files]
  <2>1. \E pc \in {"resolve", "done"} : \E c \in Conversations \cup {NoConversation} : \E files, w :
            turn' = [turn EXCEPT ![t] = r(pc, c, files, w)]
    <3>1. \E c \in {d \in Conversations : conv[d] # "unused"} \cup {NoConversation},
             files \in SUBSET {f \in Files : place[f] # Fresh},
             w \in {v \in Workspaces : ws[v] # "unused"} \cup {NoWorkspace} :
                turn' = [turn EXCEPT ![t] = r(IF ~(Cardinality(files) > MaxAttachments) /\ LetThrough(answers)
                                              THEN "resolve" ELSE "done", c, files, w)]
      BY <1>2 DEF stream_chat, Only
    <3> HIDE DEF r
    <3> QED BY <3>1
  <2>2. ASSUME NEW pc \in {"resolve", "done"}, NEW c \in Conversations \cup {NoConversation}, NEW files, NEW w
        PROVE  TurnKept(r(pc, c, files, w)) /\ r(pc, c, files, w).wrote = 0
    <3>1. r(pc, c, files, w).wrote = 0 /\ r(pc, c, files, w).slot = {} /\ r(pc, c, files, w).pc = pc
          /\ r(pc, c, files, w).conv = c
      BY <1>1 DEF IsTurn, TurnFields
    <3> HIDE DEF r
    <3> QED BY <3>1 DEF TurnKept, Appending
  <2>3. turn[t].pc = "idle" /\ turn[t].wrote = 0
    BY <1>0, <1>2 DEF stream_chat, TurnKept
  <2> HIDE DEF r
  <2>4. PICK pc \in {"resolve", "done"}, c \in Conversations \cup {NoConversation} :
            \E files, w : turn' = [turn EXCEPT ![t] = r(pc, c, files, w)]
    BY <2>1
  <2> PICK files, w : turn' = [turn EXCEPT ![t] = r(pc, c, files, w)]  BY <2>4
  <2>5. TurnKept(r(pc, c, files, w)) /\ turn[t].wrote <= r(pc, c, files, w).wrote
    BY <2>2, <2>3
  <2> QED BY <2>3, <2>4, <2>5 DEF GoesOn
<1>3. ASSUME NEW r, r.wrote = turn[t].wrote, r.slot = turn[t].slot, r.pc \in Appending \/ turn[t].pc \notin Appending,
             turn[t].pc # "done", r.pc # "idle", r.conv \in Conversations \/ (r.pc = "done" /\ r.conv = turn[t].conv),
             turn' = [turn EXCEPT ![t] = r]
      PROVE  GoesOn(t)
  <2>1. TurnKept(r) /\ turn[t].wrote <= r.wrote  BY <1>0, <1>3 DEF TurnKept, Appending
  <2> QED BY <1>3, <2>1 DEF GoesOn
<1>4. ASSUME load_or_create_conversation(t) PROVE GoesOn(t)
  <2> DEFINE done == [turn[t] EXCEPT !.pc = "done"]
             r(c, w) == [turn[t] EXCEPT !.pc = "user", !.conv = c, !.ws = w]
  <2>0. turn[t].pc = "resolve" /\ turn[t].pc \notin Appending
    BY <1>4 DEF load_or_create_conversation, Appending
  <2>1. turn' = [turn EXCEPT ![t] = done] \/ \E c \in Conversations : \E w : turn' = [turn EXCEPT ![t] = r(c, w)]
    <3>1. turn[t].conv # NoConversation /\ get_conversation(turn[t].conv) => turn[t].conv \in Conversations
      BY <1>0 DEF TurnKept
    <3> QED BY <1>4, <3>1 DEF load_or_create_conversation, Open, Only
  <2>2. done.wrote = turn[t].wrote /\ done.slot = turn[t].slot /\ done.pc = "done" /\ done.conv = turn[t].conv
    BY <1>0 DEF IsTurn, TurnFields
  <2>3. ASSUME NEW c, NEW w
        PROVE  r(c, w).wrote = turn[t].wrote /\ r(c, w).slot = turn[t].slot /\ r(c, w).pc = "user" /\ r(c, w).conv = c
    BY <1>0 DEF IsTurn, TurnFields
  <2> HIDE DEF r, done
  <2>4. "user" \in Appending  BY DEF Appending
  <2> QED BY <1>3, <2>0, <2>1, <2>2, <2>3, <2>4
<1>5. ASSUME CountRow(t) PROVE GoesOn(t)
  <2> DEFINE r == [turn[t] EXCEPT !.slot = {next_position(turn[t].conv)}]
  <2>1. turn' = [turn EXCEPT ![t] = r] /\ turn[t].pc \in Appending
    BY <1>0, <1>5 DEF CountRow
  <2>2. turn[t].pc \notin {"idle", "resolve", "done"} /\ turn[t].conv \in Conversations
    BY <1>0, <2>1 DEF Appending, TurnKept
  <2>3. next_position(turn[t].conv) \in Nat  BY <2>2 DEF next_position, Kept, RowsKept
  <2>4. /\ r.wrote = turn[t].wrote /\ r.pc = turn[t].pc /\ r.conv = turn[t].conv
        /\ r.slot = {next_position(turn[t].conv)}
    BY <1>0 DEF IsTurn, TurnFields
  <2> HIDE DEF r
  <2>5. TurnKept(r) /\ turn[t].wrote <= r.wrote
    BY <1>0, <2>1, <2>2, <2>3, <2>4 DEF TurnKept
  <2> QED BY <2>1, <2>2, <2>5 DEF GoesOn
<1>6. ASSUME ReadHistory(t) PROVE GoesOn(t)
  <2> DEFINE r(e, h) == [turn[t] EXCEPT !.pc = "complete", !.earlier = e, !.history = h]
  <2>0. turn[t].pc = "history" /\ turn[t].pc \notin Appending /\ turn[t].conv \in Conversations
    BY <1>0, <1>6 DEF ReadHistory, Appending, TurnKept
  <2>1. \E e, h : turn' = [turn EXCEPT ![t] = r(e, h)]  BY <1>6 DEF ReadHistory, Only
  <2>2. ASSUME NEW e, NEW h
        PROVE  /\ r(e, h).wrote = turn[t].wrote /\ r(e, h).slot = turn[t].slot /\ r(e, h).pc = "complete"
               /\ r(e, h).conv = turn[t].conv
    BY <1>0 DEF IsTurn, TurnFields
  <2> HIDE DEF r
  <2>3. PICK e, h : turn' = [turn EXCEPT ![t] = r(e, h)]  BY <2>1
  <2> QED BY <1>3, <2>0, <2>2, <2>3
<1>7. ASSUME NEW n \in Nat, ModelReplies(t, n) PROVE GoesOn(t)
  <2> DEFINE told == [turn[t] EXCEPT !.history = <<>>, !.earlier = {}]
  <2>0. turn[t].pc = "complete" /\ turn[t].pc \notin Appending /\ turn[t].conv \in Conversations
    BY <1>0, <1>7 DEF ModelReplies, Appending, TurnKept
  <2>1. /\ IsTurn(told) /\ told.wrote = turn[t].wrote /\ told.slot = turn[t].slot /\ told.conv = turn[t].conv
    BY <1>0 DEF IsTurn, TurnFields
  <2> DEFINE answer == [told EXCEPT !.pc = "answer"]
             request == [told EXCEPT !.pc = "request", !.round = turn[t].round + 1,
                                     !.asked = [i \in 1..n |-> <<t, turn[t].round + 1, i>>]]
  <2>2. turn' = [turn EXCEPT ![t] = answer] \/ turn' = [turn EXCEPT ![t] = request]
    BY <1>7 DEF ModelReplies, Only
  <2> HIDE DEF told
  <2>3. /\ answer.wrote = told.wrote /\ answer.slot = told.slot /\ answer.conv = told.conv /\ answer.pc = "answer"
        /\ request.wrote = told.wrote /\ request.slot = told.slot /\ request.conv = told.conv /\ request.pc = "request"
    BY <2>1 DEF IsTurn, TurnFields
  <2> HIDE DEF answer, request
  <2> QED BY <1>3, <2>0, <2>1, <2>2, <2>3
<1>8. ASSUME Conclude(t) PROVE GoesOn(t)
  <2> DEFINE r == [turn[t] EXCEPT !.pc = "answer"]
  <2>1. turn' = [turn EXCEPT ![t] = r] /\ turn[t].pc = "final"
    BY <1>0, <1>8 DEF Conclude
  <2>2. turn[t].pc \notin Appending /\ turn[t].conv \in Conversations
    BY <1>0, <2>1 DEF Appending, TurnKept
  <2>3. r.wrote = turn[t].wrote /\ r.slot = turn[t].slot /\ r.pc = "answer" /\ r.conv = turn[t].conv
    BY <1>0 DEF IsTurn, TurnFields
  <2> HIDE DEF r
  <2> QED BY <1>3, <2>1, <2>2, <2>3
<1>9. ASSUME TurnEnds(t) PROVE GoesOn(t)
  <2> DEFINE r == [IdleTurn EXCEPT !.pc = "done"]
  <2>1. turn' = [turn EXCEPT ![t] = r] /\ turn[t].pc # "done"
    BY <1>0, <1>9 DEF TurnEnds, Only, Active
  <2>2. r.wrote = 0 /\ r.slot = {} /\ r.pc = "done" /\ r.conv = NoConversation
    BY <1>1 DEF IsTurn, TurnFields
  <2> HIDE DEF r
  <2>3. TurnKept(r)  BY <2>2 DEF TurnKept
  <2> QED BY <2>1, <2>2, <2>3 DEF GoesOn
<1>10. ASSUME RunTool(t, name) PROVE GoesOn(t)
  <2>1. Yields(t) /\ turn[t].pc = "tool"  BY <1>10, ExecuteYields DEF RunTool
  <2>2. PICK S : \E produced \in Seq(S) : Yield(t, produced) /\ (Harmless(produced) \/ OneAction(t, produced))
    BY <2>1 DEF Yields
  <2>3. PICK produced \in Seq(S) : Yield(t, produced)  BY <2>2
  <2> DEFINE r == [turn[t] EXCEPT !.pc = "result", !.artifacts = @ \o produced]
  <2>4. turn' = [turn EXCEPT ![t] = r]  BY <1>0, <2>3 DEF Yield, IsTurn, TurnFields
  <2>5. turn[t].pc \notin Appending /\ turn[t].conv \in Conversations
    BY <1>0, <2>1 DEF Appending, TurnKept
  <2>6. r.wrote = turn[t].wrote /\ r.slot = turn[t].slot /\ r.pc = "result" /\ r.conv = turn[t].conv
    BY <1>0 DEF IsTurn, TurnFields
  <2> HIDE DEF r
  <2> QED BY <1>3, <2>1, <2>4, <2>5, <2>6
<1> QED BY <1>2, <1>4, <1>5, <1>6, <1>7, <1>8, <1>9, <1>10

(* A set of indices has a last one.                                        *)
LEMMA LastIndex ==
    ASSUME NEW n \in Nat, NEW X \in SUBSET (1..n), X # {}
    PROVE  \E i \in X : \A j \in X : j <= i
<1> DEFINE Y == {n - i : i \in X}
<1>1. Y \in SUBSET Nat /\ Y # {}
  <2>1. ASSUME NEW i \in X PROVE n - i \in Nat
    <3>1. i \in 1..n  OBVIOUS
    <3> QED BY <3>1
  <2> QED BY <2>1
<1>2. PICK i \in X : Min(Y) = n - i  BY <1>1, MinIsLeast
<1>3. ASSUME NEW j \in X PROVE j <= i
  <2>1. n - j \in Y  OBVIOUS
  <2>2. n - i <= n - j  BY <1>1, <1>2, <2>1, MinIsLeast
  <2> QED BY <2>2
<1> QED BY <1>3

(* In whatever order rows of one position come, they are rows of the       *)
(* transcript.                                                             *)
LEMMA OrderedRows ==
    ASSUME NEW c, RowsKept(c), NEW flipped
    PROVE  Ordered(c, flipped) \in Seq(Range(chat[c]))
<1> DEFINE D == DOMAIN chat[c]
           before(i, j) == \/ chat[c][i].pos < chat[c][j].pos
                           \/ /\ chat[c][i].pos = chat[c][j].pos
                              /\ IF chat[c][i].pos \in flipped THEN i > j ELSE i < j
           R == {e \in D \X D : before(e[1], e[2])}
           Rank(x) == Cardinality({y \in D : before(y, x)})
           n == Cardinality(D)
           order == [i \in 1..n |-> CHOOSE x \in D : Rank(x) = i - 1]
<1>1. Ordered(c, flipped) = [i \in DOMAIN order |-> chat[c][order[i]]]
    BY DEF Ordered, InOrder
<1>2. D \subseteq Nat /\ IsFiniteSet(D) /\ \A i \in D : chat[c][i] \in Range(chat[c]) /\ chat[c][i].pos \in Nat
  <2>1. chat[c] \in Seq(Range(chat[c])) /\ D = 1..Len(chat[c]) /\ Len(chat[c]) \in Nat
    BY DEF RowsKept
  <2>2. IsFiniteSet(D)
    <3>1. IsFiniteSet(1..Len(chat[c]))  BY <2>1, FS_Interval
    <3> QED BY <2>1, <3>1
  <2>3. \A i \in D : chat[c][i] \in Range(chat[c])  BY DEF Range
  <2> QED BY <2>1, <2>2, <2>3 DEF RowsKept
<1>3. \A x, y \in D : <<x, y>> \in R <=> before(x, y)  OBVIOUS
<1> HIDE DEF R
<1>4. Orders(R, D)
  <2> DEFINE p == [i \in D |-> chat[c][i].pos]
  <2>1. /\ \A i \in D : p[i] \in Nat
        /\ \A x, y \in D : <<x, y>> \in R <=>
              p[x] < p[y] \/ (p[x] = p[y] /\ IF p[x] \in flipped THEN x > y ELSE x < y)
    BY <1>2, <1>3
  <2> HIDE DEF p, D
  <2>2. \A x \in D : <<x, x>> \notin R  BY <1>2, <2>1
  <2>3. ASSUME NEW x \in D, NEW y \in D, x # y PROVE <<x, y>> \in R \/ <<y, x>> \in R
    <3>1. x \in Nat /\ y \in Nat /\ p[x] \in Nat /\ p[y] \in Nat  BY <1>2, <2>1
    <3>2. CASE p[x] = p[y]  BY <2>1, <2>3, <3>1, <3>2
    <3>3. CASE p[x] # p[y]  BY <2>1, <3>1, <3>3
    <3> QED BY <3>2, <3>3
  <2>4. \A x, y, z \in D : <<x, y>> \in R /\ <<y, z>> \in R => <<x, z>> \in R
    BY <1>2, <2>1
  <2> QED BY <2>2, <2>3, <2>4 DEF Orders
<1>5. ASSUME NEW x \in D PROVE Cardinality(Ahead(R, D, x)) = Rank(x)
  <2>1. Ahead(R, D, x) = {y \in D : before(y, x)}  BY <1>3 DEF Ahead
  <2> QED BY <2>1
<1>6. Ranked(R, D)  BY <1>2, <1>4, EveryPlace
<1> HIDE DEF Rank
<1>7. n \in Nat /\ \A i \in 1..n : \E x \in D : Rank(x) = i - 1
  <2>1. n \in Nat /\ \A i \in 1..n : \E x \in D : Cardinality(Ahead(R, D, x)) = i - 1
    BY <1>6 DEF Ranked
  <2> HIDE DEF n, D
  <2> QED BY <1>5, <2>1
<1> HIDE DEF n
<1>8. order \in [1..n -> D]
  <2> HIDE DEF D
  <2> QED BY <1>7
<1> HIDE DEF order
<1>9. Ordered(c, flipped) \in [1..n -> Range(chat[c])]  BY <1>1, <1>2, <1>8
<1> QED BY <1>7, <1>9

(* A click decides on a row of the transcript.                             *)
LEMMA PendingIsRow ==
    ASSUME NEW c, RowsKept(c), NEW flipped, NEW f,
           NEW m \in pending_deletion(list_messages(c, MaxScan, flipped), f)
    PROVE  m \in Range(chat[c])
<1> DEFINE all == Ordered(c, flipped)
           from == IF Len(all) > MaxScan THEN Len(all) - MaxScan + 1 ELSE 1
           s == SubSeq(all, from, Len(all))
           found == {i \in DOMAIN s : IsPending(s[i], f)}
<1>1. all \in Seq(Range(chat[c])) /\ MaxScan \in Nat
    BY OrderedRows, AssistantAssumption
<1>2. list_messages(c, MaxScan, flipped) = s  BY DEF list_messages, Newest
<1>3. found # {} /\ m = s[CHOOSE i \in found : \A j \in found : j <= i]
    BY <1>2 DEF pending_deletion
<1> HIDE DEF all
<1>4. s \in Seq(Range(chat[c]))  BY <1>1, SubSeqProperties
<1> HIDE DEF s
<1>5. Len(s) \in Nat /\ found \in SUBSET (1..Len(s))  BY <1>4
<1>6. \E i \in found : \A j \in found : j <= i  BY <1>3, <1>5, LastIndex
<1>7. (CHOOSE i \in found : \A j \in found : j <= i) \in found  BY <1>6
<1> HIDE DEF found
<1>8. (CHOOSE i \in found : \A j \in found : j <= i) \in 1..Len(s)  BY <1>5, <1>7
<1> QED BY <1>3, <1>4, <1>8

(* A row of the turn's own id.                                             *)
LEMMA RowIsMessage ==
    ASSUME NEW t, NEW pos
    PROVE  IsMessage(Row(t, pos)) /\ Row(t, pos).id = <<t, turn[t].wrote>> /\ Row(t, pos).pos = pos
<1>1. \E role, calls, answers, artifacts, attached, w :
          Row(t, pos) = Message(<<t, turn[t].wrote>>, pos, role, calls, answers, artifacts, attached, w)
    BY DEF Row
<1>2. ASSUME NEW id, NEW role, NEW calls, NEW answers, NEW artifacts, NEW attached, NEW w
      PROVE  LET m == Message(id, pos, role, calls, answers, artifacts, attached, w)
             IN IsMessage(m) /\ m.id = id /\ m.pos = pos
    BY DEF Message, IsMessage, MessageFields
<1> QED BY <1>1, <1>2

(* The end of a turn, or a row more.                                       *)
LEMMA AppendGoesOn ==
    ASSUME Acting, Kept, NEW t \in Turns, add_message(t)
    PROVE  /\ GoesOn(t) /\ turn[t].pc # "done" /\ UNCHANGED <<click, raced>>
           /\ \/ chat' = chat
              \/ /\ \E c : \E pos \in Nat : chat' = [chat EXCEPT ![c] = Append(@, Row(t, pos))]
                 /\ turn'[t].pc = "done" \/ turn'[t].wrote = turn[t].wrote + 1
<1>0. IsTurn(turn[t]) /\ turn = [u \in Turns |-> turn[u]] /\ TurnKept(turn[t])
    BY DEF Acting, Kept
<1>1. turn[t].slot # {} /\ turn[t].pc \in Appending /\ UNCHANGED <<click, raced>>
    BY <1>0 DEF add_message, TurnKept, NoClick
<1>2. turn[t].pc \notin {"idle", "resolve", "done"} /\ turn[t].conv \in Conversations /\ turn[t].wrote \in Nat
    BY <1>0, <1>1 DEF Appending, TurnKept
<1>3. (CHOOSE n \in turn[t].slot : TRUE) \in Nat  BY <1>0, <1>1 DEF TurnKept
<1> DEFINE done == [IdleTurn EXCEPT !.pc = "done"]
           next == [After(t) EXCEPT !.slot = {}, !.wrote = turn[t].wrote + 1]
           r == [next EXCEPT !.before = Len(next.artifacts)]
<1>4. \/ turn' = [turn EXCEPT ![t] = done] /\ chat' = chat
      \/ /\ turn' = [turn EXCEPT ![t] = r]
         /\ chat' = [chat EXCEPT ![turn[t].conv] = Append(@, Row(t, CHOOSE n \in turn[t].slot : TRUE))]
    BY DEF add_message, Only
<1>5. /\ IsTurn(done) /\ done.wrote = 0 /\ done.slot = {} /\ done.pc = "done" /\ done.conv = NoConversation
    BY DEF IsTurn, TurnFields, IdleTurn
<1>6. /\ IsTurn(After(t))
      /\ \/ After(t).pc \notin {"idle", "resolve", "done"} \cup Appending /\ After(t).conv = turn[t].conv
         \/ After(t).pc = "done" /\ After(t).conv = NoConversation
  <2>1. \/ \E pc \in {"history", "tool", "complete", "final"} : After(t) = [turn[t] EXCEPT !.pc = pc]
        \/ \E pc \in {"history", "tool", "complete", "final"} : \E rest :
               After(t) = [turn[t] EXCEPT !.asked = rest, !.pc = pc]
        \/ After(t) = done
    BY DEF After
  <2>2. ASSUME NEW pc \in {"history", "tool", "complete", "final"}, NEW rest, NEW a,
               a = [turn[t] EXCEPT !.pc = pc] \/ a = [turn[t] EXCEPT !.asked = rest, !.pc = pc]
        PROVE  IsTurn(a) /\ a.pc \notin {"idle", "resolve", "done"} \cup Appending /\ a.conv = turn[t].conv
    <3>1. CASE a = [turn[t] EXCEPT !.pc = pc]
      BY <1>0, <3>1 DEF IsTurn, TurnFields, Appending
    <3>2. CASE a = [turn[t] EXCEPT !.asked = rest, !.pc = pc]
      BY <1>0, <3>2 DEF IsTurn, TurnFields, Appending
    <3> QED BY <2>2, <3>1, <3>2
  <2> HIDE DEF done
  <2> QED BY <1>5, <2>1, <2>2
<1>7. IsTurn(next) /\ next.slot = {} /\ next.wrote = turn[t].wrote + 1 /\ next.pc = After(t).pc
      /\ next.conv = After(t).conv
    BY <1>6 DEF IsTurn, TurnFields
<1> HIDE DEF next, done
<1>8. r.slot = {} /\ r.wrote = turn[t].wrote + 1 /\ r.pc = After(t).pc /\ r.conv = After(t).conv
    BY <1>7 DEF IsTurn, TurnFields
<1> HIDE DEF r
<1>9. TurnKept(r) /\ turn[t].wrote <= r.wrote /\ TurnKept(done)
  <2>1. r.pc # "idle" /\ (r.pc \notin {"idle", "resolve", "done"} => r.conv \in Conversations)
        /\ r.conv \in Conversations \cup {NoConversation}
    BY <1>2, <1>6, <1>8
  <2> QED BY <1>2, <1>5, <1>8, <2>1 DEF TurnKept
<1>10. GoesOn(t)  BY <1>2, <1>4, <1>5, <1>9 DEF GoesOn
<1>11. \/ chat' = chat
       \/ /\ \E c : \E pos \in Nat : chat' = [chat EXCEPT ![c] = Append(@, Row(t, pos))]
          /\ turn'[t].pc = "done" \/ turn'[t].wrote = turn[t].wrote + 1
  <2>1. CASE /\ turn' = [turn EXCEPT ![t] = r]
             /\ chat' = [chat EXCEPT ![turn[t].conv] = Append(@, Row(t, CHOOSE n \in turn[t].slot : TRUE))]
    <3>1. turn'[t] = r  BY <1>0, <2>1
    <3> QED BY <1>3, <1>8, <2>1, <3>1
  <2> QED BY <1>4, <2>1
<1> QED BY <1>1, <1>2, <1>10, <1>11

LEMMA AppendKeeps == ASSUME Acting, Kept, NEW t \in Turns, add_message(t) PROVE KeptMove
<1>1. GoesOn(t) /\ turn[t].pc # "done" /\ UNCHANGED <<click, raced>>  BY AppendGoesOn
<1>2. Onward  BY <1>1, GoesOnward
<1>3. CASE chat' = chat
  <2>1. /\ chat' = [c \in Conversations |-> chat'[c]]
        /\ \A c \in Conversations : chat'[c] \in Seq(Range(chat'[c])) /\ Range(chat'[c]) \subseteq Range(chat[c])
    BY <1>3 DEF Kept, RowsKept
  <2> QED BY <1>1, <1>2, <2>1, RowsStand
<1>4. CASE chat' # chat
  <2>0. PICK c : \E pos \in Nat : chat' = [chat EXCEPT ![c] = Append(@, Row(t, pos))]
    BY <1>4, AppendGoesOn
  <2> PICK pos \in Nat : chat' = [chat EXCEPT ![c] = Append(@, Row(t, pos))]  BY <2>0
  <2> PICK row : row = Row(t, pos)  OBVIOUS
  <2>1. chat' = [chat EXCEPT ![c] = Append(@, row)]  OBVIOUS
  <2>2. IsMessage(row) /\ row.id = <<t, turn[t].wrote>> /\ row.pos = pos
    BY RowIsMessage
  <2>3. turn[t].wrote \in Nat /\ (turn'[t].pc = "done" \/ turn'[t].wrote = turn[t].wrote + 1)
    BY <1>4, AppendGoesOn DEF Kept, TurnKept
  <2>4. ~Spent(row.id) /\ Spent(row.id)'
    <3>1. ~Spent(row.id)  BY <1>1, <2>2, <2>3 DEF Spent
    <3>2. ASSUME NEW u \in Turns, NEW n \in Nat, row.id = <<u, n>>
          PROVE  turn'[u].pc = "done" \/ n < turn'[u].wrote
      <4>1. u = t /\ n = turn[t].wrote  BY <2>2, <3>2
      <4> QED BY <2>3, <4>1
    <3> QED BY <3>1, <3>2 DEF Spent
  <2>5. ASSUME NEW d \in Conversations
        PROVE  /\ chat'[d] \in Seq(Range(chat'[d]))
               /\ Range(chat'[d]) = Range(chat[d]) \/ Range(chat'[d]) = Range(chat[d]) \cup {row}
    <3>1. chat[d] \in Seq(Range(chat[d])) /\ (chat'[d] = chat[d] \/ chat'[d] = Append(chat[d], row))
      BY <2>1 DEF Kept, RowsKept
    <3>2. CASE chat'[d] = chat[d]  BY <3>1, <3>2
    <3>3. CASE chat'[d] = Append(chat[d], row)
      <4> DEFINE s == chat[d]
                 S == Range(chat[d])
      <4>1. s \in Seq(S) /\ S = {s[i] : i \in DOMAIN s}  BY <3>1 DEF Range
      <4> HIDE DEF s, S
      <4>2. Range(Append(s, row)) = S \cup {row}
        <5>1. /\ DOMAIN Append(s, row) = 1..(Len(s) + 1) /\ Len(s) \in Nat /\ DOMAIN s = 1..Len(s)
              /\ \A i \in 1..Len(s) : Append(s, row)[i] = s[i]
              /\ Append(s, row)[Len(s) + 1] = row
          BY <4>1
        <5>2. ASSUME NEW x \in Range(Append(s, row)) PROVE x \in S \cup {row}
          BY <4>1, <5>1 DEF Range
        <5>3. ASSUME NEW x \in S \cup {row} PROVE x \in Range(Append(s, row))
          <6>1. CASE x \in S
            <7>1. PICK i \in 1..Len(s) : x = s[i]  BY <4>1, <5>1, <6>1
            <7>2. i \in 1..(Len(s) + 1) /\ x = Append(s, row)[i]  BY <5>1, <7>1
            <7> QED BY <5>1, <7>2 DEF Range
          <6>2. CASE x = row
            <7>1. Len(s) + 1 \in 1..(Len(s) + 1)  BY <5>1
            <7> QED BY <5>1, <6>2, <7>1 DEF Range
          <6> QED BY <6>1, <6>2
        <5> QED BY <5>2, <5>3
      <4>3. s \in Seq(S \cup {row})  BY <4>1
      <4>4. Append(s, row) \in Seq(S \cup {row})  BY <4>3
      <4> QED BY <3>3, <4>2, <4>4 DEF s, S
    <3> QED BY <3>1, <3>2, <3>3
  <2>6. chat' = [d \in Conversations |-> chat'[d]]  BY <2>1 DEF Kept
  <2>grown. ASSUME NEW d \in Conversations, NEW x \in Range(chat'[d]) PROVE x \in Range(chat[d]) \/ x = row
    <3>1. CASE Range(chat'[d]) = Range(chat[d])  BY <3>1
    <3>2. CASE Range(chat'[d]) = Range(chat[d]) \cup {row}  BY <3>2
    <3> QED BY <2>5, <3>1, <3>2
  <2>7. ASSUME NEW d \in Conversations PROVE RowsKept(d)'
    <3>1. RowsKept(d)  BY DEF Kept
    <3>2. \A m \in Range(chat'[d]) : IsMessage(m) /\ m.pos \in Nat /\ Spent(m.id)'
      BY <1>2, <2>2, <2>4, <2>5, <3>1, SpentStays DEF RowsKept
    <3>3. ASSUME NEW m \in Range(chat'[d]), NEW n \in Range(chat'[d]), m.id = n.id PROVE m = n
      <4>1. m \in Range(chat[d]) \/ m = row  BY <2>grown
      <4>2. n \in Range(chat[d]) \/ n = row  BY <2>grown
      <4>3. \A x \in Range(chat[d]) : x.id # row.id  BY <2>4, <3>1 DEF RowsKept
      <4> QED BY <3>1, <3>3, <4>1, <4>2, <4>3 DEF RowsKept
    <3> QED BY <2>5, <3>2, <3>3 DEF RowsKept
  <2>8. ASSUME NEW k \in Clicks PROVE CopyKept(k)'
    <3> SUFFICES ASSUME click[k].pc # "idle"
                 PROVE  /\ click[k].conv \in Conversations /\ Spent(click[k].msg)'
                        /\ \/ click[k].msg \in raced
                           \/ \A m \in Range(chat'[click[k].conv]) :
                                  m.id = click[k].msg => m.artifacts = click[k].artifacts
                        /\ \A l \in Clicks :
                              l # k /\ click[l].pc # "idle" /\ click[l].msg = click[k].msg => click[k].msg \in raced
      BY <1>1 DEF CopyKept
    <3>1. CopyKept(k)  BY DEF Kept
    <3>2. click[k].conv \in Conversations /\ Spent(click[k].msg) /\ Spent(click[k].msg)'
      BY <1>1, <1>2, <3>1, SpentStays DEF CopyKept
    <3>3. row.id # click[k].msg  BY <2>4, <3>2
    <3> QED BY <2>5, <3>1, <3>2, <3>3 DEF CopyKept
  <2>9. Kept'  BY <1>1, <1>2, <2>6, <2>7, <2>8 DEF Kept, Onward
  <2>10. ASSUME NEW d \in Conversations, NEW m \in Range(chat[d]), NEW n \in Range(chat'[d]), m.id = n.id PROVE m = n
    <3>1. RowsKept(d)  BY DEF Kept
    <3>2. n # row  BY <2>4, <2>10, <3>1 DEF RowsKept
    <3>3. n \in Range(chat[d])  BY <2>grown, <3>2
    <3> QED BY <2>10, <3>1, <3>3 DEF RowsKept
  <2>11. DecisionsStand  BY <2>10 DEF DecisionsStand
  <2> QED BY <2>9, <2>11 DEF KeptMove
<1> QED BY <1>3, <1>4

LEMMA UnchangedTurns == ASSUME Kept, turn' = turn PROVE Onward
<1> SUFFICES ASSUME NEW t \in Turns PROVE TurnKept(turn[t]) /\ turn[t].wrote <= turn[t].wrote
    BY DEF Onward
<1>1. TurnKept(turn[t])  BY DEF Kept
<1> QED BY <1>1 DEF TurnKept

(* Conversations that are made, deleted or cut.                            *)
LEMMA ConversationsKeep == ASSUME Kept, ConversationNext PROVE KeptMove
<1>1. turn' = turn /\ UNCHANGED <<click, raced>>
    BY DEF ConversationNext, delete_conversation, create_conversation, truncate_from_message, NoClick
<1>2. Onward  BY <1>1, UnchangedTurns
<1>3. chat = [c \in Conversations |-> chat[c]] /\ \A c \in Conversations : RowsKept(c)
    BY DEF Kept
<1>4. ASSUME NEW c \in Conversations, NEW left_rows, left_rows \in Seq(Range(left_rows)),
             Range(left_rows) \subseteq Range(chat[c]),
             chat' = [chat EXCEPT ![c] = left_rows]
      PROVE  KeptMove
  <2>1. chat' = [d \in Conversations |-> IF d = c THEN left_rows ELSE chat[d]]
    BY <1>3, <1>4
  <2>2. \A d \in Conversations : chat'[d] \in Seq(Range(chat'[d])) /\ Range(chat'[d]) \subseteq Range(chat[d])
    BY <1>3, <1>4, <2>1 DEF RowsKept
  <2>3. chat' = [d \in Conversations |-> chat'[d]]  BY <2>1
  <2> QED BY <1>1, <1>2, <2>2, <2>3, RowsStand
<1>5. ASSUME NEW c \in Conversations, delete_conversation(c) PROVE KeptMove
  <2>1. <<>> \in Seq(Range(<<>>)) /\ Range(<<>>) \subseteq Range(chat[c])  BY DEF Range
  <2> QED BY <1>4, <1>5, <2>1 DEF delete_conversation
<1>6. ASSUME NEW c \in Conversations, create_conversation(c) PROVE KeptMove
  <2>1. chat[c] \in Seq(Range(chat[c])) /\ chat' = [chat EXCEPT ![c] = chat[c]]
    BY <1>3, <1>6 DEF create_conversation, RowsKept
  <2> QED BY <1>4, <2>1
<1>7. ASSUME NEW c \in Conversations, truncate_from_message(c) PROVE KeptMove
  <2>1. PICK m \in Range(chat[c]) : chat' = [chat EXCEPT ![c] = truncate(c, m)]
    BY <1>7 DEF truncate_from_message
  <2> DEFINE K == {i \in DOMAIN chat[c] : chat[c][i].pos < m.pos}
             kept == InOrder(K, <)
             left_rows == [n \in DOMAIN kept |-> chat[c][kept[n]]]
  <2>2. truncate(c, m) = left_rows  BY DEF truncate
  <2>3. Len(chat[c]) \in Nat /\ DOMAIN chat[c] = 1..Len(chat[c])  BY <1>3 DEF RowsKept
  <2>4. K \in SUBSET Nat /\ IsFiniteSet(K) /\ K \subseteq DOMAIN chat[c]
    <3>1. IsFiniteSet(1..Len(chat[c])) /\ K \subseteq 1..Len(chat[c]) /\ 1..Len(chat[c]) \subseteq Nat
      BY <2>3, FS_Interval
    <3> HIDE DEF K
    <3> QED BY <2>3, <3>1, FS_Subset
  <2> HIDE DEF K
  <2>5. Cardinality(K) \in Nat /\ kept \in [1..Cardinality(K) -> K]
    BY <2>4, IndicesInOrder
  <2> HIDE DEF kept
  <2>6. /\ left_rows = [n \in 1..Cardinality(K) |-> chat[c][kept[n]]]
        /\ \A n \in 1..Cardinality(K) : kept[n] \in DOMAIN chat[c]
    BY <2>4, <2>5
  <2>7. Range(left_rows) \subseteq Range(chat[c])  BY <2>6 DEF Range
  <2>8. left_rows \in [1..Cardinality(K) -> Range(left_rows)]  BY <2>6 DEF Range
  <2>9. left_rows \in Seq(Range(left_rows))  BY <2>5, <2>8
  <2> HIDE DEF left_rows
  <2> QED BY <1>4, <2>1, <2>2, <2>7, <2>9
<1> QED BY <1>5, <1>6, <1>7 DEF ConversationNext

(* A step of one click that writes nothing.                                *)
LEMMA ClickStands ==
    ASSUME Kept, turn' = turn, chat' = chat, raced \subseteq raced', NEW k \in Clicks, NEW r, IsClick(r),
           click' = [click EXCEPT ![k] = r],
           r.pc # "idle" =>
               /\ r.conv \in Conversations /\ Spent(r.msg)
               /\ \/ r.msg \in raced'
                  \/ \A m \in Range(chat[r.conv]) : m.id = r.msg => m.artifacts = r.artifacts
               /\ \A l \in Clicks : l # k /\ click[l].pc # "idle" /\ click[l].msg = r.msg => r.msg \in raced'
    PROVE  KeptMove
<1>1. Onward  BY UnchangedTurns
<1>2. click' = [l \in Clicks |-> IF l = k THEN r ELSE click[l]]  BY DEF Kept
<1>3. ASSUME NEW c \in Conversations PROVE RowsKept(c)'
  <2>1. RowsKept(c)  BY DEF Kept
  <2> QED BY <1>1, <2>1, SpentStays DEF RowsKept
<1>4. ASSUME NEW l \in Clicks PROVE IsClick(click'[l]) /\ CopyKept(l)'
  <2>1. CASE l = k
    <3>1. click'[l] = r  BY <1>2, <2>1
    <3>2. Spent(r.msg) => Spent(r.msg)'  BY DEF Spent
    <3>3. ASSUME NEW j \in Clicks, j # k PROVE click'[j] = click[j]  BY <1>2, <3>3
    <3> QED BY <2>1, <3>1, <3>2, <3>3 DEF CopyKept
  <2>2. CASE l # k
    <3>1. click'[l] = click[l] /\ click'[k] = r  BY <1>2, <2>2
    <3>2. CopyKept(l) /\ IsClick(click[l])  BY DEF Kept
    <3>3. ASSUME click[l].pc # "idle"
          PROVE  /\ click[l].conv \in Conversations /\ Spent(click[l].msg)
                 /\ \/ click[l].msg \in raced'
                    \/ \A m \in Range(chat[click[l].conv]) : m.id = click[l].msg => m.artifacts = click[l].artifacts
                 /\ \A j \in Clicks :
                       j # l /\ click'[j].pc # "idle" /\ click'[j].msg = click[l].msg => click[l].msg \in raced'
      <4>1. ASSUME NEW j \in Clicks, j # l, click'[j].pc # "idle", click'[j].msg = click[l].msg
            PROVE  click[l].msg \in raced'
        <5>1. CASE j = k  BY <2>2, <3>1, <3>3, <4>1, <5>1
        <5>2. CASE j # k
          <6>1. click'[j] = click[j]  BY <1>2, <5>2
          <6> QED BY <3>2, <3>3, <4>1, <6>1 DEF CopyKept
        <5> QED BY <5>1, <5>2
      <4> QED BY <3>2, <3>3, <4>1 DEF CopyKept
    <3>4. Spent(click[l].msg) => Spent(click[l].msg)'  BY <3>1 DEF Spent
    <3> QED BY <3>1, <3>2, <3>3, <3>4 DEF CopyKept
  <2> QED BY <2>1, <2>2
<1>5. Kept'  BY <1>1, <1>2, <1>3, <1>4 DEF Kept, Onward
<1>6. DecisionsStand
  <2>1. ASSUME NEW c \in Conversations, NEW m \in Range(chat[c]), NEW n \in Range(chat[c]), m.id = n.id PROVE m = n
    BY <2>1 DEF Kept, RowsKept
  <2> QED BY <2>1 DEF DecisionsStand
<1> QED BY <1>5, <1>6 DEF KeptMove

(* The message is written back as the click has read it, but for the       *)
(* decision on what was waiting for one.                                   *)
LEMMA MarkKeeps == ASSUME Kept, NEW k \in Clicks, update_message_meta(k) PROVE KeptMove
<1> DEFINE c == click[k].conv
           id == click[k].msg
           written == with_deletion_state(click[k].artifacts, click[k].file, click[k].state)
           Marked(m) == IF m.id = id THEN [m EXCEPT !.artifacts = written] ELSE m
<1>1. /\ click[k].pc = "mark" /\ turn' = turn /\ raced' = raced /\ click' = [click EXCEPT ![k] = IdleClick]
      /\ chat' = [chat EXCEPT ![c] = [i \in DOMAIN chat[c] |-> Marked(chat[c][i])]]
    BY DEF update_message_meta
<1>2. c \in Conversations /\ CopyKept(k) /\ \A d \in Conversations : RowsKept(d)
    BY <1>1 DEF Kept, CopyKept
<1>3. Onward  BY <1>1, UnchangedTurns
<1>4. click' = [l \in Clicks |-> IF l = k THEN IdleClick ELSE click[l]] /\ IsClick(IdleClick) /\ IdleClick.pc = "idle"
    BY <1>1 DEF Kept, IsClick, ClickFields, IdleClick
<1>5. /\ chat' = [d \in Conversations |-> IF d = c THEN [i \in DOMAIN chat[c] |-> Marked(chat[c][i])] ELSE chat[d]]
    BY <1>1 DEF Kept
<1> HIDE DEF written
<1>6. ASSUME NEW m, IsMessage(m)
      PROVE  /\ IsMessage(Marked(m)) /\ Marked(m).id = m.id /\ Marked(m).pos = m.pos
             /\ m.id # id => Marked(m) = m
             /\ m.id = id => Marked(m).artifacts = written
  <2>1. CASE m.id = id
    <3> DEFINE r == [m EXCEPT !.artifacts = written]
    <3>1. IsMessage(r) /\ r.id = m.id /\ r.pos = m.pos /\ r.artifacts = written
      BY <1>6 DEF IsMessage, MessageFields
    <3>2. Marked(m) = r  BY <2>1
    <3> HIDE DEF r, Marked
    <3> QED BY <2>1, <3>1, <3>2
  <2>2. CASE m.id # id  BY <1>6, <2>2
  <2> QED BY <2>1, <2>2
<1> HIDE DEF Marked
<1>7. chat'[c] = [i \in DOMAIN chat[c] |-> Marked(chat[c][i])] /\ \A d \in Conversations : d # c => chat'[d] = chat[d]
    BY <1>2, <1>5
<1>8. Range(chat'[c]) = {Marked(m) : m \in Range(chat[c])}  BY <1>7 DEF Range
<1>9. chat'[c] \in Seq(Range(chat'[c]))
  <2>1. Len(chat[c]) \in Nat /\ DOMAIN chat[c] = 1..Len(chat[c])  BY <1>2 DEF RowsKept
  <2>2. chat'[c] \in [1..Len(chat[c]) -> Range(chat'[c])]  BY <1>7, <2>1 DEF Range
  <2>3. ASSUME NEW S, NEW n \in Nat, NEW f \in [1..n -> S] PROVE f \in Seq(S)  OBVIOUS
  <2> QED BY <2>1, <2>2, <2>3
<1>10. ASSUME NEW m \in Range(chat[c]), NEW n \in Range(chat[c]), Marked(m).id = Marked(n).id PROVE m = n
  <2>1. IsMessage(m) /\ IsMessage(n) /\ RowsKept(c)  BY <1>2 DEF RowsKept
  <2>2. m.id = n.id  BY <1>6, <1>10, <2>1
  <2> QED BY <2>1, <2>2 DEF RowsKept
<1>11. ASSUME NEW d \in Conversations PROVE RowsKept(d)'
  <2>0. RowsKept(d)  BY <1>2
  <2>1. CASE d # c
    <3>1. chat'[d] = chat[d]  BY <1>7, <2>1
    <3> QED BY <1>3, <2>0, <3>1, SpentStays DEF RowsKept
  <2>2. CASE d = c
    <3>1. ASSUME NEW n \in Range(chat'[c]) PROVE IsMessage(n) /\ n.pos \in Nat /\ Spent(n.id)'
      <4>1. PICK m \in Range(chat[c]) : n = Marked(m)  BY <1>8
      <4>2. IsMessage(m) /\ m.pos \in Nat /\ Spent(m.id)  BY <1>2 DEF RowsKept
      <4>3. Spent(m.id)'  BY <1>3, <4>2, SpentStays
      <4>4. n.id = m.id /\ n.pos = m.pos /\ IsMessage(n)  BY <1>6, <4>1, <4>2
      <4> QED BY <4>2, <4>3, <4>4
    <3>2. ASSUME NEW x \in Range(chat'[c]), NEW y \in Range(chat'[c]), x.id = y.id PROVE x = y
      <4>1. PICK m \in Range(chat[c]) : x = Marked(m)  BY <1>8
      <4>2. PICK n \in Range(chat[c]) : y = Marked(n)  BY <1>8
      <4>3. m = n  BY <1>10, <3>2, <4>1, <4>2
      <4> QED BY <4>1, <4>2, <4>3
    <3>3. chat'[d] = chat'[c]  BY <2>2
    <3> QED BY <1>9, <3>1, <3>2, <3>3 DEF RowsKept
  <2> QED BY <2>1, <2>2
<1>12. ASSUME NEW l \in Clicks PROVE IsClick(click'[l]) /\ CopyKept(l)'
  <2>1. CASE l = k
    <3>1. click'[l] = IdleClick  BY <1>4, <2>1
    <3> QED BY <1>4, <3>1 DEF CopyKept
  <2>2. CASE l # k
    <3>1. click'[l] = click[l] /\ CopyKept(l) /\ IsClick(click[l])
      BY <1>4, <2>2 DEF Kept
    <3>2. ASSUME click[l].pc # "idle"
          PROVE  /\ click[l].conv \in Conversations /\ Spent(click[l].msg)
                 /\ \/ click[l].msg \in raced
                    \/ \A m \in Range(chat'[click[l].conv]) : m.id = click[l].msg => m.artifacts = click[l].artifacts
                 /\ \A j \in Clicks :
                       j # l /\ click'[j].pc # "idle" /\ click'[j].msg = click[l].msg => click[l].msg \in raced
      <4>1. click[l].conv \in Conversations /\ Spent(click[l].msg)
        BY <3>1, <3>2 DEF CopyKept
      <4>2. ASSUME NEW j \in Clicks, j # l, click'[j].pc # "idle", click'[j].msg = click[l].msg
            PROVE  click[l].msg \in raced
        <5>1. j # k /\ click'[j] = click[j]  BY <1>4, <4>2
        <5> QED BY <3>1, <3>2, <4>2, <5>1 DEF CopyKept
      <4>3. ASSUME click[l].msg \notin raced, NEW n \in Range(chat'[click[l].conv]), n.id = click[l].msg
            PROVE  n.artifacts = click[l].artifacts
        <5>1. click[l].msg # id  BY <1>1, <2>2, <3>1, <3>2, <4>3 DEF CopyKept
        <5>2. \A m \in Range(chat[click[l].conv]) : m.id = click[l].msg => m.artifacts = click[l].artifacts
          BY <3>1, <3>2, <4>3 DEF CopyKept
        <5>3. n \in Range(chat[click[l].conv])
          <6>1. CASE click[l].conv # c  BY <1>7, <4>1, <4>3, <6>1
          <6>2. CASE click[l].conv = c
            <7>1. PICK m \in Range(chat[c]) : n = Marked(m)  BY <1>8, <4>3, <6>2
            <7>2. IsMessage(m)  BY <1>2 DEF RowsKept
            <7>3. m.id = n.id /\ n = m  BY <1>6, <4>3, <5>1, <7>1, <7>2
            <7> QED BY <6>2, <7>1, <7>3
          <6> QED BY <6>1, <6>2
        <5> QED BY <4>3, <5>2, <5>3
      <4> QED BY <4>1, <4>2, <4>3
    <3>3. Spent(click[l].msg) => Spent(click[l].msg)'  BY <1>1, <3>1 DEF Spent
    <3> QED BY <1>1, <3>1, <3>2, <3>3 DEF CopyKept
  <2> QED BY <2>1, <2>2
<1>13. Kept'  BY <1>3, <1>4, <1>5, <1>11, <1>12 DEF Kept, Onward
<1>14. ASSUME NEW d \in Conversations, NEW m \in Range(chat[d]), NEW n \in Range(chat'[d]), m.id = n.id,
              m.id \notin raced, NEW i \in DOMAIN m.artifacts,
              m.artifacts[i].state \in {"deleted", "failed", "cancelled"}
       PROVE  n.artifacts[i] = m.artifacts[i]
  <2>1. CASE d # c
    <3>1. n \in Range(chat[d])  BY <1>7, <2>1
    <3>2. n = m  BY <1>2, <1>14, <3>1 DEF RowsKept
    <3> QED BY <3>2
  <2>2. CASE d = c
    <3>1. PICK o \in Range(chat[c]) : n = Marked(o)  BY <1>8, <2>2
    <3>2. IsMessage(o) /\ m \in Range(chat[c])  BY <1>2, <2>2 DEF RowsKept
    <3>3. o.id = n.id /\ (o.id # id => n = o) /\ (o.id = id => n.artifacts = written)
      BY <1>6, <3>1, <3>2
    <3>4. o = m  BY <1>2, <1>14, <3>2, <3>3 DEF RowsKept
    <3>5. CASE m.id # id  BY <3>3, <3>4, <3>5
    <3>6. CASE m.id = id
      <4>1. m.artifacts = click[k].artifacts
        BY <1>1, <1>2, <1>14, <3>2, <3>6 DEF CopyKept
      <4>2. ~Waiting(m.artifacts[i], click[k].file)  BY <1>14 DEF Waiting
      <4>3. written[i] = m.artifacts[i]  BY <4>1, <4>2 DEF written, with_deletion_state
      <4> QED BY <3>3, <3>4, <3>6, <4>3
    <3> QED BY <3>5, <3>6
  <2> QED BY <2>1, <2>2
<1>15. DecisionsStand  BY <1>14 DEF DecisionsStand
<1> QED BY <1>13, <1>15 DEF KeptMove

LEMMA ClicksKeep == ASSUME Kept, ClickNext PROVE KeptMove
<1>0. IsClick(IdleClick) /\ IdleClick.pc = "idle"
    BY DEF IsClick, ClickFields, IdleClick
<1>1. ASSUME NEW k \in Clicks, NEW f, resolve_deletion(k, f) PROVE KeptMove
  <2>1. PICK c \in Conversations, approve \in BOOLEAN :
          \E flipped \in SUBSET Tied(c) : \E m \in pending_deletion(list_messages(c, MaxScan, flipped), f) :
              /\ click' = [click EXCEPT ![k] =
                    [pc |-> "act", conv |-> c, file |-> f, approve |-> approve,
                     msg |-> m.id, artifacts |-> m.artifacts, state |-> "pending"]]
              /\ raced' = raced \cup (IF \E l \in Clicks : click[l].msg = m.id THEN {m.id} ELSE {})
    BY <1>1 DEF resolve_deletion
  <2>2. PICK flipped \in SUBSET Tied(c) : \E m \in pending_deletion(list_messages(c, MaxScan, flipped), f) :
              /\ click' = [click EXCEPT ![k] =
                    [pc |-> "act", conv |-> c, file |-> f, approve |-> approve,
                     msg |-> m.id, artifacts |-> m.artifacts, state |-> "pending"]]
              /\ raced' = raced \cup (IF \E l \in Clicks : click[l].msg = m.id THEN {m.id} ELSE {})
    BY <2>1
  <2>3. PICK m \in pending_deletion(list_messages(c, MaxScan, flipped), f) :
              /\ click' = [click EXCEPT ![k] =
                    [pc |-> "act", conv |-> c, file |-> f, approve |-> approve,
                     msg |-> m.id, artifacts |-> m.artifacts, state |-> "pending"]]
              /\ raced' = raced \cup (IF \E l \in Clicks : click[l].msg = m.id THEN {m.id} ELSE {})
    BY <2>2
  <2>4. RowsKept(c) /\ m \in Range(chat[c])  BY PendingIsRow DEF Kept
  <2> PICK r : r = [pc |-> "act", conv |-> c, file |-> f, approve |-> approve,
                    msg |-> m.id, artifacts |-> m.artifacts, state |-> "pending"]
    OBVIOUS
  <2>5. IsClick(r) /\ r.conv = c /\ r.msg = m.id /\ r.artifacts = m.artifacts
    BY DEF IsClick, ClickFields
  <2>6. Spent(r.msg) /\ \A n \in Range(chat[c]) : n.id = r.msg => n.artifacts = r.artifacts
    BY <2>4, <2>5 DEF RowsKept
  <2>7. \A l \in Clicks : click[l].msg = r.msg => r.msg \in raced'  BY <2>3, <2>5
  <2>8. turn' = turn /\ chat' = chat /\ raced \subseteq raced'
    BY <1>1, <2>3 DEF resolve_deletion, NoChat
  <2>9. click' = [click EXCEPT ![k] = r]  BY <2>3
  <2> QED BY <2>5, <2>6, <2>7, <2>8, <2>9, ClickStands
<1>2. ASSUME NEW k \in Clicks, ClickActs(k) PROVE KeptMove
  <2>0. IsClick(click[k]) /\ click[k].pc = "act" /\ CopyKept(k) /\ click = [l \in Clicks |-> click[l]]
    BY <1>2 DEF Kept, ClickActs
  <2>1. PICK state : click' = [click EXCEPT ![k].pc = "mark", ![k].state = state]
    BY <1>2 DEF ClickActs
  <2> PICK r : r = [click[k] EXCEPT !.pc = "mark", !.state = state]  OBVIOUS
  <2>2. IsClick(r) /\ r.conv = click[k].conv /\ r.msg = click[k].msg /\ r.artifacts = click[k].artifacts
    BY <2>0 DEF IsClick, ClickFields
  <2>3. click' = [click EXCEPT ![k] = r]  BY <2>0, <2>1 DEF IsClick, ClickFields
  <2>4. turn' = turn /\ chat' = chat /\ raced' = raced  BY <1>2 DEF ClickActs, NoChat
  <2>5. /\ click[k].conv \in Conversations /\ Spent(click[k].msg)
        /\ \/ click[k].msg \in raced
           \/ \A m \in Range(chat[click[k].conv]) : m.id = click[k].msg => m.artifacts = click[k].artifacts
        /\ \A l \in Clicks : l # k /\ click[l].pc # "idle" /\ click[l].msg = click[k].msg => click[k].msg \in raced
    BY <2>0 DEF CopyKept
  <2>6. /\ r.conv \in Conversations /\ Spent(r.msg)
        /\ \/ r.msg \in raced'
           \/ \A m \in Range(chat[r.conv]) : m.id = r.msg => m.artifacts = r.artifacts
        /\ \A l \in Clicks : l # k /\ click[l].pc # "idle" /\ click[l].msg = r.msg => r.msg \in raced'
    BY <2>2, <2>4, <2>5
  <2> QED BY <2>2, <2>3, <2>4, <2>6, ClickStands
<1>3. ASSUME NEW k \in Clicks, ClickLost(k) PROVE KeptMove
  <2>1. turn' = turn /\ chat' = chat /\ raced' = raced /\ click' = [click EXCEPT ![k] = IdleClick]
    BY <1>3 DEF ClickLost, NoChat
  <2> QED BY <1>0, <2>1, ClickStands
<1> QED BY <1>1, <1>2, <1>3, MarkKeeps DEF ClickNext

LEMMA KeptInit == Init => Kept
<1> SUFFICES ASSUME Init PROVE Kept  OBVIOUS
<1>1. PICK s \in Scenarios : InitAssistant(s.transcript)  BY DEF Init
<1>2. chat = s.transcript /\ IsTranscript(chat)
    BY <1>1, ScenarioAssumption DEF InitAssistant
<1>3. turn = [t \in Turns |-> IdleTurn] /\ click = [k \in Clicks |-> IdleClick]
    BY <1>1 DEF InitAssistant
<1>4. TurnKept(IdleTurn)  BY DEF TurnKept, IdleTurn, Appending
<1>5. IsClick(IdleClick) /\ IdleClick.pc = "idle"
    BY DEF IsClick, ClickFields, IdleClick
<1>6. ASSUME NEW c \in Conversations PROVE RowsKept(c)
  <2>1. /\ chat[c] \in Seq(Range(chat[c]))
        /\ \A m \in Range(chat[c]) :
              /\ m = Message(m.id, m.pos, m.role, m.calls, m.answers, m.artifacts, m.attached, m.ws)
              /\ m.pos \in Nat /\ m.id \notin Turns \X Nat
        /\ \A i, j \in DOMAIN chat[c] : chat[c][i].id = chat[c][j].id => i = j
    BY <1>2 DEF IsTranscript
  <2>2. ASSUME NEW m \in Range(chat[c]) PROVE IsMessage(m)
    BY <2>1 DEF Message, IsMessage, MessageFields
  <2>3. \A m, n \in Range(chat[c]) : m.id = n.id => m = n  BY <2>1 DEF Range
  <2>4. ASSUME NEW m \in Range(chat[c]) PROVE Spent(m.id)
    <3>1. m.id \notin Turns \X Nat  BY <2>1
    <3>2. ASSUME NEW t \in Turns, NEW n \in Nat, m.id = <<t, n>> PROVE FALSE
      BY <3>1, <3>2
    <3> QED BY <3>2 DEF Spent
  <2> QED BY <2>1, <2>2, <2>3, <2>4 DEF RowsKept
<1>7. chat = [c \in Conversations |-> chat[c]]  BY <1>2 DEF IsTranscript
<1> QED BY <1>3, <1>4, <1>5, <1>6, <1>7 DEF Kept, CopyKept

LEMMA KeptStep == ASSUME Acting, Kept, [Next]_vars PROVE KeptMove
<1>1. ASSUME Onward, UNCHANGED <<chat, click, raced>> PROVE KeptMove
  <2>1. /\ chat' = [c \in Conversations |-> chat'[c]]
        /\ \A c \in Conversations : chat'[c] \in Seq(Range(chat'[c])) /\ Range(chat'[c]) \subseteq Range(chat[c])
    BY <1>1 DEF Kept, RowsKept
  <2> QED BY <1>1, <2>1, RowsStand
<1>2. CASE TurnNext
  <2>1. PICK t \in Turns :
            \/ \E answers \in BOOLEAN : stream_chat(t, answers)
            \/ load_or_create_conversation(t) \/ CountRow(t) \/ add_message(t) \/ ReadHistory(t)
            \/ \E n \in Nat : ModelReplies(t, n)
            \/ \E name : RunTool(t, name)
            \/ Conclude(t) \/ TurnEnds(t)
    <3>1. 1..MaxCalls \subseteq Nat /\ 0 \in Nat  OBVIOUS
    <3>2. Answers \subseteq BOOLEAN  BY DEF Answers
    <3> QED BY <1>2, <3>1, <3>2 DEF TurnNext
  <2>2. CASE add_message(t)  BY <2>2, AppendKeeps
  <2>3. CASE ~add_message(t)
    <3>1. GoesOn(t)  BY <2>1, <2>3, TurnsGoOn
    <3>2. Onward  BY <3>1, GoesOnward
    <3>3. UNCHANGED <<chat, click, raced>>
      BY <2>1, <2>3 DEF stream_chat, load_or_create_conversation, CountRow, ReadHistory, ModelReplies, RunTool,
                        Conclude, TurnEnds, NoChat, NoClick
    <3> QED BY <1>1, <3>2, <3>3
  <2> QED BY <2>2, <2>3
<1>3. CASE ConversationNext  BY <1>3, ConversationsKeep
<1>4. CASE ClickNext  BY <1>4, ClicksKeep
<1>5. CASE AskNext \/ McpNext \/ TelemetryNext \/ OwnerNext \/ LlmNext \/ EventNext \/ UNCHANGED vars
  <2>1. CASE AskNext
    <3>1. turn' = turn /\ UNCHANGED <<chat, click, raced>>
      BY <2>1 DEF AskNext, summarize_file, recommend, HourRolls, NoChat, NoClick
    <3> QED BY <1>1, <3>1, UnchangedTurns
  <2>2. CASE ~AskNext
    <3>1. UNCHANGED <<turn, chatVars>>
      BY <1>5, <2>2 DEF McpNext, TelemetryNext, OwnerNext, LlmNext, EventNext, vars,
                        BesideMcp, BesideTelemetry, BesideLlm, BesideEvents
    <3>2. turn' = turn /\ UNCHANGED <<chat, click, raced>>  BY <3>1 DEF chatVars
    <3> QED BY <1>1, <3>2, UnchangedTurns
  <2> QED BY <2>1, <2>2
<1> QED BY <1>2, <1>3, <1>4, <1>5 DEF Next

LEMMA DecisionsKept == Spec => DecisionKept
<1>1. Acting /\ Metering /\ Kept /\ [Next]_vars => (Acting /\ Metering /\ Kept)'
    BY BoundedStep, KeptStep DEF KeptMove
<1>2. Acting /\ Kept /\ [Next]_vars => [DecisionsStand]_chat  BY KeptStep DEF KeptMove
<1> QED BY <1>1, <1>2, BoundedInit, KeptInit, PTL DEF Spec, DecisionKept, DecisionsStand

(* In every step of every agent, however turns, edits, clicks, the owner   *)
(* and other agents interleave: a decision written into the transcript     *)
(* stands unless two clicks met on its message, and a tool called over MCP *)
(* does no more than its annotations, its scope and its outcome say        *)
(* (resolve_deletion, update_message_meta, register_tools): for any        *)
(* transcript, account and grant.                                          *)
THEOREM StepsHonestTheorem == Spec => StepsHonest
BY DecisionsKept, HintsKept, PTL DEF StepsHonest

----------------------------------------------------------------------------
(* The folders below a folder                                              *)

(* f[n] is what F makes of start in n steps.                               *)
Iter(f, F, start, N) == f = [n \in 0..N |-> IF n = 0 THEN start ELSE F[f[n - 1]]]

LEMMA IterExists ==
    ASSUME NEW F, NEW start, NEW N \in Nat
    PROVE  \E f : Iter(f, F, start, N)
<1> DEFINE B == {n \in Nat : ~\E f : Iter(f, F, start, n)}
<1> SUFFICES ASSUME B # {} PROVE FALSE  OBVIOUS
<1>1. PICK m \in B : \A n \in B : m <= n
  <2>1. B \subseteq Nat  OBVIOUS
  <2> HIDE DEF B
  <2> QED BY <2>1, MinIsLeast
<1>2. CASE m = 0
  <2> DEFINE f == [n \in 0..0 |-> start]
  <2>1. Iter(f, F, start, 0)  BY DEF Iter
  <2> QED BY <1>1, <1>2, <2>1
<1>3. CASE m # 0
  <2>1. m - 1 \in Nat /\ m - 1 \notin B  BY <1>1, <1>3
  <2>2. PICK g : Iter(g, F, start, m - 1)  BY <2>1
  <2> DEFINE f == [n \in 0..m |-> IF n = m THEN F[g[m - 1]] ELSE g[n]]
  <2>3. ASSUME NEW n \in 0..m PROVE f[n] = IF n = 0 THEN start ELSE F[f[n - 1]]
    <3>1. CASE n = m
      <4>1. m - 1 \in 0..m /\ m - 1 # m  BY <1>3
      <4> QED BY <1>3, <3>1, <4>1
    <3>2. CASE n # m
      <4>1. n \in 0..(m - 1) /\ (n # 0 => n - 1 \in 0..m /\ n - 1 # m)  BY <3>2
      <4>2. g[n] = IF n = 0 THEN start ELSE F[g[n - 1]]  BY <2>2, <4>1 DEF Iter
      <4> QED BY <3>2, <4>1, <4>2
    <3> QED BY <3>1, <3>2
  <2>4. f = [n \in 0..m |-> IF n = 0 THEN start ELSE F[f[n - 1]]]
    <3>1. f = [n \in 0..m |-> f[n]]  OBVIOUS
    <3> HIDE DEF f
    <3> QED BY <2>3, <3>1
  <2>5. Iter(f, F, start, m)
    <3> HIDE DEF f
    <3> QED BY <2>4 DEF Iter
  <2> QED BY <1>1, <2>5
<1> QED BY <1>2, <1>3

(* A walk that never loses what it has seen stands still after as many     *)
(* steps as there are further elements.                                    *)
LEMMA IterCloses ==
    ASSUME NEW P, IsFiniteSet(P), NEW F \in [SUBSET P -> SUBSET P],
           \A s \in SUBSET P : s \subseteq F[s],
           NEW start \in SUBSET P, start # {},
           NEW N \in Nat, Cardinality(P) <= N + 1,
           NEW f, Iter(f, F, start, N)
    PROVE  f[N] \in SUBSET P /\ start \subseteq f[N] /\ F[f[N]] = f[N]
<1> DEFINE Good(n) == /\ f[n] \in SUBSET P /\ start \subseteq f[n]
                      /\ F[f[n]] = f[n] \/ Cardinality(f[n]) >= n + 1
           B == {n \in 0..N : ~Good(n)}
<1>1. B = {}
  <2> SUFFICES ASSUME B # {} PROVE FALSE  OBVIOUS
  <2>1. PICK m \in B : \A n \in B : m <= n
    <3>1. B \subseteq Nat  OBVIOUS
    <3> HIDE DEF B
    <3> QED BY <3>1, MinIsLeast
  <2>2. f[m] = IF m = 0 THEN start ELSE F[f[m - 1]]  BY <2>1 DEF Iter
  <2>3. CASE m = 0
    <3>1. IsFiniteSet(start) /\ Cardinality(start) \in Nat /\ Cardinality(start) # 0
      BY FS_Subset, FS_CardinalityType, FS_EmptySet
    <3> QED BY <2>1, <2>2, <2>3, <3>1
  <2>4. CASE m # 0
    <3> DEFINE s == f[m - 1]  t == f[m]
    <3>1. m - 1 \in 0..N /\ m - 1 \notin B  BY <2>1, <2>4
    <3>2. Good(m - 1)  BY <3>1
    <3>3. s \in SUBSET P /\ start \subseteq s /\ (F[s] = s \/ Cardinality(s) >= m)
      BY <2>1, <3>2
    <3>4. t = F[s]  BY <2>2, <2>4
    <3>5. t \in SUBSET P /\ start \subseteq t /\ s \subseteq t  BY <3>3, <3>4
    <3>6. F[t] = t \/ Cardinality(t) >= m + 1
      <4>1. CASE t = s  BY <3>3, <3>4, <4>1
      <4>2. CASE t # s
        <5>1. IsFiniteSet(t) /\ IsFiniteSet(s)  BY <3>3, <3>5, FS_Subset
        <5>2. Cardinality(s) <= Cardinality(t) /\ Cardinality(s) # Cardinality(t)
          BY <3>5, <4>2, <5>1, FS_Subset
        <5>3. Cardinality(s) \in Nat /\ Cardinality(t) \in Nat
          BY <5>1, FS_CardinalityType
        <5>4. Cardinality(s) >= m  BY <3>3, <3>4, <4>2
        <5> QED BY <2>1, <5>2, <5>3, <5>4
      <4> QED BY <4>1, <4>2
    <3> QED BY <2>1, <3>5, <3>6
  <2> QED BY <2>3, <2>4
<1>2. Good(N)  BY <1>1
<1>3. CASE F[f[N]] # f[N]
  <2>1. IsFiniteSet(f[N]) /\ Cardinality(f[N]) <= Cardinality(P) /\ Cardinality(P) \in Nat
    BY <1>2, FS_Subset, FS_CardinalityType
  <2>2. Cardinality(f[N]) \in Nat  BY <2>1, FS_CardinalityType
  <2>3. Cardinality(f[N]) = Cardinality(P)  BY <1>2, <1>3, <2>1, <2>2
  <2>4. f[N] = P  BY <1>2, <2>1, <2>3, FS_Subset
  <2>5. F[P] \in SUBSET P /\ P \subseteq F[P]
    <3>1. P \in SUBSET P  OBVIOUS
    <3> QED BY <3>1
  <2> QED BY <1>3, <2>4, <2>5
<1> QED BY <1>2, <1>3

(* The folders below d, where par[x] is the folder x is in.                *)
Under(par, d) ==
    LET below[n \in 0..Cardinality(Folders)] ==
            IF n = 0 THEN {d} ELSE below[n - 1] \cup UNION {{x \in Folders : par[x] = e} : e \in below[n - 1]}
    IN below[Cardinality(Folders)]

(* It has the folder and, with a folder, all that are in it, and nothing   *)
(* that it need not have.                                                  *)
LEMMA UnderClosed ==
    ASSUME NEW par, NEW d \in Folders
    PROVE  /\ Under(par, d) \in SUBSET Folders /\ d \in Under(par, d)
           /\ \A x \in Folders : par[x] \in Under(par, d) => x \in Under(par, d)
           /\ \A X \in SUBSET Folders :
                 d \in X /\ (\A x \in Folders : par[x] \in X => x \in X) => Under(par, d) \subseteq X
<1> DEFINE N == Cardinality(Folders)
           start == {d}
           F == [s \in SUBSET Folders |-> s \cup UNION {{x \in Folders : par[x] = e} : e \in s}]
           Walk(f) == f = [n \in 0..N |-> IF n = 0 THEN start
                             ELSE f[n - 1] \cup UNION {{x \in Folders : par[x] = e} : e \in f[n - 1]}]
           below == CHOOSE f : Walk(f)
<1>1. N \in Nat /\ IsFiniteSet(Folders) /\ Cardinality(Folders) <= N + 1
  <2>1. IsFiniteSet(Folders) /\ Cardinality(Folders) \in Nat
    BY DriveAssumption, FS_CardinalityType
  <2> QED BY <2>1
<1>2. start \in SUBSET Folders /\ start # {}  OBVIOUS
<1>3. F \in [SUBSET Folders -> SUBSET Folders] /\ \A s \in SUBSET Folders : s \subseteq F[s]
  OBVIOUS
<1>4. ASSUME NEW f, Walk(f) PROVE Iter(f, F, start, N)
  <2> DEFINE B == {n \in 0..N : f[n] \notin SUBSET Folders}
  <2>1. ASSUME NEW n \in 0..N
        PROVE  f[n] = IF n = 0 THEN start
                      ELSE f[n - 1] \cup UNION {{x \in Folders : par[x] = e} : e \in f[n - 1]}
    BY <1>4
  <2> HIDE DEF start
  <2>2. B = {}
    <3> SUFFICES ASSUME B # {} PROVE FALSE  OBVIOUS
    <3>1. PICK m \in B : \A n \in B : m <= n
      <4>1. B \subseteq Nat  BY <1>1
      <4> HIDE DEF B
      <4> QED BY <4>1, MinIsLeast
    <3>2. m # 0  BY <1>2, <2>1, <3>1
    <3>3. m - 1 \in 0..N /\ m - 1 \notin B  BY <1>1, <3>1, <3>2
    <3>4. f[m - 1] \in SUBSET Folders  BY <3>3
    <3>5. f[m] = f[m - 1] \cup UNION {{x \in Folders : par[x] = e} : e \in f[m - 1]}
      BY <2>1, <3>1, <3>2
    <3>6. f[m] \in SUBSET Folders  BY <3>4, <3>5
    <3> QED BY <3>1, <3>6
  <2>3. ASSUME NEW n \in 0..N PROVE f[n] = IF n = 0 THEN start ELSE F[f[n - 1]]
    <3>1. CASE n # 0
      <4>1. n - 1 \in 0..N  BY <1>1, <3>1
      <4>2. f[n - 1] \in SUBSET Folders  BY <2>2, <4>1
      <4>3. F[f[n - 1]] = f[n - 1] \cup UNION {{x \in Folders : par[x] = e} : e \in f[n - 1]}
        BY <4>2
      <4> QED BY <2>1, <3>1, <4>3
    <3> QED BY <2>1, <3>1
  <2>4. f = [n \in 0..N |-> f[n]]  BY <1>4
  <2> HIDE DEF F, Walk
  <2> QED BY <2>3, <2>4 DEF Iter
<1>5. \E f : Walk(f)
  <2>1. PICK f : Iter(f, F, start, N)  BY <1>1, IterExists
  <2> DEFINE B == {n \in 0..N : f[n] \notin SUBSET Folders}
  <2>2. ASSUME NEW n \in 0..N PROVE f[n] = IF n = 0 THEN start ELSE F[f[n - 1]]
    <3> HIDE DEF F, start
    <3> QED BY <2>1 DEF Iter
  <2>3. B = {}
    <3> SUFFICES ASSUME B # {} PROVE FALSE  OBVIOUS
    <3>1. PICK m \in B : \A n \in B : m <= n
      <4>1. B \subseteq Nat  BY <1>1
      <4> HIDE DEF B
      <4> QED BY <4>1, MinIsLeast
    <3> HIDE DEF F, start
    <3>2. m # 0  BY <1>2, <2>2, <3>1
    <3>3. m - 1 \in 0..N /\ m - 1 \notin B  BY <1>1, <3>1, <3>2
    <3>4. f[m - 1] \in SUBSET Folders /\ f[m] = F[f[m - 1]]  BY <2>2, <3>1, <3>2, <3>3
    <3> QED BY <1>3, <3>1, <3>4
  <2>4. ASSUME NEW n \in 0..N
        PROVE  f[n] = IF n = 0 THEN start
                      ELSE f[n - 1] \cup UNION {{x \in Folders : par[x] = e} : e \in f[n - 1]}
    <3>1. CASE n # 0
      <4>1. n - 1 \in 0..N  BY <1>1, <3>1
      <4>2. f[n - 1] \in SUBSET Folders  BY <2>3, <4>1
      <4>3. F[f[n - 1]] = f[n - 1] \cup UNION {{x \in Folders : par[x] = e} : e \in f[n - 1]}
        BY <4>2
      <4> QED BY <2>2, <3>1, <4>3
    <3> QED BY <2>2, <3>1
  <2>5. f = [n \in 0..N |-> f[n]]
    <3> HIDE DEF F, start
    <3> QED BY <2>1 DEF Iter
  <2>6. Walk(f)
    <3> HIDE DEF F, start
    <3> QED BY <2>4, <2>5
  <2> QED BY <2>6
<1>6. Walk(below)
  <2> HIDE DEF Walk
  <2> QED BY <1>5
<1>7. Under(par, d) = below[N]  BY DEF Under
<1>8. Iter(below, F, start, N)
  <2> HIDE DEF below, F, Walk
  <2> QED BY <1>4, <1>6
<1>9. below[N] \in SUBSET Folders /\ start \subseteq below[N] /\ F[below[N]] = below[N]
  <2> HIDE DEF below, F, start, N
  <2>1. PICK P, G, M, S, f : P = Folders /\ G = F /\ M = N /\ S = start /\ f = below
    OBVIOUS
  <2>2. IsFiniteSet(P) /\ Cardinality(P) <= M + 1 /\ M \in Nat  BY <1>1, <2>1
  <2>3. G \in [SUBSET P -> SUBSET P] /\ \A s \in SUBSET P : s \subseteq G[s]
    BY <1>3, <2>1
  <2>4. S \in SUBSET P /\ S # {} /\ Iter(f, G, S, M)  BY <1>2, <1>8, <2>1
  <2>5. f[M] \in SUBSET P /\ S \subseteq f[M] /\ G[f[M]] = f[M]
    BY <2>2, <2>3, <2>4, IterCloses
  <2> QED BY <2>1, <2>5
<1>10. ASSUME NEW X \in SUBSET Folders, d \in X, \A x \in Folders : par[x] \in X => x \in X
       PROVE  below[N] \subseteq X
  <2> DEFINE B == {n \in 0..N : ~(below[n] \subseteq X)}
  <2>1. ASSUME NEW n \in 0..N
        PROVE  below[n] = IF n = 0 THEN start
                         ELSE below[n - 1] \cup UNION {{x \in Folders : par[x] = e} : e \in below[n - 1]}
    <3> HIDE DEF below
    <3> QED BY <1>6
  <2> HIDE DEF below
  <2>2. B = {}
    <3> SUFFICES ASSUME B # {} PROVE FALSE  OBVIOUS
    <3>1. PICK m \in B : \A n \in B : m <= n
      <4>1. B \subseteq Nat  BY <1>1
      <4> HIDE DEF B
      <4> QED BY <4>1, MinIsLeast
    <3>2. m # 0  BY <1>10, <2>1, <3>1
    <3>3. m - 1 \in 0..N /\ m - 1 \notin B  BY <1>1, <3>1, <3>2
    <3>4. below[m - 1] \subseteq X  BY <3>3
    <3>5. below[m] = below[m - 1] \cup UNION {{x \in Folders : par[x] = e} : e \in below[m - 1]}
      BY <2>1, <3>1, <3>2
    <3>6. below[m] \subseteq X  BY <1>10, <3>4, <3>5
    <3> QED BY <3>1, <3>6
  <2>3. N \in 0..N  BY <1>1
  <2> QED BY <2>2, <2>3
<1> HIDE DEF below
<1> QED BY <1>7, <1>9, <1>10

----------------------------------------------------------------------------
(* A confined call stays in its folder                                     *)

(* The folders in reach of a binding to d; none when d is gone.            *)
TreeAt(par, d) == IF d \in Folders /\ par[d] \in Places THEN Under(par, d) ELSE {}

LEMMA ScopeIsTree ==
    ASSUME NEW d \in Places
    PROVE  /\ (IF d = Root THEN {} ELSE resolve_folder_scope(d)) = TreeAt(parent, d)
           /\ (IF d = Root THEN {} ELSE resolve_folder_scope(d)') = TreeAt(parent', d)
<1>1. d \in Folders <=> d # Root  BY DriveAssumption DEF Places
<1>2. ASSUME d # Root PROVE resolve_folder_scope(d) = IF get_folder(d) THEN Under(parent, d) ELSE {}
    BY DEF resolve_folder_scope, Under, list_by_parent
<1>3. ASSUME d # Root PROVE resolve_folder_scope(d)' = IF get_folder(d)' THEN Under(parent', d) ELSE {}
    BY DEF resolve_folder_scope, Under, list_by_parent
<1> QED BY <1>1, <1>2, <1>3 DEF TreeAt, get_folder

LEMMA TreeShape ==
    ASSUME NEW par, NEW d
    PROVE  TreeAt(par, d) \subseteq Folders /\ (TreeAt(par, d) # {} => d \in TreeAt(par, d))
<1>1. CASE d \in Folders /\ par[d] \in Places  BY <1>1, UnderClosed DEF TreeAt
<1>2. CASE ~(d \in Folders /\ par[d] \in Places)  BY <1>2 DEF TreeAt
<1> QED BY <1>1, <1>2

(* What was in reach stays there, and what was there is where it was or    *)
(* gone.                                                                   *)
Grows ==
    /\ \A d \in Places : TreeAt(parent, d) \subseteq TreeAt(parent', d)
    /\ \A f \in Files : place[f] \in Folders \cup {Gone} => place'[f] \in {place[f], Gone}

LEMMA SamePlacesGrow == UNCHANGED <<place, parent>> => Grows
BY DEF Grows

(* A new folder adds to what its parent is part of.                        *)
LEMMA FolderGrows ==
    ASSUME Shaped, NEW d \in Folders, NEW p, parent[d] = Fresh, create_folder(d, p)
    PROVE  Grows /\ (\A e : p \in TreeAt(parent, e) => d \in TreeAt(parent', e))
<1>0. Fresh \notin Places /\ Fresh \notin Folders  BY DriveAssumption DEF Places
<1>1. \A x \in Folders : x # d => parent'[x] = parent[x]  BY DEF create_folder, Shaped
<1>2. parent'[d] = p  BY DEF create_folder, Shaped
<1>3. ASSUME NEW e, TreeAt(parent, e) # {}
      PROVE  /\ TreeAt(parent, e) \subseteq TreeAt(parent', e)
             /\ p \in TreeAt(parent, e) => d \in TreeAt(parent', e)
  <2>1. e \in Folders /\ parent[e] \in Places /\ TreeAt(parent, e) = Under(parent, e)
    BY <1>3 DEF TreeAt
  <2>2. e # d /\ parent'[e] \in Places  BY <1>0, <1>1, <2>1
  <2>3. TreeAt(parent', e) = Under(parent', e)  BY <2>1, <2>2 DEF TreeAt
  <2>4. PICK X : X = Under(parent', e)  OBVIOUS
  <2>5. X \in SUBSET Folders /\ e \in X /\ \A x \in Folders : parent'[x] \in X => x \in X
    BY <2>1, <2>4, UnderClosed
  <2>6. \A x \in Folders : parent[x] \in X => x \in X  BY <1>0, <1>1, <2>5
  <2>7. Under(parent, e) \subseteq X  BY <2>1, <2>5, <2>6, UnderClosed
  <2>8. p \in X => d \in X  BY <1>2, <2>5
  <2> QED BY <2>1, <2>3, <2>4, <2>7, <2>8
<1>4. \A e : TreeAt(parent, e) \subseteq TreeAt(parent', e)
  <2> SUFFICES ASSUME NEW e PROVE TreeAt(parent, e) \subseteq TreeAt(parent', e)
    OBVIOUS
  <2>1. CASE TreeAt(parent, e) # {}  BY <1>3, <2>1
  <2>2. CASE TreeAt(parent, e) = {}  BY <2>2
  <2> QED BY <2>1, <2>2
<1>5. Grows  BY <1>4 DEF Grows, create_folder
<1> QED BY <1>3, <1>5

(* A new file is none that a call has been given.                          *)
LEMMA FileGrows ==
    ASSUME Shaped, NEW f \in Files, NEW p, place[f] = Fresh \/ p = Gone, move_file(f, p)
    PROVE  Grows /\ place'[f] = p /\ parent' = parent
<1>1. Fresh \notin Folders \cup {Gone}  BY DriveAssumption
<1>2. place' = [place EXCEPT ![f] = p] /\ parent' = parent  BY DEF move_file
<1>3. place'[f] = p /\ \A g \in Files : g # f => place'[g] = place[g]
    BY <1>2 DEF Shaped
<1>4. \A g \in Files : place[g] \in Folders \cup {Gone} => place'[g] \in {place[g], Gone}
    BY <1>1, <1>3
<1> QED BY <1>2, <1>3, <1>4 DEF Grows

(* What a call has been given and has made is in reach of its binding, and *)
(* so is all it may still work with.                                       *)
InReach(r, pl, par) ==
    LET tree == TreeAt(par, r.bound)
    IN /\ r.bound \in Places /\ r.files \subseteq Files
       /\ r.pc = "idle" => ~r.confined
       /\ r.confined /\ ~r.stale =>
             /\ r.pc = "own" \/ (r.pc = "act" /\ r.tool \notin DOMAIN WorkspaceTools) =>
                   r.reach \subseteq tree /\ r.bound \in tree
             /\ \A f \in r.files : pl[f] \in tree \cup {Gone}
             /\ r.dest \subseteq tree

Confining == Guarded /\ \A c \in Calls : InReach(call[c], place, parent)

LEMMA GrowsInReach ==
    ASSUME Grows, NEW r, InReach(r, place, parent)
    PROVE  InReach(r, place', parent')
<1>1. r.bound \in Places /\ r.files \subseteq Files  BY DEF InReach
<1>2. PICK T : T = TreeAt(parent, r.bound)  OBVIOUS
<1>3. PICK U : U = TreeAt(parent', r.bound)  OBVIOUS
<1>4. T \subseteq U  BY <1>1, <1>2, <1>3 DEF Grows
<1>5. T \subseteq Folders  BY <1>2, TreeShape
<1>6. ASSUME NEW f \in r.files, place[f] \in T \cup {Gone} PROVE place'[f] \in U \cup {Gone}
  <2>1. place'[f] \in {place[f], Gone}  BY <1>1, <1>5, <1>6 DEF Grows
  <2> QED BY <1>4, <1>6, <2>1
<1> QED BY <1>2, <1>3, <1>4, <1>6 DEF InReach

(* A step of one call.                                                     *)
LEMMA OneInReach ==
    ASSUME Confining, Grows, NEW c \in Calls, NEW r, call' = [call EXCEPT ![c] = r],
           InReach(r, place', parent'), Guarded'
    PROVE  Confining'
<1>1. \A d \in Calls : call'[d] = IF d = c THEN r ELSE call[d]
    BY DEF Confining, Guarded, Shaped
<1>2. ASSUME NEW d \in Calls PROVE InReach(call'[d], place', parent')
    BY <1>1, GrowsInReach DEF Confining
<1> QED BY <1>2 DEF Confining

(* A tool's answer is in reach.                                            *)
Serves(c) ==
    \E outcome, files, dest :
        /\ classify(c, outcome, files, dest) /\ files \subseteq Files
        /\ call[c].confined /\ ~call[c].stale =>
              /\ \A f \in files : place'[f] \in TreeAt(parent', call[c].bound) \cup {Gone}
              /\ dest \subseteq TreeAt(parent', call[c].bound)

LEMMA AnswersServe ==
    ASSUME NEW c
    PROVE  /\ Refuse(c) => Serves(c) /\ Grows
           /\ OutOfReach(c) => Serves(c) /\ Grows
           /\ failures_as_values(c) => Serves(c) /\ Grows
           /\ Answer(c, {}) => Serves(c) /\ Grows
           /\ Done(c, {}, {}) => Serves(c)
<1>1. ASSUME NEW outcome, classify(c, outcome, {}, {}) PROVE Serves(c)
    BY <1>1 DEF Serves
<1>2. NoChange => Grows  BY SamePlacesGrow DEF NoChange, driveVars
<1> QED BY <1>1, <1>2 DEF Refuse, OutOfReach, failures_as_values, Answer, Done

LEMMA DocumentToolNames ==
    {"list_files", "list_folders", "create_folder", "save_file", "upload_file"} \cap DOMAIN WorkspaceTools = {}
BY DEF WorkspaceTools

(* What a call may name is in reach of its binding.                        *)
LEMMA NamedInReach ==
    ASSUME Confining, NEW c \in Calls, call[c].confined, ~call[c].stale, call[c].pc = "act",
           call[c].tool \notin DOMAIN WorkspaceTools
    PROVE  /\ \A p \in NamedFolders(c) : p \in TreeAt(parent, call[c].bound)
           /\ \A p : allows(c, p) => p \in TreeAt(parent, call[c].bound)
<1>1. call[c].reach \subseteq TreeAt(parent, call[c].bound) /\ call[c].bound \in TreeAt(parent, call[c].bound)
    BY DEF Confining, InReach
<1> QED BY <1>1 DEF NamedFolders, allows

LEMMA ListingServes ==
    ASSUME Confining, NEW c \in Calls, call[c].pc = "act", call[c].tool \notin DOMAIN WorkspaceTools,
           mcp_list_files(c) \/ mcp_list_folders(c)
    PROVE  Serves(c) /\ Grows
<1> DEFINE tree == TreeAt(parent, call[c].bound)
           strict == call[c].confined /\ ~call[c].stale
<1>0. strict => /\ \A p \in NamedFolders(c) : p \in tree
                /\ \A p : allows(c, p) => p \in tree
    BY NamedInReach
<1>1. tree \subseteq Folders  BY TreeShape
<1>2. NoChange  BY ReadingTools
<1>3. Grows /\ place' = place /\ parent' = parent
    BY <1>2, SamePlacesGrow DEF NoChange, driveVars
<1>4. ASSUME NEW files \in SUBSET Files, NEW dest, Done(c, files, dest),
             strict => (\A f \in files : place[f] \in tree) /\ dest \subseteq tree
      PROVE  Serves(c)
    BY <1>3, <1>4 DEF Serves, Done
<1> HIDE DEF tree, strict
<1>5. CASE mcp_list_files(c)
  <2>1. ASSUME Answer(c, {f \in Files : get_file(f) /\ allows(c, place[f])}) PROVE Serves(c)
    <3> DEFINE files == {f \in Files : get_file(f) /\ allows(c, place[f])}
    <3>1. Done(c, files, {}) /\ files \in SUBSET Files  BY <2>1 DEF Answer
    <3>2. strict => \A f \in files : place[f] \in tree  BY <1>0
    <3> HIDE DEF files
    <3> QED BY <1>4, <3>1, <3>2
  <2>2. ASSUME NEW p \in NamedFolders(c), p = Root, Answer(c, {f \in Files : get_file(f)}) PROVE Serves(c)
    <3> DEFINE files == {f \in Files : get_file(f)}
    <3>1. Done(c, files, {}) /\ files \in SUBSET Files  BY <2>2 DEF Answer
    <3>2. ~strict  BY <1>0, <1>1, <2>2, DriveAssumption
    <3> HIDE DEF files
    <3> QED BY <1>4, <3>1, <3>2
  <2>3. ASSUME NEW p \in NamedFolders(c), Answer(c, list_files(p)) PROVE Serves(c)
    <3>1. Done(c, list_files(p), {}) /\ list_files(p) \in SUBSET Files
      BY <2>3 DEF Answer, list_files
    <3>2. strict => \A f \in list_files(p) : place[f] \in tree
      BY <1>0, <2>3 DEF list_files
    <3> QED BY <1>4, <3>1, <3>2
  <2>4. OutOfReach(c) \/ Refuse(c) => Serves(c)  BY AnswersServe
  <2> QED BY <1>3, <1>5, <2>1, <2>2, <2>3, <2>4 DEF mcp_list_files
<1>6. CASE mcp_list_folders(c)
  <2>1. ASSUME NEW p, Done(c, {}, {d \in list_by_parent(p) : allows(c, d)}) PROVE Serves(c)
    <3> DEFINE dest == {d \in list_by_parent(p) : allows(c, d)}
    <3>1. Done(c, {}, dest)  BY <2>1
    <3>2. strict => dest \subseteq tree  BY <1>0
    <3> HIDE DEF dest
    <3> QED BY <1>4, <3>1, <3>2
  <2>2. OutOfReach(c) \/ Refuse(c) => Serves(c)  BY AnswersServe
  <2> QED BY <1>3, <1>6, <2>1, <2>2 DEF mcp_list_folders
<1> QED BY <1>5, <1>6

LEMMA FolderServes ==
    ASSUME Confining, NEW c \in Calls, call[c].pc = "act", call[c].tool \notin DOMAIN WorkspaceTools,
           mcp_create_folder(c)
    PROVE  Serves(c) /\ Grows
<1>0. Shaped  BY DEF Confining, Guarded
<1>1. ASSUME NEW p \in NamedFolders(c), NEW d \in Folders, parent[d] = Fresh, create_folder(d, p), Done(c, {}, {d})
      PROVE  Serves(c) /\ Grows
  <2>1. Grows /\ \A e : p \in TreeAt(parent, e) => d \in TreeAt(parent', e)
    BY <1>0, <1>1, FolderGrows
  <2>2. call[c].confined /\ ~call[c].stale => d \in TreeAt(parent', call[c].bound)
    BY <1>1, <2>1, NamedInReach
  <2> QED BY <1>1, <2>1, <2>2 DEF Serves, Done
<1> QED BY <1>1, AnswersServe DEF mcp_create_folder

LEMMA StoringServes ==
    ASSUME Confining, NEW c \in Calls, call[c].pc = "act", call[c].tool \notin DOMAIN WorkspaceTools,
           mcp_save_file(c) \/ mcp_upload_file(c)
    PROVE  Serves(c) /\ Grows
<1>0. Shaped  BY DEF Confining, Guarded
<1>1. ASSUME NEW p \in NamedFolders(c), NEW f \in Files, place[f] = Fresh, add_file(f, p), Done(c, {f}, {p})
      PROVE  Serves(c) /\ Grows
  <2>1. Grows /\ place'[f] = p /\ parent' = parent
    BY <1>0, <1>1, FileGrows DEF add_file
  <2>2. call[c].confined /\ ~call[c].stale => p \in TreeAt(parent', call[c].bound)
    BY <2>1, NamedInReach
  <2> QED BY <1>1, <2>1, <2>2 DEF Serves, Done
<1>2. ASSUME NEW p \in NamedFolders(c), Store(c, p) PROVE Serves(c) /\ Grows
    BY <1>1, <1>2, AnswersServe DEF Store
<1> QED BY <1>2, AnswersServe DEF mcp_save_file, mcp_upload_file

LEMMA ToolServes ==
    ASSUME Confining, NEW c \in Calls, call[c].pc = "act", tool_body(c)
    PROVE  Serves(c) /\ Grows
<1>0. Shaped  BY DEF Confining, Guarded
<1>1. CASE mcp_get_supported_conversions(c) \/ mcp_get_file(c) \/ mcp_get_conversion_status(c)
           \/ mcp_get_conversion_history(c) \/ mcp_get_credits(c) \/ mcp_list_workspaces(c) \/ mcp_get_workspace(c)
           \/ mcp_list_workspace_files(c) \/ mcp_read_workspace_file(c) \/ mcp_write_workspace_file(c)
           \/ mcp_get_execution(c) \/ mcp_list_artifacts(c) \/ mcp_save_workspace_environment(c)
    BY <1>1, AnswersServe
       DEF mcp_get_supported_conversions, mcp_get_file, mcp_get_conversion_status, mcp_get_conversion_history,
           mcp_get_credits, mcp_list_workspaces, mcp_get_workspace, mcp_list_workspace_files,
           mcp_read_workspace_file, mcp_write_workspace_file, mcp_get_execution, mcp_list_artifacts,
           mcp_save_workspace_environment
<1>2. CASE \/ call[c].tool = "list_files" /\ mcp_list_files(c)
           \/ call[c].tool = "list_folders" /\ mcp_list_folders(c)
    BY <1>2, ListingServes, DocumentToolNames
<1>3. CASE call[c].tool = "create_folder" /\ mcp_create_folder(c)
    BY <1>3, FolderServes, DocumentToolNames
<1>4. CASE \/ call[c].tool = "save_file" /\ mcp_save_file(c)
           \/ call[c].tool = "upload_file" /\ mcp_upload_file(c)
    BY <1>4, StoringServes, DocumentToolNames
<1>5. CASE mcp_convert_file(c)
  <2>1. ASSUME NEW j, convert_library_file(j, "mcp") PROVE Grows
    BY <2>1, SamePlacesGrow DEF convert_library_file
  <2> QED BY <1>5, <2>1, AnswersServe DEF mcp_convert_file
<1>6. CASE mcp_delete_file(c)
  <2>1. ASSUME NEW f \in call[c].files, delete_file(f) PROVE Grows
    BY <1>0, <2>1, FileGrows DEF delete_file, Confining, InReach
  <2> QED BY <1>6, <2>1, AnswersServe DEF mcp_delete_file
<1>7. CASE mcp_create_workspace(c) \/ mcp_run_code(c) \/ mcp_cancel_execution(c)
  <2>1. ASSUME NEW x, NEW state, SetWorkspace(x, state) \/ SetRun(x, state) PROVE Grows
    BY <2>1, SamePlacesGrow DEF SetWorkspace, SetRun
  <2> QED
    BY <1>7, <2>1, AnswersServe DEF mcp_create_workspace, mcp_run_code, mcp_cancel_execution, create_workspace, submit,
                                   cancel
<1>8. CASE mcp_download_file(c)
  <2>1. ASSUME NEW outcome, classify(c, outcome, {}, {}) PROVE Serves(c)
    BY <2>1 DEF Serves
  <2>2. ASSUME NEW f, NEW status, page_error(c, f, status) PROVE Serves(c)
    BY <2>1, <2>2 DEF page_error
  <2>3. ASSUME NEW f, NEW chunk, NEW data, turn_page(c, f, chunk, data) PROVE Serves(c)
    BY <2>1, <2>2, <2>3 DEF turn_page
  <2>4. Serves(c)  BY <1>8, <2>2, <2>3, AnswersServe DEF mcp_download_file
  <2>5. NoChange  BY <1>8, ReadingTools
  <2>6. Grows  BY <2>5, SamePlacesGrow DEF NoChange, driveVars
  <2> QED BY <2>4, <2>6
<1> QED BY <1>1, <1>2, <1>3, <1>4, <1>5, <1>6, <1>7, <1>8 DEF tool_body

LEMMA SettledFields ==
    ASSUME NEW c, IsCall(call[c]), NEW outcome, NEW files, NEW dest, NEW r, r = Settled(c, outcome, files, dest)
    PROVE  /\ r.pc = "record" /\ r.files = call[c].files \cup files /\ r.dest = dest
           /\ r.bound = call[c].bound /\ r.confined = call[c].confined /\ r.stale = call[c].stale
BY DEF Settled, IsCall, CallFields

LEMMA ServingConfined ==
    ASSUME Confining, NEW c \in Calls, Serves(c), Grows, Guarded'
    PROVE  Confining'
<1>0. Shaped /\ IsCall(call[c])  BY DEF Confining, Guarded, Shaped
<1>1. PICK outcome, files, dest :
         /\ classify(c, outcome, files, dest) /\ files \subseteq Files
         /\ call[c].confined /\ ~call[c].stale =>
               /\ \A f \in files : place'[f] \in TreeAt(parent', call[c].bound) \cup {Gone}
               /\ dest \subseteq TreeAt(parent', call[c].bound)
    BY DEF Serves
<1>2. PICK r : r = Settled(c, outcome, files, dest)  OBVIOUS
<1>3. call' = [call EXCEPT ![c] = r]  BY <1>0, <1>1, <1>2, Classified
<1>4. /\ r.pc = "record" /\ r.files = call[c].files \cup files /\ r.dest = dest
      /\ r.bound = call[c].bound /\ r.confined = call[c].confined /\ r.stale = call[c].stale
    BY <1>0, <1>2, SettledFields
<1>5. InReach(call[c], place', parent')  BY GrowsInReach DEF Confining
<1>6. InReach(r, place', parent')  BY <1>1, <1>4, <1>5 DEF InReach
<1> QED BY <1>3, <1>6, OneInReach

(* A call is marked when something is moved under it.                      *)
LEMMA NoticedConfined ==
    ASSUME Confining, Noticed, Guarded'
    PROVE  Confining'
<1> SUFFICES ASSUME NEW c \in Calls PROVE InReach(call'[c], place', parent')
    BY DEF Confining
<1> DEFINE moved == <<place, parent>>' # <<place, parent>>
           stale == call[c].stale \/ (call[c].pc # "idle" /\ moved)
<1>0. IsCall(call[c]) /\ InReach(call[c], place, parent)
    BY DEF Confining, Guarded, Shaped
<1>1. PICK r : r = [call[c] EXCEPT !.stale = stale]  OBVIOUS
<1>2. call'[c] = r  BY <1>1 DEF Noticed
<1> HIDE DEF stale
<1>3. /\ r.pc = call[c].pc /\ r.tool = call[c].tool /\ r.confined = call[c].confined /\ r.bound = call[c].bound
      /\ r.reach = call[c].reach /\ r.files = call[c].files /\ r.dest = call[c].dest /\ r.stale = stale
    BY <1>0, <1>1 DEF IsCall, CallFields
<1>4. CASE moved
  <2>1. call[c].pc # "idle" => stale  BY <1>4 DEF stale
  <2> QED BY <1>0, <1>2, <1>3, <2>1 DEF InReach
<1>5. CASE ~moved
  <2>1. place' = place /\ parent' = parent  BY <1>5
  <2>2. stale <=> call[c].stale  BY <1>5 DEF stale
  <2> QED BY <1>0, <1>2, <1>3, <2>1, <2>2 DEF InReach
<1> QED BY <1>4, <1>5

LEMMA ConfiningInit == Init => Confining
<1> SUFFICES ASSUME Init PROVE Confining  OBVIOUS
<1>1. Guarded  BY GuardedInit
<1>2. call = [c \in Calls |-> IdleCall]  BY DEF Init, InitMcp
<1>3. InReach(IdleCall, place, parent)  BY DEF InReach, IdleCall, Places
<1> QED BY <1>1, <1>2, <1>3 DEF Confining

LEMMA McpConfined == ASSUME Confining, McpNext, Guarded' PROVE Confining'
<1>0. NoChange => Grows /\ place' = place /\ parent' = parent
    BY SamePlacesGrow DEF NoChange, driveVars
<1>1. ASSUME NEW c \in Calls, NEW name, open_mcp_scope(c, name) PROVE Confining'
  <2>1. PICK r : r = [IdleCall EXCEPT !.pc = "gate", !.tool = name, !.confined = grant.confined, !.bound = grant.folder]
    OBVIOUS
  <2>2. r.pc = "gate" /\ r.bound = grant.folder /\ r.files = {} /\ r.dest = {}
    BY <2>1 DEF IdleCall
  <2>3. grant.folder \in Places  BY DEF Confining, Guarded, Grant
  <2>4. call' = [call EXCEPT ![c] = r] /\ NoChange  BY <1>1, <2>1 DEF open_mcp_scope
  <2>5. InReach(r, place', parent')  BY <2>2, <2>3 DEF InReach
  <2> QED BY <1>0, <2>4, <2>5, OneInReach
<1>2. ASSUME NEW c \in Calls, Gate(c) PROVE Confining'
  <2>0. /\ IsCall(call[c]) /\ call = [d \in Calls |-> call[d]] /\ NoChange /\ InReach(call[c], place, parent)
        /\ call[c].pc = "gate"
    BY <1>2 DEF Confining, Guarded, Shaped, Gate
  <2>1. ASSUME NEW outcome, classify(c, outcome, {}, {}) PROVE Confining'
    <3>1. Serves(c)  BY <2>1 DEF Serves
    <3> QED BY <1>0, <2>0, <3>1, ServingConfined
  <2>2. ASSUME call[c].tool \in DOMAIN WorkspaceTools, call' = [call EXCEPT ![c].pc = "act"] PROVE Confining'
    <3>1. PICK r : r = [call[c] EXCEPT !.pc = "act"]  OBVIOUS
    <3>2. /\ r.pc = "act" /\ r.tool = call[c].tool /\ r.bound = call[c].bound /\ r.confined = call[c].confined
          /\ r.stale = call[c].stale /\ r.files = call[c].files /\ r.dest = call[c].dest
      BY <2>0, <3>1 DEF IsCall, CallFields
    <3>3. call' = [call EXCEPT ![c] = r]  BY <2>0, <2>2, <3>1
    <3>4. InReach(r, place', parent')  BY <1>0, <2>0, <2>2, <3>2 DEF InReach
    <3> QED BY <1>0, <2>0, <3>3, <3>4, OneInReach
  <2>3. ASSUME NEW pc \in {"own", "act"}, NEW reach, reach = resolve_folder(c), reach # {},
               call' = [call EXCEPT ![c].pc = pc, ![c].reach = reach]
        PROVE  Confining'
    <3>1. PICK r : r = [call[c] EXCEPT !.pc = pc, !.reach = reach]  OBVIOUS
    <3>2. /\ r.pc = pc /\ r.tool = call[c].tool /\ r.bound = call[c].bound /\ r.confined = call[c].confined
          /\ r.stale = call[c].stale /\ r.files = call[c].files /\ r.dest = call[c].dest /\ r.reach = reach
      BY <2>0, <3>1 DEF IsCall, CallFields
    <3>3. call' = [call EXCEPT ![c] = r]  BY <2>0, <2>3, <3>1
    <3>4. r.bound \in Places  BY <2>0, <3>2 DEF InReach
    <3>5. r.confined => reach = TreeAt(parent, r.bound)
      BY <2>3, <3>2, <3>4, ScopeIsTree DEF resolve_folder
    <3>6. r.confined => r.bound \in TreeAt(parent, r.bound)  BY <2>3, <3>5, TreeShape
    <3>7. InReach(r, place', parent')  BY <1>0, <2>0, <2>3, <3>2, <3>5, <3>6 DEF InReach
    <3> QED BY <1>0, <2>0, <3>3, <3>7, OneInReach
  <2> QED BY <1>2, <2>1, <2>2, <2>3 DEF Gate
<1>3. ASSUME NEW c \in Calls, NEW f \in Files, owned_file_in_scope(c, f) PROVE Confining'
  <2>0. /\ IsCall(call[c]) /\ call = [d \in Calls |-> call[d]] /\ NoChange /\ InReach(call[c], place, parent)
        /\ call[c].pc = "own"
    BY <1>3 DEF Confining, Guarded, Shaped, owned_file_in_scope
  <2>1. ASSUME classify(c, "ERROR", {}, {}) PROVE Confining'
    <3>1. Serves(c)  BY <2>1 DEF Serves
    <3> QED BY <1>0, <2>0, <3>1, ServingConfined
  <2>2. ASSUME allows(c, place[f]), call' = [call EXCEPT ![c].pc = "act", ![c].files = {f}] PROVE Confining'
    <3>1. PICK r : r = [call[c] EXCEPT !.pc = "act", !.files = {f}]  OBVIOUS
    <3>2. /\ r.pc = "act" /\ r.tool = call[c].tool /\ r.bound = call[c].bound /\ r.confined = call[c].confined
          /\ r.stale = call[c].stale /\ r.files = {f} /\ r.dest = call[c].dest /\ r.reach = call[c].reach
      BY <2>0, <3>1 DEF IsCall, CallFields
    <3>3. call' = [call EXCEPT ![c] = r]  BY <2>0, <2>2, <3>1
    <3>4. InReach(r, place', parent')  BY <1>0, <2>0, <2>2, <3>2 DEF InReach, allows
    <3> QED BY <1>0, <2>0, <3>3, <3>4, OneInReach
  <2> QED BY <1>3, <2>1, <2>2 DEF owned_file_in_scope
<1>4. ASSUME NEW c \in Calls, ToolActs(c) PROVE Confining'
    BY <1>4, ToolServes, ServingConfined DEF ToolActs
<1>5. ASSUME NEW c \in Calls, record_invocation(c) PROVE Confining'
  <2>1. InReach(IdleCall, place', parent')  BY DEF InReach, IdleCall, Places
  <2> QED BY <1>0, <1>5, <2>1, OneInReach DEF record_invocation
<1>6. ASSUME Rebind PROVE Confining'  BY <1>6, NoticedConfined DEF Rebind
<1> QED BY <1>1, <1>2, <1>3, <1>4, <1>5, <1>6 DEF McpNext

LEMMA ConfiningStep == Confining /\ [Next]_vars => Confining'
<1> SUFFICES ASSUME Confining, [Next]_vars PROVE Confining'  OBVIOUS
<1>0. Guarded'  BY GuardedStep DEF GuardedMove, Confining
<1>1. CASE TurnNext \/ ConversationNext \/ ClickNext \/ AskNext \/ OwnerNext
    BY <1>0, <1>1, OthersKeepDomains, NoticedConfined DEF Disturbed, Confining
<1>2. CASE McpNext  BY <1>0, <1>2, McpConfined
<1>3. CASE TelemetryNext \/ LlmNext \/ EventNext \/ UNCHANGED vars
  <2>1. UNCHANGED <<driveVars, mcpVars>>
    BY <1>3 DEF TelemetryNext, LlmNext, EventNext, vars, BesideTelemetry, BesideLlm, BesideEvents
  <2> QED BY <1>0, <2>1 DEF Confining, driveVars, mcpVars
<1> QED BY <1>1, <1>2, <1>3 DEF Next

LEMMA ConfiningInFolder == Confining => InFolder
<1> SUFFICES ASSUME Confining, NEW c \in Calls
             PROVE  LET at == call[c]
                        tree == IF at.bound = Root THEN {} ELSE resolve_folder_scope(at.bound)
                    IN at.confined /\ ~at.stale /\ at.pc \in {"act", "record"} =>
                          /\ \A f \in at.files : place[f] \in tree \cup {Gone}
                          /\ at.dest \subseteq tree
    BY DEF InFolder
<1>1. InReach(call[c], place, parent)  BY DEF Confining
<1>2. (IF call[c].bound = Root THEN {} ELSE resolve_folder_scope(call[c].bound)) = TreeAt(parent, call[c].bound)
    BY <1>1, ScopeIsTree DEF InReach
<1> QED BY <1>1, <1>2 DEF InReach

(* Whatever the model asks for, and however many rounds, tools and turns   *)
(* that takes: a turn starts and proposes no more than the plan's budget,  *)
(* the hour admits no more requests than the plan allows, and what is      *)
(* recommended is supported, named once and not empty; and whatever an     *)
(* application asks for, what a confined call finds, changes or makes is   *)
(* in its folder or below, unless something was moved under it             *)
(* (_actions_taken, RedisAssistantQuota.consume, _llm_rank,                *)
(* _resolve_folder, _owned_file_in_scope): for any plan, account, folders, *)
(* grant and conversion map.                                               *)
THEOREM AgentBoundedTheorem == Spec => []AgentBounded
<1>1. Acting /\ Metering /\ InFolder => AgentBounded
  <2> SUFFICES ASSUME Acting, Metering, InFolder PROVE AgentBounded  OBVIOUS
  <2>1. ActionBudget  BY DEF Acting, Sober, Counted, ActionBudget
  <2> QED BY <2>1 DEF Metering, AgentBounded, TurnMetered
<1>2. Spec => [](Acting /\ Metering)  BY BoundedInit, BoundedStep, PTL DEF Spec
<1>3. Spec => []InFolder
    BY ConfiningInit, ConfiningStep, ConfiningInFolder, PTL DEF Spec
<1> QED BY <1>1, <1>2, <1>3, PTL

----------------------------------------------------------------------------
(* What becomes of what is recorded                                        *)

(* What changes the telemetry; its own task, mostly.                       *)
Ingests ==
    \/ \E kind \in {"event", "invocation"} : enqueue(kind)
    \/ collect \/ FlushDue \/ drain_available \/ save_events \/ save_invocations \/ WriteFails
    \/ stop \/ Cancelled \/ delete_before

Reads == NextPage \/ \E kind \in {"event", "invocation"}, span \in Ranges : OpenLog(kind, span)

LEMMA TelemetrySteps ==
    ASSUME Next
    PROVE  \/ UNCHANGED <<ingestVars, reader, now>>
           \/ Ingests /\ UNCHANGED <<reader, now>>
           \/ Tick /\ UNCHANGED <<ingestVars, reader>>
           \/ Reads /\ UNCHANGED <<ingestVars, now>>
<1>1. Beside => UNCHANGED <<ingestVars, reader, now>>
    BY DEF Beside, NoTelemetry, telemetryVars
<1>2. TurnNext \/ ConversationNext \/ ClickNext \/ AskNext \/ OwnerNext => Beside
    BY DEF TurnNext, ConversationNext, ClickNext, AskNext, OwnerNext
<1>3. LlmNext => UNCHANGED <<ingestVars, reader, now>>
  <2>1. LlmNext => BesideLlm  BY DEF LlmNext
  <2> QED BY <2>1 DEF BesideLlm, telemetryVars
<1>4. EventNext => UNCHANGED <<ingestVars, reader, now>>
  <2>1. EventNext => BesideEvents  BY DEF EventNext
  <2> QED BY <2>1 DEF BesideEvents, telemetryVars
<1>5. ASSUME McpNext PROVE UNCHANGED <<ingestVars, reader, now>> \/ (Ingests /\ UNCHANGED <<reader, now>>)
  <2>1. NoTelemetry \/ \E c \in Calls : record_invocation(c)
    BY <1>5 DEF McpNext, open_mcp_scope, Gate, owned_file_in_scope, ToolActs, Rebind
  <2>2. ASSUME NEW c \in Calls, record_invocation(c) PROVE Ingests /\ UNCHANGED <<reader, now>>
    BY <2>2 DEF record_invocation, Ingests
  <2> QED BY <2>1, <2>2 DEF NoTelemetry, telemetryVars
<1>6. ASSUME TelemetryNext
      PROVE  \/ UNCHANGED <<ingestVars, reader, now>>
             \/ Ingests /\ UNCHANGED <<reader, now>>
             \/ Tick /\ UNCHANGED <<ingestVars, reader>>
             \/ Reads /\ UNCHANGED <<ingestVars, now>>
  <2>1. ASSUME NEW k \in offered.keys, NEW ok \in BOOLEAN, NEW attributable \in BOOLEAN, NEW answers \in Answers,
               api_request(k, ok, answers, attributable)
        PROVE  UNCHANGED <<ingestVars, reader, now>> \/ (Ingests /\ UNCHANGED <<reader, now>>)
    <3>1. UNCHANGED <<reader, now>>
      BY <2>1 DEF api_request, is_allowed, RedisCheck, RedisFails, FallenBack, MemoryCheck
    <3>2. enqueue("event") \/ UNCHANGED ingestVars
      BY <2>1 DEF api_request, api_telemetry_middleware
    <3> QED BY <3>1, <3>2 DEF Ingests
  <2>2. ASSUME collect \/ FlushDue \/ drain_available \/ save_events \/ save_invocations \/ WriteFails
               \/ stop \/ Cancelled \/ delete_before
        PROVE  Ingests /\ UNCHANGED <<reader, now>>
    BY <2>2 DEF collect, FlushDue, drain_available, Write, save_events, save_invocations, WriteFails, stop,
                Cancelled, delete_before, Ingests
  <2>3. \/ \E k \in offered.keys, ok, attributable \in BOOLEAN, answers \in Answers :
              api_request(k, ok, answers, attributable)
        \/ Tick /\ UNCHANGED <<ingestVars, reader>>
        \/ collect \/ FlushDue \/ drain_available \/ save_events \/ save_invocations \/ WriteFails
        \/ stop \/ Cancelled \/ delete_before
        \/ (\E kind \in {"event", "invocation"}, span \in Ranges : OpenLog(kind, span))
        \/ NextPage
    BY <1>6 DEF TelemetryNext
  <2>4. CASE \E kind \in {"event", "invocation"}, span \in Ranges : OpenLog(kind, span)
    BY <2>4 DEF OpenLog, ListPage, Reads
  <2>5. CASE NextPage  BY <2>5 DEF NextPage, ListPage, Reads
  <2> QED BY <2>1, <2>2, <2>3, <2>4, <2>5
<1> QED BY <1>1, <1>2, <1>3, <1>4, <1>5, <1>6 DEF Next

(* The rows a sequence carries, and that it carries each once.             *)
Carried(s) == {s[i].id : i \in DOMAIN s} \ {STOP.id}
Once(s) == \A i, j \in DOMAIN s : s[i].id = s[j].id /\ s[i].id # STOP.id => i = j

LEMMA CarriedMore ==
    ASSUME NEW S, NEW s \in Seq(S), NEW x \in S
    PROVE  /\ Carried(Append(s, x)) = Carried(s) \cup ({x.id} \ {STOP.id})
           /\ Once(s) /\ x.id \notin Carried(s) => Once(Append(s, x))
<1> DEFINE t == Append(s, x)
           n == Len(s)
<1>1. /\ n \in Nat /\ DOMAIN s = 1..n /\ DOMAIN t = 1..(n + 1) /\ t[n + 1] = x
      /\ \A i \in 1..n : t[i] = s[i]
    OBVIOUS
<1> HIDE DEF t, n
<1>2. Carried(t) = Carried(s) \cup ({x.id} \ {STOP.id})
  <2>1. ASSUME NEW id \in Carried(t) PROVE id \in Carried(s) \cup ({x.id} \ {STOP.id})
    <3>1. PICK i \in DOMAIN t : id = t[i].id /\ id # STOP.id  BY <2>1 DEF Carried
    <3>2. CASE i = n + 1  BY <1>1, <3>1, <3>2
    <3>3. CASE i # n + 1
      <4>1. i \in 1..n  BY <1>1, <3>1, <3>3
      <4> QED BY <1>1, <3>1, <4>1 DEF Carried
    <3> QED BY <3>2, <3>3
  <2>2. ASSUME NEW id \in Carried(s) PROVE id \in Carried(t)  BY <1>1 DEF Carried
  <2>3. x.id # STOP.id => x.id \in Carried(t)
    <3>1. n + 1 \in DOMAIN t  BY <1>1
    <3> QED BY <1>1, <3>1 DEF Carried
  <2> QED BY <2>1, <2>2, <2>3
<1>3. ASSUME Once(s), x.id \notin Carried(s) PROVE Once(t)
  <2> SUFFICES ASSUME NEW i \in DOMAIN t, NEW j \in DOMAIN t, t[i].id = t[j].id, t[i].id # STOP.id
               PROVE  i = j
    BY DEF Once
  <2>1. \A k \in 1..n : s[k].id # STOP.id => s[k].id # x.id  BY <1>1, <1>3 DEF Carried
  <2>2. CASE i = n + 1 \/ j = n + 1  BY <1>1, <2>1, <2>2
  <2>3. CASE i # n + 1 /\ j # n + 1
    <3>1. i \in 1..n /\ j \in 1..n  BY <1>1, <2>3
    <3> QED BY <1>1, <1>3, <3>1 DEF Once
  <2> QED BY <2>2, <2>3
<1> QED BY <1>2, <1>3 DEF t

LEMMA CarriedPart ==
    ASSUME NEW S, NEW s \in Seq(S), NEW m \in Nat \ {0}, NEW n \in 0..Len(s)
    PROVE  /\ SubSeq(s, m, n) \in Seq(S) /\ Len(SubSeq(s, m, n)) <= Len(s)
           /\ Len(SubSeq(s, m, n)) \in Nat /\ (m = 1 => Len(SubSeq(s, m, n)) = n)
           /\ Carried(SubSeq(s, m, n)) \subseteq Carried(s)
           /\ \A id \in Carried(SubSeq(s, m, n)) : \E i \in m..n : s[i].id = id
           /\ Once(s) => Once(SubSeq(s, m, n))
<1> DEFINE t == SubSeq(s, m, n)
           l == IF m <= n THEN n - m + 1 ELSE 0
<1>1. /\ t \in Seq(S) /\ Len(t) = l /\ l \in Nat /\ DOMAIN t = 1..l /\ DOMAIN s = 1..Len(s) /\ l <= Len(s)
      /\ (m = 1 => l = n)
      /\ \A i \in 1..l : t[i] = s[m + i - 1] /\ m + i - 1 \in 1..Len(s) /\ m + i - 1 \in m..n
    OBVIOUS
<1> HIDE DEF t, l
<1>2. Carried(t) \subseteq Carried(s) /\ \A id \in Carried(t) : \E i \in m..n : s[i].id = id
  <2> SUFFICES ASSUME NEW id \in Carried(t) PROVE id \in Carried(s) /\ \E i \in m..n : s[i].id = id
    OBVIOUS
  <2>1. PICK i \in 1..l : id = t[i].id /\ id # STOP.id  BY <1>1 DEF Carried
  <2>2. PICK k \in 1..Len(s) : s[k].id = id /\ k \in m..n  BY <1>1, <2>1
  <2> QED BY <1>1, <2>1, <2>2 DEF Carried
<1>3. ASSUME Once(s) PROVE Once(t)
  <2> SUFFICES ASSUME NEW i \in DOMAIN t, NEW j \in DOMAIN t, t[i].id = t[j].id, t[i].id # STOP.id
               PROVE  i = j
    BY DEF Once
  <2>1. /\ m + i - 1 \in DOMAIN s /\ m + j - 1 \in DOMAIN s
        /\ t[i] = s[m + i - 1] /\ t[j] = s[m + j - 1]
    BY <1>1
  <2>2. m + i - 1 = m + j - 1  BY <1>3, <2>1 DEF Once
  <2> QED BY <1>1, <2>2
<1> QED BY <1>1, <1>2, <1>3 DEF t

LEMMA CarriedSplit ==
    ASSUME NEW S, NEW s \in Seq(S), NEW n \in 0..Len(s)
    PROVE  Carried(s) \subseteq Carried(SubSeq(s, 1, n)) \cup Carried(SubSeq(s, n + 1, Len(s)))
<1> DEFINE t == SubSeq(s, 1, n)
           u == SubSeq(s, n + 1, Len(s))
<1>1. /\ DOMAIN t = 1..n /\ DOMAIN u = 1..(Len(s) - n) /\ DOMAIN s = 1..Len(s) /\ Len(s) \in Nat
      /\ \A i \in 1..n : t[i] = s[i]
      /\ \A i \in 1..(Len(s) - n) : u[i] = s[n + i]
    OBVIOUS
<1> SUFFICES ASSUME NEW id \in Carried(s) PROVE id \in Carried(t) \cup Carried(u)
    OBVIOUS
<1> HIDE DEF t, u
<1>4. PICK i \in 1..Len(s) : s[i].id = id /\ id # STOP.id  BY <1>1 DEF Carried
<1>2. CASE i <= n
  <2>1. i \in DOMAIN t /\ t[i] = s[i]  BY <1>1, <1>2
  <2> QED BY <1>4, <2>1 DEF Carried
<1>3. CASE i > n
  <2>1. i - n \in DOMAIN u /\ u[i - n] = s[n + (i - n)] /\ n + (i - n) = i  BY <1>1, <1>3
  <2> QED BY <1>4, <2>1 DEF Carried
<1> QED BY <1>2, <1>3

(* The first is carried, and the rest.                                     *)
LEMMA CarriedRest ==
    ASSUME NEW S, NEW s \in Seq(S), s # <<>>
    PROVE  /\ Head(s) \in S /\ Tail(s) \in Seq(S) /\ Len(Tail(s)) = Len(s) - 1
           /\ Carried(s) = Carried(Tail(s)) \cup ({Head(s).id} \ {STOP.id})
           /\ Once(s) => Once(Tail(s)) /\ Head(s).id \notin Carried(Tail(s))
<1> DEFINE t == Tail(s)
           n == Len(s)
<1>1. /\ n \in Nat \ {0} /\ t \in Seq(S) /\ Len(t) = n - 1 /\ DOMAIN t = 1..(n - 1) /\ DOMAIN s = 1..n
      /\ Head(s) = s[1] /\ s[1] \in S
      /\ \A i \in 1..(n - 1) : t[i] = s[i + 1]
    OBVIOUS
<1> HIDE DEF t, n
<1>2. Carried(s) = Carried(t) \cup ({s[1].id} \ {STOP.id})
  <2>1. ASSUME NEW id \in Carried(s) PROVE id \in Carried(t) \cup ({s[1].id} \ {STOP.id})
    <3>1. PICK i \in 1..n : id = s[i].id /\ id # STOP.id  BY <1>1, <2>1 DEF Carried
    <3>2. CASE i = 1  BY <3>1, <3>2
    <3>3. CASE i # 1
      <4>1. i - 1 \in 1..(n - 1) /\ t[i - 1] = s[(i - 1) + 1] /\ (i - 1) + 1 = i
        BY <1>1, <3>3
      <4>2. i - 1 \in DOMAIN t /\ t[i - 1].id = id  BY <1>1, <3>1, <4>1
      <4>3. id \in Carried(t)  BY <3>1, <4>2 DEF Carried
      <4> QED BY <4>3
    <3> QED BY <3>2, <3>3
  <2>2. ASSUME NEW id \in Carried(t) PROVE id \in Carried(s)
    <3>1. PICK i \in 1..(n - 1) : id = t[i].id /\ id # STOP.id
      BY <1>1, <2>2 DEF Carried
    <3>2. i + 1 \in DOMAIN s /\ s[i + 1].id = id  BY <1>1, <3>1
    <3> QED BY <3>1, <3>2 DEF Carried
  <2>3. s[1].id # STOP.id => s[1].id \in Carried(s)
    <3>1. 1 \in DOMAIN s  BY <1>1
    <3> QED BY <3>1 DEF Carried
  <2> QED BY <2>1, <2>2, <2>3
<1>3. ASSUME Once(s) PROVE Once(t) /\ s[1].id \notin Carried(t)
  <2>1. ASSUME NEW i \in 1..(n - 1), NEW j \in 1..(n - 1), t[i].id = t[j].id, t[i].id # STOP.id PROVE i = j
    <3>1. i + 1 \in DOMAIN s /\ j + 1 \in DOMAIN s  BY <1>1
    <3>2. i + 1 = j + 1  BY <1>1, <1>3, <2>1, <3>1 DEF Once
    <3> QED BY <3>2
  <2>2. ASSUME NEW i \in 1..(n - 1), t[i].id = s[1].id, t[i].id # STOP.id PROVE FALSE
    <3>1. i + 1 \in DOMAIN s /\ 1 \in DOMAIN s  BY <1>1
    <3>2. i + 1 = 1  BY <1>1, <1>3, <2>2, <3>1 DEF Once
    <3> QED BY <3>2
  <2> QED BY <1>1, <2>1, <2>2 DEF Once, Carried
<1> QED BY <1>1, <1>2, <1>3 DEF t, n

LEMMA CarriedBoth ==
    ASSUME NEW S, NEW s \in Seq(S), NEW t \in Seq(S)
    PROVE  /\ s \o t \in Seq(S)
           /\ Carried(s \o t) = Carried(s) \cup Carried(t)
           /\ Once(s) /\ Once(t) /\ Carried(s) \cap Carried(t) = {} => Once(s \o t)
<1> DEFINE u == s \o t
           m == Len(s)
           n == Len(t)
<1>1. /\ m \in Nat /\ n \in Nat /\ u \in Seq(S) /\ DOMAIN u = 1..(m + n) /\ DOMAIN s = 1..m /\ DOMAIN t = 1..n
      /\ \A i \in 1..m : u[i] = s[i]
      /\ \A i \in 1..(m + n) : i > m => u[i] = t[i - m] /\ i - m \in 1..n
      /\ \A i \in 1..n : u[m + i] = t[i]
    OBVIOUS
<1> HIDE DEF u, m, n
<1>2. \A i \in DOMAIN u : i \in 1..m \/ i > m  BY <1>1
<1>3. Carried(u) = Carried(s) \cup Carried(t)
  <2>1. ASSUME NEW id \in Carried(u) PROVE id \in Carried(s) \cup Carried(t)
    <3>1. PICK i \in DOMAIN u : id = u[i].id /\ id # STOP.id  BY <2>1 DEF Carried
    <3>2. CASE i \in 1..m  BY <1>1, <3>1, <3>2 DEF Carried
    <3>3. CASE i > m
      <4>1. i - m \in DOMAIN t /\ t[i - m].id = id  BY <1>1, <3>1, <3>3
      <4>2. id \in Carried(t)  BY <3>1, <4>1 DEF Carried
      <4> QED BY <4>2
    <3> QED BY <1>2, <3>2, <3>3
  <2>2. ASSUME NEW id \in Carried(s) PROVE id \in Carried(u)
    <3>1. PICK i \in 1..m : id = s[i].id /\ id # STOP.id  BY <1>1, <2>2 DEF Carried
    <3>2. i \in DOMAIN u /\ u[i].id = id  BY <1>1, <3>1
    <3> QED BY <3>1, <3>2 DEF Carried
  <2>3. ASSUME NEW id \in Carried(t) PROVE id \in Carried(u)
    <3>1. PICK i \in 1..n : id = t[i].id /\ id # STOP.id  BY <1>1, <2>3 DEF Carried
    <3>2. m + i \in DOMAIN u /\ u[m + i].id = id  BY <1>1, <3>1
    <3> QED BY <3>1, <3>2 DEF Carried
  <2> QED BY <2>1, <2>2, <2>3
<1>4. ASSUME Once(s), Once(t), Carried(s) \cap Carried(t) = {} PROVE Once(u)
  <2> SUFFICES ASSUME NEW i \in DOMAIN u, NEW j \in DOMAIN u, u[i].id = u[j].id, u[i].id # STOP.id
               PROVE  i = j
    BY DEF Once
  <2>1. ASSUME NEW k \in 1..m, NEW l \in DOMAIN u, l > m, u[k].id # STOP.id PROVE u[k].id # u[l].id
    <3>1. k \in DOMAIN s /\ l - m \in DOMAIN t /\ u[k] = s[k] /\ u[l] = t[l - m]
      BY <1>1, <2>1
    <3>2. u[k].id \in Carried(s)  BY <2>1, <3>1 DEF Carried
    <3>3. u[l].id # STOP.id => u[l].id \in Carried(t)  BY <3>1 DEF Carried
    <3> QED BY <1>4, <2>1, <3>2, <3>3
  <2>2. CASE i \in 1..m /\ j \in 1..m  BY <1>1, <1>4, <2>2 DEF Once
  <2>3. CASE i > m /\ j > m
    <3>1. i - m \in DOMAIN t /\ j - m \in DOMAIN t /\ u[i] = t[i - m] /\ u[j] = t[j - m]
      BY <1>1, <2>3
    <3>2. i - m = j - m  BY <1>4, <3>1 DEF Once
    <3> QED BY <1>1, <3>2
  <2> QED BY <1>2, <2>1, <2>2, <2>3
<1> QED BY <1>1, <1>3, <1>4 DEF u

LoggedRow == [id : Ids, at : Nat, kind : {"event", "invocation"}]

HalfStored == IF flusher \in {"invocations", "last_invocations"} THEN {r.id : r \in Events} ELSE {}
Moving == Carried(queue) \cup Carried(batch) \cup Carried(retry)

Buffered ==
    /\ now \in Nat
    /\ queue \in Seq(LoggedRow \cup {STOP}) /\ Len(queue) <= MaxQueue
    /\ batch \in Seq(LoggedRow) /\ Len(batch) <= BatchSize
    /\ retry \in Seq(LoggedRow) /\ Len(retry) <= BatchSize
    /\ rows \subseteq LoggedRow /\ \A r, s \in rows : r.id = s.id => r = s
    /\ stats = [enqueued |-> Made, dropped |-> stats.dropped, written |-> stats.written,
                failures |-> stats.failures]
    /\ stats.written \in Nat /\ stats.failures \in Nat /\ Made \subseteq Ids

(* A row is in one place, once.                                            *)
Separate ==
    /\ Once(queue) /\ Once(batch) /\ Once(retry)
    /\ Carried(queue) \cap Carried(batch) = {} /\ Carried(queue) \cap Carried(retry) = {}
    /\ Carried(batch) \cap Carried(retry) = {}

(* It was made; and the requests of a batch are stored before its calls.   *)
Traced == Moving \cup Ever \subseteq Made /\ HalfStored \subseteq Ever

InWrite == {"events", "invocations", "last_events", "last_invocations"}
Orderly ==
    /\ ~stopping => flusher \in {"disabled", "collect", "events", "invocations"} /\ STOP \notin Range(queue)
    /\ stats.failures = 0 \/ flusher \in InWrite => retry = <<>>
    /\ flusher = "ending" => batch = <<>>

(* Nothing stored is queued, nor on its way again but for a failed write.  *)
Conserved ==
    /\ Carried(queue) \cap Ever = {}
    /\ stats.failures = 0 => Moving \cap Ever \subseteq HalfStored

(* No more is gone than the batches that may be.                           *)
Missing == Made \ (Moving \cup Ever)
Accountable == GoneBatches \in Nat /\ Cardinality(Missing) <= BatchSize * GoneBatches

(* What is counted as written is stored, and not on its way any more.      *)
CountedOnce == stats.written <= Cardinality(Ever \ Moving)

Ingesting == Buffered /\ Separate /\ Traced /\ Orderly /\ Conserved /\ CountedOnce /\ Accountable

LEMMA IngestingInit == Init => Ingesting
<1> SUFFICES ASSUME Init PROVE Ingesting  OBVIOUS
<1>1. PICK s \in Scenarios : InitTelemetry(s.start, s.telemetry)  BY DEF Init
<1>2. /\ now \in Nat /\ queue = <<>> /\ batch = <<>> /\ retry = <<>> /\ rows = {} /\ purged = {}
      /\ flusher \in {"disabled", "collect"} /\ stats = [enqueued |-> {}, dropped |-> 0, written |-> 0, failures |-> 0]
      /\ retry = <<>>
    BY <1>1, ScenarioAssumption DEF InitTelemetry, InitLimiter
<1>3. Carried(<<>>) = {} /\ Once(<<>>) /\ Range(<<>>) = {}  BY DEF Carried, Once, Range
<1>4. Moving = {} /\ Ever = {} /\ HalfStored = {} /\ Made = {}
    BY <1>2, <1>3 DEF Moving, Ever, HalfStored, Made
<1>5. MaxQueue \in Nat /\ BatchSize \in Nat  BY TelemetryAssumption
<1>6. Buffered  BY <1>2, <1>4, <1>5 DEF Buffered
<1>7. Separate  BY <1>2, <1>3 DEF Separate
<1>8. Orderly  BY <1>2, <1>3 DEF Orderly
<1>9. CountedOnce
  <2>1. Ever \ Moving = {}  BY <1>4
  <2>2. stats.written = 0  BY <1>2
  <2> QED BY <2>1, <2>2, FS_EmptySet DEF CountedOnce
<1>10. Accountable
  <2>1. Missing = {} /\ GoneBatches = 0  BY <1>2, <1>4 DEF Missing, GoneBatches
  <2> QED BY <1>5, <2>1, FS_EmptySet DEF Accountable
<1> QED BY <1>2, <1>3, <1>4, <1>6, <1>7, <1>8, <1>9, <1>10 DEF Ingesting, Traced, Conserved

(* The count stands while no stored row is on its way again.               *)
LEMMA CountStands ==
    ASSUME Ingesting, stats'.written = stats.written, Ever \subseteq Ever', Ever' \subseteq Ids,
           Moving' \cap Made \subseteq Moving
    PROVE  CountedOnce'
<1> DEFINE old == Ever \ Moving
           new == (Ever \ Moving)'
<1>1. old \subseteq new /\ new \subseteq Ids  BY DEF Ingesting, Traced
<1>2. IsFiniteSet(new)  BY <1>1, TelemetryAssumption, FS_Subset
<1>3. stats.written \in Nat /\ stats.written <= Cardinality(old)
    BY DEF Ingesting, Buffered, CountedOnce
<1> HIDE DEF old, new
<1>4. IsFiniteSet(old) /\ Cardinality(old) <= Cardinality(new) /\ Cardinality(old) \in Nat /\ Cardinality(new) \in Nat
    BY <1>1, <1>2, FS_Subset, FS_CardinalityType
<1>5. stats'.written <= Cardinality(new)  BY <1>3, <1>4
<1> QED BY <1>5 DEF CountedOnce, new

(* Rows have numbers, so a sequence of them carries all.                   *)
LEMMA CarriedRows ==
    ASSUME NEW s \in Seq(LoggedRow)
    PROVE  Carried(s) = {r.id : r \in Range(s)} /\ Range(s) \subseteq LoggedRow
<1>1. \A i \in DOMAIN s : s[i] \in LoggedRow  OBVIOUS
<1>2. \A r \in LoggedRow : r.id \in Ids  BY DEF LoggedRow
<1>3. STOP.id \notin Ids  BY TelemetryAssumption DEF STOP
<1> QED BY <1>1, <1>2, <1>3 DEF Carried, Range

LEMMA CarriedCount ==
    ASSUME NEW s \in Seq(LoggedRow), Once(s)
    PROVE  IsFiniteSet(Carried(s)) /\ Cardinality(Carried(s)) = Len(s) /\ Len(s) \in Nat
<1> DEFINE t == [i \in 1..Len(s) |-> s[i].id]
<1>1. DOMAIN s = 1..Len(s) /\ Len(s) \in Nat /\ \A i \in 1..Len(s) : s[i] \in LoggedRow
    OBVIOUS
<1>2. \A i \in 1..Len(s) : s[i].id \in Ids /\ s[i].id # STOP.id
    BY <1>1, TelemetryAssumption DEF LoggedRow, STOP
<1>3. t \in [1..Len(s) -> Ids]  BY <1>2
<1>4. \A i, j \in 1..Len(s) : t[i] = t[j] => i = j  BY <1>1, <1>2 DEF Once
<1>5. Range(t) = Carried(s)  BY <1>1, <1>2 DEF Range, Carried
<1> HIDE DEF t
<1>6. Cardinality(Range(t)) = Len(s)  BY <1>1, <1>3, <1>4, Enumerated
<1>7. Carried(s) \subseteq Ids  BY <1>3, <1>5 DEF Range
<1> QED BY <1>1, <1>5, <1>6, <1>7, TelemetryAssumption, FS_Subset

LEMMA GoneCounted ==
    ASSUME Ingesting
    PROVE  GoneBatches \in Nat /\ stats.failures \in Nat /\ (retry # <<>> => stats.failures # 0)
    BY DEF Ingesting, Accountable, Buffered, Orderly

(* No more rows are gone, or a batch more.                                 *)
LEMMA MissingKeeps ==
    ASSUME Ingesting, NEW s \in Seq(LoggedRow), Once(s), Len(s) <= BatchSize,
           Missing' \subseteq Missing \cup Carried(s), GoneBatches' \in Nat, GoneBatches' >= GoneBatches,
           s = <<>> \/ GoneBatches' > GoneBatches
    PROVE  Accountable'
<1> DEFINE all == Missing \cup Carried(s)
<1>1. IsFiniteSet(Missing) /\ Cardinality(Missing) \in Nat
  <2>1. Missing \subseteq Ids  BY DEF Missing, Ingesting, Buffered
  <2> QED BY <2>1, TelemetryAssumption, FS_Subset, FS_CardinalityType
<1>2. IsFiniteSet(Carried(s)) /\ Cardinality(Carried(s)) = Len(s) /\ Len(s) \in Nat
    BY CarriedCount
<1>3. IsFiniteSet(all) /\ Cardinality(all) <= Cardinality(Missing) + Len(s)
  <2>1. IsFiniteSet(all) /\ IsFiniteSet(Missing \cap Carried(s))
        /\ Cardinality(all) = Cardinality(Missing) + Cardinality(Carried(s)) - Cardinality(Missing \cap Carried(s))
    BY <1>1, <1>2, FS_Union, FS_Subset
  <2>2. Cardinality(Missing \cap Carried(s)) \in Nat  BY <2>1, FS_CardinalityType
  <2> QED BY <1>1, <1>2, <2>1, <2>2
<1>4. Cardinality(Missing') <= Cardinality(all) /\ Cardinality(Missing') \in Nat /\ Cardinality(all) \in Nat
    BY <1>3, FS_Subset, FS_CardinalityType
<1>5. Cardinality(Missing) <= BatchSize * GoneBatches /\ GoneBatches \in Nat /\ BatchSize \in Nat
    BY TelemetryAssumption DEF Ingesting, Accountable
<1>6. BatchSize * GoneBatches + Len(s) <= BatchSize * GoneBatches'
  <2>1. PICK d \in Nat : GoneBatches' = GoneBatches + d /\ (s = <<>> \/ d >= 1)  BY <1>5
  <2>2. BatchSize * GoneBatches' = BatchSize * GoneBatches + BatchSize * d
    BY <1>5, <2>1
  <2>3. Len(s) <= BatchSize * d
    <3>1. CASE s = <<>>  BY <1>5, <2>1, <3>1
    <3>2. CASE d >= 1  BY <1>2, <1>5, <2>1, <3>2
    <3> QED BY <2>1, <3>1, <3>2
  <2> QED BY <1>2, <1>5, <2>1, <2>2, <2>3
<1>7. Cardinality(Missing') <= BatchSize * GoneBatches'
  <2> DEFINE a == BatchSize * GoneBatches
             b == BatchSize * GoneBatches'
  <2>1. a \in Nat /\ b \in Nat
    <3>1. \A m, n \in Nat : m * n \in Nat  OBVIOUS
    <3> QED BY <1>5, <3>1
  <2>2. Cardinality(Missing) <= a /\ a + Len(s) <= b  BY <1>5, <1>6
  <2> HIDE DEF a, b
  <2>3. Cardinality(Missing') <= b  BY <1>1, <1>2, <1>3, <1>4, <2>1, <2>2
  <2> QED BY <2>3 DEF b
<1> QED BY <1>7 DEF Accountable

LEMMA MissingStays ==
    ASSUME Ingesting, Missing' \subseteq Missing, GoneBatches' \in Nat, GoneBatches' >= GoneBatches
    PROVE  Accountable'
<1>1. <<>> \in Seq(LoggedRow) /\ Once(<<>>) /\ Len(<<>>) <= BatchSize
    BY TelemetryAssumption DEF Once
<1> QED BY <1>1, MissingKeeps

LEMMA EnqueueKeeps == ASSUME Ingesting, NEW kind \in {"event", "invocation"}, enqueue(kind), now' = now
                      PROVE  Ingesting'
<1>1. UNCHANGED <<batch, retry, flusher, rows, purged, stopping>>  BY DEF enqueue
<1>2. Ever' = Ever /\ HalfStored' = HalfStored  BY <1>1 DEF Ever, HalfStored, Events, Of
<1>3. CASE UNCHANGED <<queue, stats.enqueued, stats.written, stats.failures>> /\ stats' = [stats EXCEPT !.dropped = stats'.dropped]
  <2>1. Made' = Made /\ Moving' = Moving  BY <1>1, <1>3 DEF Made, Moving
  <2>2. Buffered'  BY <1>1, <1>3, <2>1 DEF Ingesting, Buffered, Made
  <2>3. Missing' = Missing /\ GoneBatches' = GoneBatches
    BY <1>1, <1>2, <1>3, <2>1 DEF Missing, GoneBatches
  <2> QED BY <1>1, <1>2, <1>3, <2>1, <2>2, <2>3
      DEF Ingesting, Separate, Traced, Orderly, Conserved, CountedOnce, Accountable
<1>4. ASSUME NEW id \in Ids \ Made, queue' = Append(queue, [id |-> id, at |-> now, kind |-> kind]),
             stats' = [stats EXCEPT !.enqueued = @ \cup {id}], Len(queue) < MaxQueue
      PROVE  Ingesting'
  <2> DEFINE x == [id |-> id, at |-> now, kind |-> kind]
  <2>1. x \in LoggedRow /\ x.id = id /\ id # STOP.id /\ x # STOP
    BY TelemetryAssumption DEF Ingesting, Buffered, LoggedRow, STOP
  <2>2. queue \in Seq(LoggedRow \cup {STOP}) /\ queue' = Append(queue, x) /\ id \notin Moving /\ id \notin Ever
    BY <1>4 DEF Ingesting, Buffered, Traced
  <2> HIDE DEF x
  <2>3. id \notin Carried(queue) /\ id \notin Carried(batch) /\ id \notin Carried(retry)
    BY <2>2 DEF Moving
  <2>4. Carried(queue') = Carried(queue) \cup {id} /\ (Once(queue) => Once(queue'))
    <3>1. x \in LoggedRow \cup {STOP}  BY <2>1
    <3> QED BY <2>1, <2>2, <2>3, <3>1, CarriedMore
  <2>5. Moving' = Moving \cup {id}  BY <1>1, <2>4 DEF Moving
  <2>6. Made' = Made \cup {id} /\ UNCHANGED <<stats.written, stats.failures>>
    BY <1>4 DEF Made, Ingesting, Buffered
  <2>7. queue' \in Seq(LoggedRow \cup {STOP}) /\ Len(queue') = Len(queue) + 1 /\ Range(queue') = Range(queue) \cup {x}
    BY <2>1, <2>2, AppendProperties, RangeEquality DEF Range
  <2>8. Buffered'
    <3>1. Len(queue') <= MaxQueue  BY <1>4, <2>2, <2>7, TelemetryAssumption
    <3>2. stats' = [enqueued |-> Made', dropped |-> stats'.dropped, written |-> stats'.written,
                 failures |-> stats'.failures]
      BY <1>4, <2>6 DEF Ingesting, Buffered, Made
    <3>3. Made' \subseteq Ids  BY <2>6 DEF Ingesting, Buffered
    <3> QED BY <1>1, <2>6, <2>7, <3>1, <3>2, <3>3 DEF Ingesting, Buffered
  <2>9. Separate'  BY <1>1, <2>3, <2>4 DEF Ingesting, Separate
  <2>10. Traced'  BY <1>2, <2>5, <2>6 DEF Ingesting, Traced
  <2>11. Orderly'  BY <1>1, <2>1, <2>6, <2>7 DEF Ingesting, Orderly
  <2>12. Conserved'  BY <1>2, <2>2, <2>3, <2>4, <2>5, <2>6 DEF Ingesting, Conserved, Separate
  <2>13. CountedOnce'
    <3>1. Ever' \subseteq Ids /\ Ever \subseteq Ever' /\ Moving' \cap Made \subseteq Moving
      BY <1>2, <2>5 DEF Ingesting, Traced, Buffered
    <3> QED BY <2>6, <3>1, CountStands
  <2>14. Missing' = Missing /\ GoneBatches' = GoneBatches
    BY <1>1, <1>2, <2>2, <2>5, <2>6 DEF Missing, GoneBatches
  <2> QED BY <2>8, <2>9, <2>10, <2>11, <2>12, <2>13, <2>14 DEF Ingesting, Accountable
<1>5. CASE flusher = "disabled"
  <2>1. UNCHANGED <<queue, stats>>  BY <1>5 DEF enqueue
  <2>2. stats = [stats EXCEPT !.dropped = stats.dropped]  BY DEF Ingesting, Buffered
  <2> QED BY <1>3, <2>1, <2>2
<1>6. CASE flusher # "disabled" /\ Len(queue) < MaxQueue  BY <1>4, <1>6 DEF enqueue
<1>7. CASE flusher # "disabled" /\ ~(Len(queue) < MaxQueue)
  <2>1. UNCHANGED queue /\ stats' = [stats EXCEPT !.dropped = @ + 1]
    BY <1>7 DEF enqueue
  <2>2. stats'.enqueued = stats.enqueued /\ UNCHANGED <<stats.written, stats.failures>>
        /\ stats' = [stats EXCEPT !.dropped = stats'.dropped]
    BY <2>1 DEF Ingesting, Buffered
  <2> QED BY <1>3, <2>1, <2>2
<1> QED BY <1>5, <1>6, <1>7

LEMMA CollectKeeps == ASSUME Ingesting, collect PROVE Ingesting'
<1>1. /\ flusher = "collect" /\ Len(batch) < BatchSize /\ queue # <<>>
      /\ UNCHANGED <<retry, rows, purged, stats, stopping, now>>
    BY DEF collect, limiterVars
<1>2. Ever' = Ever /\ Made' = Made  BY <1>1 DEF Ever, Made
<1>3. /\ queue \in Seq(LoggedRow \cup {STOP}) /\ batch \in Seq(LoggedRow) /\ Len(queue) \in Nat /\ Len(queue) <= MaxQueue
    BY DEF Ingesting, Buffered
<1> DEFINE x == Head(queue)
<1>4. /\ x \in LoggedRow \cup {STOP} /\ Tail(queue) \in Seq(LoggedRow \cup {STOP}) /\ Len(Tail(queue)) = Len(queue) - 1
      /\ Carried(queue) = Carried(Tail(queue)) \cup ({x.id} \ {STOP.id})
      /\ Once(Tail(queue)) /\ x.id \notin Carried(Tail(queue))
    BY <1>1, <1>3, CarriedRest DEF Ingesting, Separate
<1>5. Range(Tail(queue)) \subseteq Range(queue) /\ x \in Range(queue)
  <2>1. \A i \in DOMAIN Tail(queue) : Tail(queue)[i] = queue[i + 1] /\ i + 1 \in DOMAIN queue
    BY <1>1, <1>3
  <2>2. 1 \in DOMAIN queue /\ x = queue[1]  BY <1>1, <1>3
  <2> QED BY <2>1, <2>2 DEF Range
<1>6. HalfStored = {}  BY <1>1 DEF HalfStored
<1>7. CASE x = STOP
  <2>1. queue' = Append(Tail(queue), STOP) /\ batch' = <<>> /\ flusher' = "ending"
    BY <1>7 DEF collect
  <2>2. Carried(queue') = Carried(Tail(queue)) /\ Once(queue')
    <3>1. STOP.id \notin Carried(Tail(queue)) /\ STOP \in LoggedRow \cup {STOP}
      BY DEF Carried
    <3>2. Tail(queue) \in Seq(LoggedRow \cup {STOP}) /\ Once(Tail(queue))  BY <1>4
    <3>3. /\ Carried(Append(Tail(queue), STOP)) = Carried(Tail(queue)) \cup ({STOP.id} \ {STOP.id})
          /\ Once(Append(Tail(queue), STOP))
      BY <3>1, <3>2, CarriedMore
    <3> QED BY <2>1, <3>3
  <2>3. Carried(batch') = {} /\ Once(batch') /\ Carried(queue') \subseteq Carried(queue)
    BY <1>4, <2>1, <2>2 DEF Carried, Once
  <2>4. Moving' \subseteq Moving /\ HalfStored' = {}
    BY <1>1, <2>1, <2>3 DEF Moving, HalfStored
  <2>5. stopping  BY <1>5, <1>7 DEF Ingesting, Orderly
  <2>6. Buffered'
    <3>1. queue' \in Seq(LoggedRow \cup {STOP}) /\ Len(queue') = Len(Tail(queue)) + 1
      BY <1>4, <2>1
    <3>2. Len(queue') <= MaxQueue  BY <1>3, <1>4, <3>1
    <3>3. batch' \in Seq(LoggedRow) /\ Len(batch') <= BatchSize
      BY <2>1, TelemetryAssumption
    <3> QED BY <1>1, <1>2, <3>1, <3>2, <3>3 DEF Ingesting, Buffered
  <2>7. Separate'  BY <1>1, <2>2, <2>3 DEF Ingesting, Separate
  <2>8. Traced'  BY <1>2, <2>4 DEF Ingesting, Traced
  <2>9. Orderly' /\ Conserved'
    BY <1>1, <1>2, <1>6, <2>1, <2>3, <2>4, <2>5 DEF Ingesting, Orderly, Conserved, InWrite
  <2>10. CountedOnce'
    <3>1. Ever' \subseteq Ids  BY <1>2 DEF Ingesting, Traced, Buffered
    <3> QED BY <1>1, <1>2, <2>4, <3>1, CountStands
  <2>11. Accountable'
    <3>1. batch \in Seq(LoggedRow) /\ Once(batch) /\ Len(batch) <= BatchSize
      BY DEF Ingesting, Buffered, Separate
    <3>2. Missing' \subseteq Missing \cup Carried(batch)
      BY <1>1, <1>2, <1>4, <1>7, <2>2 DEF Missing, Moving
    <3>3. GoneBatches' = GoneBatches + 1 /\ GoneBatches \in Nat
      BY <1>1, <2>1 DEF GoneBatches, Ingesting, Accountable, Buffered
    <3> QED BY <3>1, <3>2, <3>3, MissingKeeps
  <2> QED BY <2>6, <2>7, <2>8, <2>9, <2>10, <2>11 DEF Ingesting
<1>8. CASE x # STOP
  <2>1. queue' = Tail(queue) /\ batch' = Append(batch, x) /\ flusher' = flusher
    BY <1>8 DEF collect
  <2>2. x \in LoggedRow /\ x.id # STOP.id
    BY <1>4, <1>8, TelemetryAssumption DEF LoggedRow, STOP
  <2>3. x.id \in Carried(queue) /\ x.id \notin Carried(batch) /\ x.id \notin Carried(retry)
    BY <1>4, <2>2 DEF Ingesting, Separate
  <2> HIDE DEF x
  <2>4. Carried(batch') = Carried(batch) \cup {x.id} /\ Once(batch')
    BY <1>3, <2>1, <2>2, <2>3, CarriedMore DEF Ingesting, Separate
  <2>5. Carried(queue) = Carried(queue') \cup {x.id} /\ x.id \notin Carried(queue') /\ Once(queue')
    BY <1>4, <2>1, <2>2
  <2>6. Moving' = Moving /\ HalfStored' = {}
    BY <1>1, <2>1, <2>4, <2>5 DEF Moving, HalfStored
  <2>7. Buffered'
    <3>1. batch' \in Seq(LoggedRow) /\ Len(batch') = Len(batch) + 1  BY <1>3, <2>1, <2>2
    <3>2. Len(batch') <= BatchSize  BY <1>1, <1>3, <3>1, TelemetryAssumption
    <3>3. queue' \in Seq(LoggedRow \cup {STOP}) /\ Len(queue') <= MaxQueue
      BY <1>3, <1>4, <2>1, TelemetryAssumption
    <3> QED BY <1>1, <1>2, <3>1, <3>2, <3>3 DEF Ingesting, Buffered
  <2>8. Separate'  BY <1>1, <2>3, <2>4, <2>5 DEF Ingesting, Separate
  <2>9. Traced'  BY <1>2, <2>6 DEF Ingesting, Traced
  <2>10. Orderly'  BY <1>1, <1>5, <2>1 DEF Ingesting, Orderly
  <2>11. Conserved'  BY <1>1, <1>2, <1>6, <2>5, <2>6 DEF Ingesting, Conserved
  <2>12. CountedOnce'
    <3>1. Ever' \subseteq Ids  BY <1>2 DEF Ingesting, Traced, Buffered
    <3> QED BY <1>1, <1>2, <2>6, <3>1, CountStands
  <2>13. Missing' = Missing /\ GoneBatches' = GoneBatches
    BY <1>1, <1>2, <2>1, <2>6 DEF Missing, GoneBatches
  <2> QED BY <2>7, <2>8, <2>9, <2>10, <2>11, <2>12, <2>13 DEF Ingesting, Accountable
<1> QED BY <1>7, <1>8

LEMMA MergedOnce ==
    ASSUME NEW s \in Seq(LoggedRow), NEW t \in Seq(LoggedRow), Once(s), Once(t), Carried(s) \cap Carried(t) = {}
    PROVE  /\ Merged(s, t) \in Seq(LoggedRow) /\ Len(Merged(s, t)) <= BatchSize
           /\ Once(Merged(s, t)) /\ Carried(Merged(s, t)) \subseteq Carried(s) \cup Carried(t)
           /\ Len(s) <= BatchSize /\ Len(t) <= BatchSize
              => \E rest \in Seq(LoggedRow) :
                    /\ Once(rest) /\ Len(rest) <= BatchSize /\ (s = <<>> => rest = <<>>)
                    /\ Carried(s) \cup Carried(t) \subseteq Carried(Merged(s, t)) \cup Carried(rest)
<1> DEFINE u == s \o t
           n == IF Len(u) < BatchSize THEN Len(u) ELSE BatchSize
<1>1. u \in Seq(LoggedRow) /\ Carried(u) = Carried(s) \cup Carried(t) /\ Once(u)
    BY CarriedBoth
<1>2. Len(u) \in Nat /\ BatchSize \in Nat  BY <1>1, TelemetryAssumption
<1>3. n \in 0..Len(u) /\ n <= BatchSize  BY <1>2
<1>4. Merged(s, t) = SubSeq(u, 1, n)  BY DEF Merged, Cut
<1>5. ASSUME Len(s) <= BatchSize, Len(t) <= BatchSize
      PROVE  Len(u) - n <= BatchSize /\ (s = <<>> => Len(u) = n)
  <2>1. Len(u) = Len(s) + Len(t) /\ Len(s) \in Nat /\ Len(t) \in Nat  OBVIOUS
  <2> QED BY <1>2, <1>5, <2>1
<1> HIDE DEF u, n
<1>6. /\ SubSeq(u, 1, n) \in Seq(LoggedRow) /\ Len(SubSeq(u, 1, n)) = n
      /\ Carried(SubSeq(u, 1, n)) \subseteq Carried(u) /\ Once(SubSeq(u, 1, n))
    BY <1>1, <1>3, CarriedPart
<1>7. /\ SubSeq(u, n + 1, Len(u)) \in Seq(LoggedRow) /\ Once(SubSeq(u, n + 1, Len(u)))
      /\ Carried(u) \subseteq Carried(SubSeq(u, 1, n)) \cup Carried(SubSeq(u, n + 1, Len(u)))
  <2>1. n + 1 \in Nat \ {0} /\ Len(u) \in 0..Len(u)  BY <1>2, <1>3
  <2> QED BY <1>1, <1>3, <2>1, CarriedPart, CarriedSplit
<1>8. Len(SubSeq(u, n + 1, Len(u))) = Len(u) - n /\ (Len(u) = n => SubSeq(u, n + 1, Len(u)) = <<>>)
    BY <1>1, <1>2, <1>3
<1> QED BY <1>1, <1>3, <1>4, <1>5, <1>6, <1>7, <1>8

LEMMA FlushKeeps == ASSUME Ingesting, FlushDue PROVE Ingesting'
<1>1. /\ flusher = "collect" /\ flusher' = "events" /\ batch' = Merged(retry, batch) /\ retry' = <<>>
      /\ UNCHANGED <<queue, rows, purged, stats, stopping, now>>
    BY DEF FlushDue, Write, limiterVars
<1>2. Ever' = Ever /\ Made' = Made /\ HalfStored = {} /\ HalfStored' = {}
    BY <1>1 DEF Ever, Made, HalfStored
<1>3. /\ batch' \in Seq(LoggedRow) /\ Len(batch') <= BatchSize /\ Once(batch')
      /\ Carried(batch') \subseteq Carried(retry) \cup Carried(batch)
      /\ \E rest \in Seq(LoggedRow) :
            /\ Once(rest) /\ Len(rest) <= BatchSize /\ (retry = <<>> => rest = <<>>)
            /\ Carried(retry) \cup Carried(batch) \subseteq Carried(batch') \cup Carried(rest)
  <2>1. batch \in Seq(LoggedRow) /\ retry \in Seq(LoggedRow) /\ Len(batch) <= BatchSize /\ Len(retry) <= BatchSize
    BY DEF Ingesting, Buffered
  <2>2. Once(batch) /\ Once(retry) /\ Carried(retry) \cap Carried(batch) = {}
    BY DEF Ingesting, Separate
  <2> QED BY <1>1, <2>1, <2>2, MergedOnce
<1>4. Carried(retry') = {} /\ Once(retry')  BY <1>1 DEF Carried, Once
<1>5. Moving' \subseteq Moving  BY <1>1, <1>3, <1>4 DEF Moving
<1>6. Buffered'
  <2>1. retry' \in Seq(LoggedRow) /\ Len(retry') <= BatchSize
    BY <1>1, TelemetryAssumption
  <2> QED BY <1>1, <1>2, <1>3, <2>1 DEF Ingesting, Buffered
<1>7. Separate'  BY <1>1, <1>3, <1>4 DEF Ingesting, Separate
<1>8. Traced'  BY <1>2, <1>5 DEF Ingesting, Traced
<1>9. Orderly'  BY <1>1 DEF Ingesting, Orderly
<1>10. Conserved'  BY <1>1, <1>2, <1>5 DEF Ingesting, Conserved
<1>11. CountedOnce'
  <2>1. Ever' \subseteq Ids  BY <1>2 DEF Ingesting, Traced, Buffered
  <2> QED BY <1>1, <1>2, <1>5, <2>1, CountStands
<1>12. Accountable'
  <2>1. PICK rest \in Seq(LoggedRow) :
            /\ Once(rest) /\ Len(rest) <= BatchSize /\ (retry = <<>> => rest = <<>>)
            /\ Carried(retry) \cup Carried(batch) \subseteq Carried(batch') \cup Carried(rest)
    BY <1>3
  <2>2. Missing' \subseteq Missing \cup Carried(rest)  BY <1>1, <1>2, <2>1 DEF Missing, Moving
  <2>3. GoneBatches' \in Nat /\ GoneBatches' >= GoneBatches /\ (retry # <<>> => GoneBatches' > GoneBatches)
    BY <1>1 DEF GoneBatches, Ingesting, Buffered, Accountable
  <2> QED BY <2>1, <2>2, <2>3, MissingKeeps
<1> QED BY <1>6, <1>7, <1>8, <1>9, <1>10, <1>11, <1>12 DEF Ingesting

(* Only a task that has been told to stop drains the queue.                *)
LEMMA DrainKeeps == ASSUME Ingesting, drain_available PROVE Ingesting'
<1> DEFINE RowsUpTo(n) == {i \in 1..n : queue[i] # STOP}
           Full == {n \in 0..Len(queue) : Cardinality(RowsUpTo(n)) >= BatchSize} \cup {Len(queue)}
<1>1. PICK taken : taken = Min(Full)  OBVIOUS
<1>2. PICK K : K = RowsUpTo(taken)  OBVIOUS
<1>3. PICK order : order = InOrder(K, <)  OBVIOUS
<1>4. PICK items : items = [n \in DOMAIN order |-> queue[order[n]]]  OBVIOUS
<1>5. /\ flusher = "ending" /\ flusher' = "last_events" /\ batch' = Merged(retry, items) /\ retry' = <<>>
      /\ queue' = SubSeq(queue, taken + 1, Len(queue))
      /\ UNCHANGED <<rows, purged, stats, stopping, now>>
    BY <1>1, <1>2, <1>3, <1>4 DEF drain_available, Write, limiterVars
<1>6. queue \in Seq(LoggedRow \cup {STOP}) /\ Len(queue) \in Nat /\ DOMAIN queue = 1..Len(queue)
      /\ Len(queue) <= MaxQueue /\ Once(queue)
    BY DEF Ingesting, Buffered, Separate
<1>7. taken \in 0..Len(queue) /\ (taken # 0 => ~(Cardinality(RowsUpTo(taken - 1)) >= BatchSize))
  <2>1. Full \subseteq 0..Len(queue) /\ Full \subseteq Nat /\ Full # {}  BY <1>6
  <2>2. \A n \in 0..Len(queue) : Cardinality(RowsUpTo(n)) >= BatchSize => n \in Full  OBVIOUS
  <2> HIDE DEF Full, RowsUpTo
  <2>3. taken \in Full /\ \A n \in Full : taken <= n  BY <1>1, <2>1, MinIsLeast
  <2>4. taken # 0 => taken - 1 \in 0..Len(queue) /\ ~(taken <= taken - 1)  BY <1>6, <2>1, <2>3
  <2> QED BY <2>1, <2>2, <2>3, <2>4
<1>8. /\ K \subseteq 1..taken /\ K \subseteq DOMAIN queue /\ (\A i \in K : queue[i] # STOP)
      /\ \A i \in 1..taken : queue[i] # STOP => i \in K
      /\ (taken # 0 => K \subseteq RowsUpTo(taken - 1) \cup {taken}) /\ RowsUpTo(taken - 1) \subseteq 1..taken
    BY <1>2, <1>6, <1>7
<1> HIDE DEF RowsUpTo, Full
<1>9. K \in SUBSET Nat /\ IsFiniteSet(K) /\ Cardinality(K) <= BatchSize
  <2>1. taken \in Nat  BY <1>6, <1>7
  <2>2. IsFiniteSet(1..taken)  BY <2>1, FS_Interval
  <2>3. IsFiniteSet(K)  BY <1>8, <2>2, FS_Subset
  <2>4. CASE taken = 0
    <3>1. K = {}  BY <1>8, <2>4
    <3> QED BY <1>8, <2>3, <3>1, TelemetryAssumption, FS_EmptySet
  <2>5. CASE taken # 0
    <3> DEFINE R == RowsUpTo(taken - 1)
    <3>1. IsFiniteSet(R) /\ Cardinality(R) \in Nat  BY <1>8, <2>2, <2>5, FS_Subset, FS_CardinalityType
    <3>2. IsFiniteSet(R \cup {taken}) /\ Cardinality(R \cup {taken}) <= Cardinality(R) + 1
      BY <3>1, FS_AddElement
    <3>3. Cardinality(K) <= Cardinality(R \cup {taken}) /\ Cardinality(K) \in Nat
          /\ Cardinality(R \cup {taken}) \in Nat
      BY <1>8, <2>3, <2>5, <3>2, FS_Subset, FS_CardinalityType
    <3> HIDE DEF R
    <3> QED BY <1>7, <1>8, <2>3, <2>5, <3>1, <3>2, <3>3, TelemetryAssumption DEF R
  <2> QED BY <2>4, <2>5
<1>10. PICK c \in Nat : /\ c <= BatchSize /\ Range(order) = K /\ order \in [1..c -> K]
                        /\ \A i, j \in 1..c : order[i] = order[j] => i = j
  <2>1. PICK c \in Nat : /\ c = Cardinality(K) /\ order \in [1..c -> K]
                         /\ \A i, j \in 1..c : order[i] = order[j] => i = j
    BY <1>3, <1>9, IndicesInOrder
  <2>2. Cardinality(Range(order)) = c  BY <2>1, Enumerated
  <2>3. Range(order) \subseteq K  BY <2>1 DEF Range
  <2>4. Range(order) = K  BY <1>9, <2>1, <2>2, <2>3, FS_Subset
  <2> QED BY <1>9, <2>1, <2>4
<1>11. \A i \in K : queue[i] \in LoggedRow  BY <1>6, <1>8
<1>12. items \in [1..c -> LoggedRow] /\ \A n \in 1..c : items[n] = queue[order[n]] /\ order[n] \in K
    BY <1>4, <1>10, <1>11
<1>13. items \in Seq(LoggedRow) /\ DOMAIN items = 1..c /\ Len(items) <= BatchSize  BY <1>10, <1>12
<1>14. Once(items)
  <2> SUFFICES ASSUME NEW i \in 1..c, NEW j \in 1..c, items[i].id = items[j].id, items[i].id # STOP.id
               PROVE  i = j
    BY <1>13 DEF Once
  <2>1. order[i] \in DOMAIN queue /\ order[j] \in DOMAIN queue
        /\ items[i] = queue[order[i]] /\ items[j] = queue[order[j]]
    BY <1>8, <1>12
  <2>2. order[i] = order[j]  BY <1>6, <2>1 DEF Once
  <2> QED BY <1>10, <2>2
<1>15. Carried(items) \subseteq Carried(queue)
  <2> SUFFICES ASSUME NEW id \in Carried(items) PROVE id \in Carried(queue)  OBVIOUS
  <2>1. PICK n \in 1..c : items[n].id = id /\ id # STOP.id  BY <1>13 DEF Carried
  <2>2. order[n] \in DOMAIN queue /\ items[n] = queue[order[n]]  BY <1>8, <1>12
  <2> QED BY <2>1, <2>2 DEF Carried
<1>16. /\ queue' \in Seq(LoggedRow \cup {STOP}) /\ Len(queue') <= Len(queue) /\ Len(queue') \in Nat
       /\ Carried(queue') \subseteq Carried(queue) /\ Once(queue')
       /\ \A id \in Carried(queue') : \E i \in (taken + 1)..Len(queue) : queue[i].id = id
  <2>1. taken + 1 \in Nat \ {0} /\ Len(queue) \in 0..Len(queue)  BY <1>6, <1>7
  <2>2. PICK S, s, m, n : S = LoggedRow \cup {STOP} /\ s = queue /\ m = taken + 1 /\ n = Len(queue)
    OBVIOUS
  <2>3. s \in Seq(S) /\ m \in Nat \ {0} /\ n \in 0..Len(s) /\ Once(s)
    BY <1>6, <2>1, <2>2
  <2>4. /\ SubSeq(s, m, n) \in Seq(S) /\ Len(SubSeq(s, m, n)) <= Len(s)
        /\ Len(SubSeq(s, m, n)) \in Nat /\ Carried(SubSeq(s, m, n)) \subseteq Carried(s)
        /\ Once(SubSeq(s, m, n))
        /\ \A id \in Carried(SubSeq(s, m, n)) : \E i \in m..n : s[i].id = id
    BY <2>3, CarriedPart
  <2> QED BY <1>5, <2>2, <2>4
<1>17. Carried(items) \cap Carried(queue') = {}
  <2> SUFFICES ASSUME NEW id \in Carried(items), id \in Carried(queue') PROVE FALSE
    OBVIOUS
  <2>1. PICK n \in 1..c : items[n].id = id /\ id # STOP.id  BY <1>13 DEF Carried
  <2>2. PICK i \in (taken + 1)..Len(queue) : queue[i].id = id  BY <1>16
  <2>3. order[n] \in 1..taken /\ order[n] \in DOMAIN queue /\ queue[order[n]].id = id /\ i \in DOMAIN queue
    <3>1. order[n] \in K /\ items[n] = queue[order[n]]  BY <1>12
    <3>2. i \in 1..Len(queue)  BY <1>6, <1>7
    <3> QED BY <1>6, <1>8, <2>1, <3>1, <3>2
  <2>4. order[n] = i  BY <1>6, <2>1, <2>2, <2>3 DEF Once
  <2> QED BY <1>7, <2>3, <2>4
<1>27. Carried(queue) \subseteq Carried(items) \cup Carried(queue')
  <2>1. Carried(queue) \subseteq Carried(SubSeq(queue, 1, taken)) \cup Carried(queue')
    BY <1>5, <1>6, <1>7, CarriedSplit
  <2> SUFFICES ASSUME NEW id \in Carried(SubSeq(queue, 1, taken)) PROVE id \in Carried(items)
    BY <2>1
  <2>2. PICK i \in 1..taken : queue[i].id = id  BY <1>6, <1>7, CarriedPart
  <2>3. id # STOP.id  BY DEF Carried
  <2>4. i \in Range(order)  BY <1>8, <1>10, <2>2, <2>3
  <2>5. PICK n \in 1..c : order[n] = i  BY <1>10, <2>4 DEF Range
  <2>6. n \in DOMAIN items /\ items[n].id = id  BY <1>12, <1>13, <2>2, <2>5
  <2> QED BY <2>3, <2>6 DEF Carried
<1>18. /\ batch' \in Seq(LoggedRow) /\ Len(batch') <= BatchSize /\ Once(batch')
       /\ Carried(batch') \subseteq Carried(retry) \cup Carried(items)
       /\ \E rest \in Seq(LoggedRow) :
             /\ Once(rest) /\ Len(rest) <= BatchSize /\ (retry = <<>> => rest = <<>>)
             /\ Carried(retry) \cup Carried(items) \subseteq Carried(batch') \cup Carried(rest)
  <2>1. retry \in Seq(LoggedRow) /\ Len(retry) <= BatchSize /\ Once(retry) /\ Carried(retry) \cap Carried(items) = {}
    BY <1>15 DEF Ingesting, Buffered, Separate
  <2> QED BY <1>5, <1>13, <1>14, <2>1, MergedOnce
<1>19. Carried(retry') = {} /\ Once(retry') /\ retry' \in Seq(LoggedRow) /\ Len(retry') <= BatchSize
    BY <1>5, TelemetryAssumption DEF Carried, Once
<1>20. Ever' = Ever /\ Made' = Made /\ HalfStored' = {} /\ Moving' \subseteq Moving
    BY <1>5, <1>15, <1>16, <1>18, <1>19 DEF Ever, Made, HalfStored, Moving
<1>21. stopping  BY <1>5 DEF Ingesting, Orderly
<1>22. Buffered'
  <2>1. Len(queue') <= MaxQueue  BY <1>6, <1>16, TelemetryAssumption
  <2> QED BY <1>5, <1>16, <1>18, <1>19, <1>20, <2>1 DEF Ingesting, Buffered
<1>23. Separate'
  <2>1. Carried(queue) \cap Carried(retry) = {}  BY DEF Ingesting, Separate
  <2> QED BY <1>16, <1>17, <1>18, <1>19, <2>1 DEF Separate
<1>24. Traced'  BY <1>20 DEF Ingesting, Traced
<1>25. Orderly' /\ Conserved'
  <2>1. HalfStored = {}  BY <1>5 DEF HalfStored
  <2> QED BY <1>5, <1>16, <1>20, <1>21, <2>1 DEF Ingesting, Orderly, Conserved
<1>26. CountedOnce'
  <2>1. Ever' \subseteq Ids  BY <1>20 DEF Ingesting, Traced, Buffered
  <2> QED BY <1>5, <1>20, <2>1, CountStands
<1>28. Accountable'
  <2>1. PICK rest \in Seq(LoggedRow) :
            /\ Once(rest) /\ Len(rest) <= BatchSize /\ (retry = <<>> => rest = <<>>)
            /\ Carried(retry) \cup Carried(items) \subseteq Carried(batch') \cup Carried(rest)
    BY <1>18
  <2>2. Missing' \subseteq Missing \cup Carried(rest)
    <3>1. Carried(batch) = {}  BY <1>5 DEF Ingesting, Orderly, Carried
    <3> QED BY <1>20, <1>27, <2>1, <3>1 DEF Missing, Moving
  <2>3. GoneBatches' \in Nat /\ GoneBatches' >= GoneBatches /\ (retry # <<>> => GoneBatches' > GoneBatches)
    BY <1>5 DEF GoneBatches, Ingesting, Buffered, Accountable
  <2> QED BY <2>1, <2>2, <2>3, MissingKeeps
<1> QED BY <1>22, <1>23, <1>24, <1>25, <1>26, <1>28 DEF Ingesting

(* Two rows of a batch are two, and none has the number of a stored one.   *)
LEMMA BatchRows ==
    ASSUME Ingesting
    PROVE  /\ Range(batch) \subseteq LoggedRow /\ Carried(batch) = {r.id : r \in Range(batch)}
           /\ \A r, s \in Range(batch) : r.id = s.id => r = s
<1>1. batch \in Seq(LoggedRow) /\ Once(batch)  BY DEF Ingesting, Buffered, Separate
<1>2. Range(batch) \subseteq LoggedRow /\ Carried(batch) = {r.id : r \in Range(batch)}
    BY <1>1, CarriedRows
<1>3. ASSUME NEW r \in Range(batch), NEW s \in Range(batch), r.id = s.id PROVE r = s
  <2>1. PICK i \in DOMAIN batch : r = batch[i]  BY DEF Range
  <2>2. PICK j \in DOMAIN batch : s = batch[j]  BY DEF Range
  <2>3. r.id \in Ids /\ STOP.id \notin Ids
    BY <1>2, TelemetryAssumption DEF LoggedRow, STOP
  <2>4. i = j  BY <1>1, <1>3, <2>1, <2>2, <2>3 DEF Once
  <2> QED BY <2>1, <2>2, <2>4
<1> QED BY <1>2, <1>3

LEMMA SaveEventsKeeps == ASSUME Ingesting, save_events PROVE Ingesting'
<1>1. /\ flusher \in {"events", "last_events"} /\ \A r \in Events : ~Stored(r.id)
      /\ rows' = rows \cup Events /\ flusher' \in {"invocations", "last_invocations"}
      /\ (flusher = "events" <=> flusher' = "invocations")
      /\ UNCHANGED <<queue, batch, retry, purged, stats, stopping, now>>
    BY DEF save_events, limiterVars
<1>2. Events \subseteq Range(batch) /\ Events' = Events  BY <1>1 DEF Events, Of
<1>3. Made' = Made /\ Moving' = Moving /\ HalfStored = {} /\ HalfStored' = {r.id : r \in Events}
    BY <1>1, <1>2 DEF Made, Moving, HalfStored
<1> HIDE DEF Events
<1>4. Ever' = Ever \cup {r.id : r \in Events}  BY <1>1 DEF Ever
<1>5. {r.id : r \in Events} \subseteq Carried(batch) /\ Events \subseteq LoggedRow
    BY <1>2, BatchRows
<1>6. Buffered'
  <2>1. \A r, s \in rows' : r.id = s.id => r = s
    <3>1. \A r, s \in rows : r.id = s.id => r = s  BY DEF Ingesting, Buffered
    <3>2. \A r, s \in Events : r.id = s.id => r = s  BY <1>2, BatchRows
    <3>3. \A r \in rows, s \in Events : r.id # s.id  BY <1>1 DEF Stored
    <3> QED BY <1>1, <3>1, <3>2, <3>3
  <2> QED BY <1>1, <1>3, <1>5, <2>1 DEF Ingesting, Buffered
<1>7. Separate' /\ Orderly'  BY <1>1 DEF Ingesting, Separate, Orderly, InWrite
<1>8. Traced'  BY <1>3, <1>4, <1>5 DEF Ingesting, Traced, Moving
<1>9. Conserved'  BY <1>1, <1>3, <1>4, <1>5 DEF Ingesting, Conserved, Separate, Moving
<1>10. CountedOnce'
  <2>1. Ever' \subseteq Ids  BY <1>3, <1>8 DEF Traced, Ingesting, Buffered
  <2> QED BY <1>1, <1>3, <1>4, <2>1, CountStands
<1>11. Accountable'
  <2>1. Missing' \subseteq Missing  BY <1>3, <1>4 DEF Missing
  <2>2. GoneBatches' = GoneBatches  BY <1>1 DEF GoneBatches
  <2> QED BY <2>1, <2>2, MissingStays DEF Ingesting, Accountable
<1> QED BY <1>6, <1>7, <1>8, <1>9, <1>10, <1>11 DEF Ingesting

LEMMA SaveInvocationsKeeps == ASSUME Ingesting, save_invocations PROVE Ingesting'
<1>1. /\ flusher \in {"invocations", "last_invocations"} /\ \A r \in Invocations : ~Stored(r.id)
      /\ rows' = rows \cup Invocations /\ flusher' \in {"collect", "stopped"}
      /\ (flusher = "invocations" <=> flusher' = "collect")
      /\ stats' = [stats EXCEPT !.written = @ + Len(batch)] /\ batch' = <<>>
      /\ UNCHANGED <<queue, retry, purged, stopping, now>>
    BY DEF save_invocations, Collecting, limiterVars
<1>2. /\ Invocations \subseteq Range(batch) /\ Range(batch) = Events \cup Invocations
  <2>1. \A r \in Range(batch) : r.kind \in {"event", "invocation"}
    BY BatchRows DEF LoggedRow
  <2> QED BY <2>1 DEF Invocations, Events, Of
<1> HIDE DEF Events, Invocations
<1>3. HalfStored = {r.id : r \in Events} /\ HalfStored' = {}  BY <1>1 DEF HalfStored
<1>4. Ever' = Ever \cup {r.id : r \in Invocations}  BY <1>1 DEF Ever
<1>5. Carried(batch) = {r.id : r \in Events} \cup {r.id : r \in Invocations} /\ Invocations \subseteq LoggedRow
    BY <1>2, BatchRows
<1>6. Carried(batch') = {} /\ Once(batch') /\ batch' \in Seq(LoggedRow) /\ Len(batch') <= BatchSize
    BY <1>1, TelemetryAssumption DEF Carried, Once
<1>7. Moving' = Carried(queue) \cup Carried(retry) /\ Moving' \cap Carried(batch) = {}
      /\ Moving = Moving' \cup Carried(batch)
    BY <1>1, <1>6 DEF Moving, Ingesting, Separate
<1>8. /\ Made' = Made /\ stats'.written = stats.written + Len(batch) /\ UNCHANGED stats.failures
      /\ Len(batch) \in Nat
      /\ stats' = [enqueued |-> Made', dropped |-> stats'.dropped, written |-> stats'.written,
                 failures |-> stats'.failures]
    BY <1>1 DEF Made, Ingesting, Buffered
<1>9. Carried(batch) \subseteq Ever'  BY <1>3, <1>4, <1>5 DEF Ingesting, Traced
<1>10. Buffered'
  <2>1. \A r, s \in rows' : r.id = s.id => r = s
    <3>1. \A r, s \in rows : r.id = s.id => r = s  BY DEF Ingesting, Buffered
    <3>2. \A r, s \in Invocations : r.id = s.id => r = s  BY <1>2, BatchRows
    <3>3. \A r \in rows, s \in Invocations : r.id # s.id  BY <1>1 DEF Stored
    <3> QED BY <1>1, <3>1, <3>2, <3>3
  <2>2. stats'.written \in Nat  BY <1>8 DEF Ingesting, Buffered
  <2> QED BY <1>1, <1>5, <1>6, <1>8, <2>1, <2>2 DEF Ingesting, Buffered
<1>11. Separate'  BY <1>1, <1>6 DEF Ingesting, Separate
<1>12. Traced'  BY <1>3, <1>4, <1>5, <1>7, <1>8 DEF Ingesting, Traced
<1>13. Orderly'  BY <1>1, <1>8 DEF Ingesting, Orderly, InWrite
<1>14. Conserved'
  <2>1. Carried(queue) \cap Ever' = {}  BY <1>4, <1>5 DEF Ingesting, Conserved, Separate
  <2>2. Carried(retry) = {}  BY <1>1 DEF Ingesting, Orderly, InWrite, Carried
  <2> QED BY <1>1, <1>7, <2>1, <2>2 DEF Conserved
<1>15. CountedOnce'
  <2> DEFINE old == Ever \ Moving
             new == (Ever \ Moving)'
  <2>1. old \cup Carried(batch) \subseteq new /\ old \cap Carried(batch) = {} /\ new \subseteq Ids
    BY <1>4, <1>7, <1>8, <1>9, <1>12 DEF Traced, Ingesting, Buffered
  <2>2. stats.written \in Nat /\ stats.written <= Cardinality(old)
    BY DEF Ingesting, Buffered, CountedOnce
  <2> HIDE DEF old, new
  <2>3. IsFiniteSet(new)  BY <2>1, TelemetryAssumption, FS_Subset
  <2>4. IsFiniteSet(old \cup Carried(batch)) /\ Cardinality(old \cup Carried(batch)) <= Cardinality(new)
    BY <2>1, <2>3, FS_Subset
  <2>5. IsFiniteSet(old) /\ IsFiniteSet(Carried(batch))  BY <2>4, FS_Subset
  <2>6. Cardinality(Carried(batch)) = Len(batch)
    BY CarriedCount DEF Ingesting, Buffered, Separate
  <2>7. Cardinality(old \cup Carried(batch)) = Cardinality(old) + Cardinality(Carried(batch)) - Cardinality({})
    BY <2>1, <2>5, FS_Union
  <2>8. Cardinality({}) = 0 /\ Cardinality(old) \in Nat /\ Cardinality(new) \in Nat
    BY <2>3, <2>5, FS_EmptySet, FS_CardinalityType
  <2>9. stats'.written <= Cardinality(new)  BY <1>8, <2>2, <2>4, <2>6, <2>7, <2>8
  <2> QED BY <2>9 DEF new, CountedOnce
<1>16. Accountable'
  <2>1. Missing' \subseteq Missing  BY <1>4, <1>7, <1>8, <1>9 DEF Missing
  <2>2. GoneBatches' \in {GoneBatches, GoneBatches + 1} /\ GoneBatches \in Nat
    BY <1>1, <1>8, GoneCounted DEF GoneBatches
  <2> QED BY <2>1, <2>2, MissingStays
<1> QED BY <1>10, <1>11, <1>12, <1>13, <1>14, <1>15, <1>16 DEF Ingesting

LEMMA FailureKeeps == ASSUME Ingesting, WriteFails PROVE Ingesting'
<1>1. /\ retry' = Cut(batch) /\ batch' = <<>> /\ batch # <<>> /\ flusher' \in {"collect", "stopped"}
      /\ (flusher \in {"events", "invocations"} <=> flusher' = "collect")
      /\ flusher \in InWrite /\ stats' = [stats EXCEPT !.failures = @ + 1]
      /\ UNCHANGED <<queue, rows, purged, stopping, now>>
    BY DEF WriteFails, Collecting, limiterVars, InWrite
<1>2. retry' = batch /\ Once(batch) /\ batch \in Seq(LoggedRow) /\ Len(batch) <= BatchSize
  <2>1. batch \in Seq(LoggedRow) /\ Once(batch) /\ Len(batch) <= BatchSize
    BY DEF Ingesting, Buffered, Separate
  <2>2. Cut(batch) = SubSeq(batch, 1, Len(batch))  BY <2>1, TelemetryAssumption DEF Cut
  <2> QED BY <1>1, <2>1, <2>2
<1>3. Ever' = Ever /\ Made' = Made /\ HalfStored' = {} /\ stats'.written = stats.written
      /\ stats'.failures = stats.failures + 1 /\ stats.failures \in Nat
      /\ stats' = [enqueued |-> Made', dropped |-> stats'.dropped, written |-> stats'.written,
                   failures |-> stats'.failures]
    BY <1>1 DEF Ever, Made, HalfStored, Ingesting, Buffered
<1>4. Carried(batch') = {} /\ Once(batch') /\ batch' \in Seq(LoggedRow) /\ Len(batch') <= BatchSize
    BY <1>1, TelemetryAssumption DEF Carried, Once
<1>5. retry = <<>> /\ Carried(retry) = {}  BY <1>1 DEF Ingesting, Orderly, Carried
<1>6. Moving' = Moving  BY <1>1, <1>2, <1>4, <1>5 DEF Moving
<1>7. Buffered'  BY <1>1, <1>2, <1>3, <1>4 DEF Ingesting, Buffered
<1>8. Separate' /\ Traced'
    BY <1>1, <1>2, <1>3, <1>4, <1>6 DEF Ingesting, Separate, Traced
<1>9. Orderly' /\ Conserved'  BY <1>1, <1>3 DEF Ingesting, Orderly, Conserved, InWrite
<1>10. CountedOnce'  BY <1>3, <1>6 DEF Ingesting, CountedOnce
<1>11. Accountable'
  <2>1. Missing' \subseteq Missing  BY <1>3, <1>6 DEF Missing
  <2>2. GoneBatches' \in Nat /\ GoneBatches' >= GoneBatches
    BY <1>1, <1>2, <1>3, <1>5, GoneCounted DEF GoneBatches, InWrite
  <2> QED BY <2>1, <2>2, MissingStays
<1> QED BY <1>7, <1>8, <1>9, <1>10, <1>11 DEF Ingesting

LEMMA StopKeeps == ASSUME Ingesting, stop PROVE Ingesting'
<1>1. /\ stopping' = TRUE /\ queue' = (IF Len(queue) < MaxQueue THEN Append(queue, STOP) ELSE queue)
      /\ UNCHANGED <<batch, flusher, retry, rows, purged, stats, now>>
    BY DEF stop, limiterVars
<1>2. Ever' = Ever /\ Made' = Made /\ HalfStored' = HalfStored
    BY <1>1 DEF Ever, Made, HalfStored, Events, Of
<1>3. queue \in Seq(LoggedRow \cup {STOP}) /\ Len(queue) <= MaxQueue /\ Once(queue) /\ Len(queue) \in Nat
      /\ MaxQueue \in Nat
    BY TelemetryAssumption DEF Ingesting, Buffered, Separate
<1>4. /\ queue' \in Seq(LoggedRow \cup {STOP}) /\ Len(queue') <= MaxQueue /\ Once(queue')
      /\ Carried(queue') = Carried(queue)
  <2>1. CASE Len(queue) < MaxQueue
    <3>1. STOP \in LoggedRow \cup {STOP} /\ STOP.id \notin Carried(queue)
      BY DEF Carried
    <3>2. Carried(Append(queue, STOP)) = Carried(queue) /\ Once(Append(queue, STOP))
      <4>1. /\ Carried(Append(queue, STOP)) = Carried(queue) \cup ({STOP.id} \ {STOP.id})
            /\ Once(Append(queue, STOP))
        BY <1>3, <3>1, CarriedMore
      <4> QED BY <4>1
    <3>3. Append(queue, STOP) \in Seq(LoggedRow \cup {STOP}) /\ Len(Append(queue, STOP)) <= MaxQueue
      BY <1>3, <2>1, <3>1
    <3> QED BY <1>1, <2>1, <3>2, <3>3
  <2>2. CASE ~(Len(queue) < MaxQueue)  BY <1>1, <1>3, <2>2
  <2> QED BY <2>1, <2>2
<1>5. Moving' = Moving  BY <1>1, <1>4 DEF Moving
<1>6. Buffered'  BY <1>1, <1>2, <1>4 DEF Ingesting, Buffered
<1>7. Separate'  BY <1>1, <1>4 DEF Ingesting, Separate
<1>8. Traced' /\ Orderly' /\ Conserved'
    BY <1>1, <1>2, <1>4, <1>5 DEF Ingesting, Traced, Orderly, Conserved
<1>9. CountedOnce' /\ Accountable'
    BY <1>1, <1>2, <1>5 DEF Ingesting, CountedOnce, Accountable, Missing, GoneBatches
<1> QED BY <1>6, <1>7, <1>8, <1>9 DEF Ingesting

LEMMA CancelKeeps == ASSUME Ingesting, Cancelled PROVE Ingesting'
<1>1. /\ stopping /\ flusher # "stopped" /\ flusher' = "stopped" /\ batch' = <<>>
      /\ UNCHANGED <<queue, retry, rows, purged, stats, stopping, now>>
    BY DEF Cancelled, limiterVars
<1>2. Ever' = Ever /\ Made' = Made /\ HalfStored' = {}
    BY <1>1 DEF Ever, Made, HalfStored
<1>3. Carried(batch') = {} /\ Once(batch') /\ batch' \in Seq(LoggedRow) /\ Len(batch') <= BatchSize
    BY <1>1, TelemetryAssumption DEF Carried, Once
<1>4. Moving' \subseteq Moving  BY <1>1, <1>3 DEF Moving
<1>5. Buffered'  BY <1>1, <1>2, <1>3 DEF Ingesting, Buffered
<1>6. Separate'  BY <1>1, <1>3 DEF Ingesting, Separate
<1>7. Traced' /\ Orderly' /\ Conserved'
  <2>1. stats.failures = 0 => Carried(retry) = {}  BY DEF Ingesting, Orderly, Carried
  <2> QED BY <1>1, <1>2, <1>3, <1>4, <2>1 DEF Ingesting, Traced, Orderly, Conserved, Moving, InWrite
<1>8. CountedOnce'
  <2>1. Ever' \subseteq Ids  BY <1>2 DEF Ingesting, Traced, Buffered
  <2> QED BY <1>1, <1>2, <1>4, <2>1, CountStands
<1>9. Accountable'
  <2>1. batch \in Seq(LoggedRow) /\ Once(batch) /\ Len(batch) <= BatchSize
    BY DEF Ingesting, Buffered, Separate
  <2>2. Missing' \subseteq Missing \cup Carried(batch)  BY <1>1, <1>2 DEF Missing, Moving
  <2>3. GoneBatches' \in Nat /\ GoneBatches' > GoneBatches
    BY <1>1, GoneCounted DEF GoneBatches
  <2> QED BY <2>1, <2>2, <2>3, MissingKeeps, GoneCounted
<1> QED BY <1>5, <1>6, <1>7, <1>8, <1>9 DEF Ingesting

(* A row that is deleted by age has been stored.                           *)
LEMMA RetentionKeeps == ASSUME Ingesting, delete_before PROVE Ingesting'
<1>1. /\ rows' \subseteq rows /\ purged' = purged \cup {r.id : r \in rows \ rows'}
      /\ UNCHANGED <<queue, batch, retry, flusher, stats, stopping, now>>
    BY DEF delete_before, limiterVars
<1>2. Ever' = Ever /\ Made' = Made /\ HalfStored' = HalfStored /\ Moving' = Moving
    BY <1>1 DEF Ever, Made, HalfStored, Events, Of, Moving
<1>3. Buffered'  BY <1>1, <1>2 DEF Ingesting, Buffered
<1>4. Separate' /\ Traced' /\ Orderly' /\ Conserved' /\ CountedOnce' /\ Accountable'
    BY <1>1, <1>2
    DEF Ingesting, Separate, Traced, Orderly, Conserved, CountedOnce, Accountable, Missing, GoneBatches
<1> QED BY <1>3, <1>4 DEF Ingesting

LEMMA IngestingStep == ASSUME Ingesting, [Next]_vars PROVE Ingesting'
<1>1. ASSUME UNCHANGED ingestVars, now' \in Nat PROVE Ingesting'
  <2>1. /\ Moving' = Moving /\ Ever' = Ever /\ HalfStored' = HalfStored /\ Made' = Made
        /\ UNCHANGED <<queue, batch, retry, flusher, rows, purged, stats, stopping>>
    BY <1>1 DEF ingestVars, Moving, Ever, HalfStored, Events, Of, Made
  <2> QED BY <1>1, <2>1
      DEF Ingesting, Buffered, Separate, Traced, Orderly, Conserved, CountedOnce, Accountable, Missing, GoneBatches
<1>2. now \in Nat  BY DEF Ingesting, Buffered
<1>3. CASE UNCHANGED vars
  <2>1. UNCHANGED <<ingestVars, now>>  BY <1>3 DEF vars, telemetryVars
  <2> QED BY <1>1, <1>2, <2>1
<1>4. ASSUME Ingests, now' = now PROVE Ingesting'
    BY <1>4, EnqueueKeeps, CollectKeeps, FlushKeeps, DrainKeeps, SaveEventsKeeps, SaveInvocationsKeeps,
       FailureKeeps, StopKeeps, CancelKeeps, RetentionKeeps DEF Ingests
<1>5. CASE Next
  <2>1. CASE UNCHANGED <<ingestVars, reader, now>>  BY <1>1, <1>2, <2>1
  <2>2. CASE Tick /\ UNCHANGED <<ingestVars, reader>>  BY <1>1, <1>2, <2>2 DEF Tick
  <2>3. CASE Ingests /\ UNCHANGED <<reader, now>>  BY <1>4, <2>3
  <2>4. CASE Reads /\ UNCHANGED <<ingestVars, now>>  BY <1>1, <1>2, <2>4
  <2> QED BY <1>5, <2>1, <2>2, <2>3, <2>4, TelemetrySteps
<1> QED BY <1>3, <1>5

LEMMA IngestingAccounts == ASSUME Ingesting PROVE Accounted /\ MemoryBounded
<1>1. InFlight = Moving
  <2> DEFINE Numbers(s) == {i.id : i \in Range(s)}
  <2>1. \A s : Carried(s) = Numbers(s) \ {STOP.id}  BY DEF Carried, Range
  <2>2. InFlight = (Numbers(queue) \cup Numbers(batch) \cup Numbers(retry)) \ {STOP.id}
    BY DEF InFlight
  <2> HIDE DEF Numbers
  <2> QED BY <2>1, <2>2 DEF Moving
<1>2. stats.written <= Cardinality(Ever)
  <2>1. Ever \subseteq Ids  BY DEF Ingesting, Traced, Buffered
  <2>2. IsFiniteSet(Ever)  BY <2>1, TelemetryAssumption, FS_Subset
  <2>3. Cardinality(Ever \ Moving) <= Cardinality(Ever) /\ IsFiniteSet(Ever \ Moving)
    BY <2>2, FS_Subset
  <2>4. Cardinality(Ever) \in Nat /\ Cardinality(Ever \ Moving) \in Nat
    BY <2>2, <2>3, FS_CardinalityType
  <2> QED BY <2>3, <2>4 DEF Ingesting, CountedOnce, Buffered
<1>5. Lost = Missing  BY <1>1 DEF Lost, Missing
<1>6. {i.id : i \in Range(queue)} \cap Ever = {}
  <2>1. {i.id : i \in Range(queue)} \subseteq Carried(queue) \cup {STOP.id}  BY DEF Carried, Range
  <2>2. STOP.id \notin Ever  BY TelemetryAssumption DEF Ingesting, Traced, Buffered, STOP
  <2> QED BY <2>1, <2>2 DEF Ingesting, Conserved
<1>3. Accounted
    BY <1>1, <1>2, <1>5, <1>6 DEF Accounted, Ingesting, Conserved, Accountable, HalfStored
<1>4. MemoryBounded  BY DEF MemoryBounded, Ingesting, Buffered
<1> QED BY <1>3, <1>4

----------------------------------------------------------------------------
(* What is read back                                                       *)

Descending(s) == \A i \in 1..(Len(s) - 1) : Newer(s[i], s[i + 1])

Numbered(S) == S \subseteq LoggedRow /\ \A r, s \in S : r.id = s.id => r = s

LEMMA NumberedFinite == ASSUME NEW S, Numbered(S) PROVE IsFiniteSet(S)
<1> DEFINE f == [r \in S |-> r.id]
<1>1. \A r \in S : r.id \in Ids  BY DEF Numbered, LoggedRow
<1>2. f \in Injection(S, Ids)  BY <1>1 DEF Injection, IsInjective, Numbered
<1> HIDE DEF f
<1> QED BY <1>2, TelemetryAssumption, FS_Injection

LEMMA NewerOrders ==
    ASSUME NEW S, Numbered(S)
    PROVE  /\ \A x \in S : ~Newer(x, x)
           /\ \A x, y \in S : x = y \/ Newer(x, y) \/ Newer(y, x)
           /\ \A x, y, z \in S : Newer(x, y) /\ Newer(y, z) => Newer(x, z)
           /\ \A x, y \in S : Newer(x, y) => ~Newer(y, x)
<1>1. \A x \in S : x.id \in Nat /\ x.at \in Nat
    BY TelemetryAssumption DEF Numbered, LoggedRow
<1>2. \A x, y \in S : x = y \/ x.id # y.id  BY DEF Numbered
<1> QED BY <1>1, <1>2 DEF Newer

(* Rows in the order of the log: each once, the newest first.              *)
LEMMA NewestFirst ==
    ASSUME NEW S, Numbered(S)
    PROVE  LET s == InOrder(S, Newer)
           IN /\ s \in Seq(S) /\ Range(s) = S
              /\ \A i, j \in 1..Len(s) : i < j => Newer(s[i], s[j])
<1> DEFINE R == {e \in S \X S : Newer(e[1], e[2])}
           Rank(x) == Cardinality({y \in S : Newer(y, x)})
           n == Cardinality(S)
           s == InOrder(S, Newer)
<1>1. \A x, y \in S : <<x, y>> \in R <=> Newer(x, y)  OBVIOUS
<1> HIDE DEF R
<1>2. Orders(R, S)  BY <1>1, NewerOrders DEF Orders
<1>3. ASSUME NEW x \in S PROVE Cardinality(Ahead(R, S, x)) = Rank(x)
  <2>1. Ahead(R, S, x) = {y \in S : Newer(y, x)}  BY <1>1 DEF Ahead
  <2> QED BY <2>1
<1>4. Ranked(R, S)  BY <1>2, NumberedFinite, EveryPlace
<1>5. n \in Nat /\ \A x \in S : Rank(x) + 1 \in 1..n  BY <1>3, <1>4 DEF Ranked
<1>6. ASSUME NEW i \in 1..n PROVE \E x \in S : Rank(x) = i - 1
  <2>1. PICK x \in S : Cardinality(Ahead(R, S, x)) = i - 1  BY <1>4 DEF Ranked
  <2>2. Rank(x) = i - 1  BY <1>3, <2>1
  <2> QED BY <2>2
<1>7. ASSUME NEW x \in S, NEW z \in S PROVE /\ Rank(x) = Rank(z) => x = z
                                            /\ Newer(x, z) => Rank(x) < Rank(z)
  <2>1. Cardinality(Ahead(R, S, x)) = Rank(x) /\ Cardinality(Ahead(R, S, z)) = Rank(z)
    BY <1>3
  <2> HIDE DEF Rank
  <2> QED BY <1>1, <1>4, <2>1 DEF Ranked
<1>8. s = [i \in 1..n |-> CHOOSE x \in S : Rank(x) = i - 1]  BY DEF InOrder
<1> HIDE DEF Rank, n, s
<1>9. \A i \in 1..n : s[i] \in S /\ Rank(s[i]) = i - 1  BY <1>6, <1>8
<1>10. s \in [1..n -> S]  BY <1>8, <1>9
<1>11. s \in Seq(S) /\ Len(s) = n /\ DOMAIN s = 1..n  BY <1>5, <1>10
<1>12. ASSUME NEW x \in S PROVE \E i \in 1..n : s[i] = x
  <2>1. Rank(x) + 1 \in 1..n /\ Rank(x) \in Int
    <3>1. Rank(x) + 1 \in 1..n  BY <1>5
    <3>2. PICK i \in 1..n : Cardinality(Ahead(R, S, x)) + 1 = i  BY <1>4 DEF Ranked, n
    <3>3. Rank(x) = Cardinality(Ahead(R, S, x)) /\ IsFiniteSet(Ahead(R, S, x))
      <4>1. Ahead(R, S, x) \subseteq S  BY DEF Ahead
      <4> QED BY <1>3, <4>1, NumberedFinite, FS_Subset
    <3> QED BY <3>1, <3>3, FS_CardinalityType
  <2>2. Rank(s[Rank(x) + 1]) = Rank(x) /\ s[Rank(x) + 1] \in S  BY <1>9, <2>1
  <2> QED BY <1>7, <2>1, <2>2
<1>13. Range(s) = S  BY <1>9, <1>11, <1>12 DEF Range
<1>14. ASSUME NEW i \in 1..n, NEW j \in 1..n, i < j PROVE Newer(s[i], s[j])
  <2>1. s[i] \in S /\ s[j] \in S /\ Rank(s[i]) = i - 1 /\ Rank(s[j]) = j - 1  BY <1>9
  <2>2. s[i] # s[j] /\ ~Newer(s[j], s[i])  BY <1>7, <1>14, <2>1
  <2> QED BY <2>1, <2>2, NewerOrders
<1> QED BY <1>11, <1>13, <1>14 DEF s

(* A page is the newest behind the cursor; with a cursor for the next one, *)
(* what it does not have is behind that one.                               *)
LEMMA PageReads ==
    ASSUME NEW S, Numbered(S), NEW cursor
    PROVE  LET sheet == Page(S, cursor)
           IN /\ sheet.items \in Seq(LoggedRow) /\ Descending(sheet.items)
              /\ \A r \in Range(sheet.items) : r \in S /\ BehindCursor(r, cursor)
              /\ sheet.next_cursor = <<>> =>
                    \A r \in S : BehindCursor(r, cursor) => r \in Range(sheet.items)
              /\ sheet.next_cursor # <<>> =>
                    /\ sheet.items # <<>> /\ sheet.next_cursor = <<sheet.items[Len(sheet.items)]>>
                    /\ \A r \in S : BehindCursor(r, cursor) =>
                          r \in Range(sheet.items) \/ Newer(sheet.items[Len(sheet.items)], r)
<1>1. PICK behind : behind = {r \in S : BehindCursor(r, cursor)}  OBVIOUS
<1>2. PICK found : found = InOrder(behind, Newer)  OBVIOUS
<1>3. Numbered(behind)  BY <1>1 DEF Numbered
<1>4. /\ found \in Seq(behind) /\ Range(found) = behind
      /\ \A i, j \in 1..Len(found) : i < j => Newer(found[i], found[j])
    BY <1>2, <1>3, NewestFirst
<1>5. PICK n : n = IF Len(found) > PageSize THEN PageSize ELSE Len(found)  OBVIOUS
<1>6. PICK items : items = SubSeq(found, 1, n)  OBVIOUS
<1>7. PageSize \in Nat \ {0} /\ Len(found) \in Nat /\ n \in 0..Len(found)
    BY <1>4, <1>5, TelemetryAssumption
<1>8. /\ items \in Seq(behind) /\ Len(items) = n /\ DOMAIN items = 1..n /\ DOMAIN found = 1..Len(found)
      /\ \A i \in 1..n : items[i] = found[i]
    BY <1>4, <1>6, <1>7
<1>9. items \in Seq(LoggedRow)
  <2>1. \A i \in 1..n : items[i] \in LoggedRow  BY <1>3, <1>8 DEF Numbered
  <2>2. items \in [1..n -> LoggedRow]  BY <1>7, <1>8, <2>1
  <2> QED BY <1>7, <2>2
<1>10. Descending(items)  BY <1>4, <1>7, <1>8 DEF Descending
<1>11. \A r \in Range(items) : r \in S /\ BehindCursor(r, cursor)
    BY <1>1, <1>8 DEF Range
<1>12. PICK sheet : sheet = Page(S, cursor)  OBVIOUS
<1>13. /\ sheet.items = items
       /\ sheet.next_cursor = IF Len(found) > PageSize THEN <<items[PageSize]>> ELSE <<>>
    BY <1>1, <1>2, <1>5, <1>6, <1>12 DEF Page
<1>14. CASE Len(found) > PageSize
  <2>1. n = PageSize /\ items # <<>> /\ sheet.next_cursor = <<items[Len(items)]>> /\ sheet.next_cursor # <<>>
    BY <1>5, <1>7, <1>8, <1>13, <1>14
  <2>2. ASSUME NEW r \in S, BehindCursor(r, cursor), r \notin Range(items) PROVE Newer(items[Len(items)], r)
    <3>1. PICK i \in 1..Len(found) : found[i] = r  BY <1>1, <1>4, <1>8, <2>2 DEF Range
    <3>2. ~(i <= n)  BY <1>7, <1>8, <2>2, <3>1 DEF Range
    <3>3. Newer(found[n], found[i]) /\ items[Len(items)] = found[n]
      BY <1>4, <1>7, <1>8, <2>1, <3>1, <3>2
    <3> QED BY <3>1, <3>3
  <2> QED BY <1>9, <1>10, <1>11, <1>12, <1>13, <2>1, <2>2
<1>15. CASE ~(Len(found) > PageSize)
  <2>1. n = Len(found) /\ sheet.next_cursor = <<>>  BY <1>5, <1>13, <1>15
  <2>2. ASSUME NEW r \in S, BehindCursor(r, cursor) PROVE r \in Range(items)
    <3>1. PICK i \in 1..Len(found) : found[i] = r  BY <1>1, <1>4, <1>8, <2>2 DEF Range
    <3> QED BY <1>8, <2>1, <3>1 DEF Range
  <2> QED BY <1>9, <1>10, <1>11, <1>12, <1>13, <2>1, <2>2
<1> QED BY <1>14, <1>15

(* What a listing still owes is behind its cursor.                         *)
Reading ==
    /\ reader.listed \in Seq(LoggedRow) /\ Descending(reader.listed) /\ reader.owed \subseteq LoggedRow
    /\ reader.pc = "paging" =>
          /\ reader.kind \in {"event", "invocation"}
        /\ reader.listed # <<>> /\ reader.cursor = <<reader.listed[Len(reader.listed)]>>
          /\ \A r \in reader.owed : r \in Range(reader.listed) \/ BehindCursor(r, reader.cursor)
    /\ reader.pc = "done" => reader.owed \subseteq Range(reader.listed)

LEMMA InRangeNumbered == ASSUME Ingesting, NEW kind, NEW window PROVE Numbered(InRange(kind, window))
    BY DEF Ingesting, Buffered, Numbered, InRange

LEMMA PageKeepsReading ==
    ASSUME Ingesting, NEW kind \in {"event", "invocation"}, NEW span, NEW cursor,
           NEW listed \in Seq(LoggedRow), Descending(listed),
           \/ listed = <<>> /\ cursor = <<>>
           \/ listed # <<>> /\ cursor = <<listed[Len(listed)]>>,
           NEW owed \in SUBSET LoggedRow, \A r \in owed : r \in Range(listed) \/ BehindCursor(r, cursor),
           ListPage(kind, span, cursor, listed, owed)
    PROVE  Reading'
<1>1. PICK logged : logged = InRange(kind, resolve_range(span))  OBVIOUS
<1>2. PICK sheet : sheet = Page(logged, cursor)  OBVIOUS
<1>3. PICK all : all = listed \o sheet.items  OBVIOUS
<1>4. PICK still : still = {r \in owed : r \in Range(all) \/ r \in logged}  OBVIOUS
<1>5. reader' = [pc |-> IF sheet.next_cursor = <<>> THEN "done" ELSE "paging",
                 kind |-> kind, range |-> span, cursor |-> sheet.next_cursor, listed |-> all, owed |-> still]
    BY <1>1, <1>2, <1>3, <1>4 DEF ListPage, list_events, list_invocations
<1>6. /\ sheet.items \in Seq(LoggedRow) /\ Descending(sheet.items)
      /\ \A r \in Range(sheet.items) : r \in logged /\ BehindCursor(r, cursor)
      /\ sheet.next_cursor = <<>> =>
            \A r \in logged : BehindCursor(r, cursor) => r \in Range(sheet.items)
      /\ sheet.next_cursor # <<>> =>
            /\ sheet.items # <<>> /\ sheet.next_cursor = <<sheet.items[Len(sheet.items)]>>
            /\ \A r \in logged : BehindCursor(r, cursor) =>
                  r \in Range(sheet.items) \/ Newer(sheet.items[Len(sheet.items)], r)
  <2>1. Numbered(logged)  BY <1>1, InRangeNumbered
  <2> QED BY <1>2, <2>1, PageReads
<1>7. PICK m : m = Len(listed)  OBVIOUS
<1>8. PICK items : items = sheet.items  OBVIOUS
<1>9. PICK n : n = Len(items)  OBVIOUS
<1>10. /\ m \in Nat /\ n \in Nat /\ all \in Seq(LoggedRow) /\ Len(all) = m + n
       /\ (\A i \in 1..m : all[i] = listed[i]) /\ (\A i \in 1..n : all[m + i] = items[i])
    BY <1>3, <1>6, <1>7, <1>8, <1>9
<1>11. Range(all) = Range(listed) \cup Range(items)
    BY <1>3, <1>6, <1>8, RangeConcatenation
<1>12. Descending(all)
  <2>0. Len(all) - 1 = m + n - 1  BY <1>10
  <2> SUFFICES ASSUME NEW i \in 1..(m + n - 1) PROVE Newer(all[i], all[i + 1])
    BY <2>0 DEF Descending
  <2>1. CASE i < m
    <3>1. all[i] = listed[i] /\ all[i + 1] = listed[i + 1] /\ i \in 1..(Len(listed) - 1)
      BY <1>7, <1>10, <2>1
    <3> QED BY <3>1 DEF Descending
  <2>2. CASE i = m
    <3>1. all[i] = listed[m] /\ all[i + 1] = items[1] /\ n >= 1  BY <1>10, <2>2
    <3>2. items[1] \in Range(items) /\ listed # <<>>
      BY <1>6, <1>7, <1>8, <1>9, <1>10, <2>2, <3>1 DEF Range
    <3>3. BehindCursor(items[1], cursor) /\ cursor = <<listed[m]>>
      BY <1>6, <1>7, <1>8, <3>2
    <3> QED BY <3>1, <3>3 DEF BehindCursor
  <2>3. CASE i > m
    <3>1. i - m \in 1..(n - 1) /\ (i - m) + 1 \in 1..n /\ i - m \in 1..n
          /\ m + (i - m) = i /\ m + ((i - m) + 1) = i + 1
      BY <1>10, <2>3
    <3>2. all[i] = items[i - m] /\ all[i + 1] = items[(i - m) + 1]  BY <1>10, <3>1
    <3> QED BY <1>6, <1>8, <1>9, <3>1, <3>2 DEF Descending
  <2> QED BY <1>10, <2>1, <2>2, <2>3
<1>13. CASE sheet.next_cursor = <<>>
  <2>1. reader'.pc = "done" /\ reader'.listed = all /\ reader'.owed = still
    BY <1>5, <1>13
  <2>2. still \subseteq Range(all)  BY <1>4, <1>6, <1>8, <1>11, <1>13
  <2> QED BY <1>4, <1>10, <1>12, <2>1, <2>2 DEF Reading
<1>14. CASE sheet.next_cursor # <<>>
  <2>1. reader'.pc = "paging" /\ reader'.kind = kind /\ reader'.listed = all /\ reader'.owed = still /\ reader'.cursor = sheet.next_cursor
    BY <1>5, <1>14
  <2>2. n >= 1 /\ sheet.next_cursor = <<items[n]>>  BY <1>6, <1>8, <1>9, <1>10, <1>14
  <2>3. all # <<>> /\ sheet.next_cursor = <<all[Len(all)]>>  BY <1>10, <2>2
  <2>4. \A r \in still : r \in Range(all) \/ BehindCursor(r, sheet.next_cursor)
    <3>1. ASSUME NEW r \in still, r \notin Range(all) PROVE Newer(items[n], r)
      BY <1>4, <1>6, <1>8, <1>9, <1>11, <1>14, <3>1
    <3> QED BY <2>2, <3>1 DEF BehindCursor
  <2> QED BY <1>4, <1>10, <1>12, <2>1, <2>3, <2>4 DEF Reading
<1> QED BY <1>13, <1>14

LEMMA ReadingInit == Init => Reading
<1> SUFFICES ASSUME Init PROVE Reading  OBVIOUS
<1>1. reader = NoReader  BY DEF Init, InitTelemetry
<1> QED BY <1>1 DEF NoReader, Reading, Descending

LEMMA ReadingStep == ASSUME Ingesting, Reading, [Next]_vars PROVE Reading'
<1>1. ASSUME reader' = reader PROVE Reading'  BY <1>1 DEF Reading
<1>2. ASSUME NEW kind \in {"event", "invocation"}, NEW span \in Ranges, OpenLog(kind, span) PROVE Reading'
  <2> DEFINE owed == InRange(kind, resolve_range(span))
  <2>1. <<>> \in Seq(LoggedRow) /\ Descending(<<>>)  BY DEF Descending
  <2>2. owed \in SUBSET LoggedRow  BY InRangeNumbered DEF Numbered
  <2>3. ListPage(kind, span, <<>>, <<>>, owed)  BY <1>2 DEF OpenLog
  <2>4. \A r \in owed : BehindCursor(r, <<>>)  BY DEF BehindCursor
  <2> HIDE DEF owed
  <2> QED BY <2>1, <2>2, <2>3, <2>4, PageKeepsReading
<1>3. ASSUME NextPage PROVE Reading'
  <2>1. reader.pc = "paging" /\ ListPage(reader.kind, reader.range, reader.cursor, reader.listed, reader.owed)
    BY <1>3 DEF NextPage
  <2>2. /\ reader.listed \in Seq(LoggedRow) /\ Descending(reader.listed) /\ reader.owed \in SUBSET LoggedRow
        /\ reader.kind \in {"event", "invocation"}
        /\ reader.listed # <<>> /\ reader.cursor = <<reader.listed[Len(reader.listed)]>>
        /\ \A r \in reader.owed : r \in Range(reader.listed) \/ BehindCursor(r, reader.cursor)
    BY <2>1 DEF Reading
  <2> QED BY <2>1, <2>2, PageKeepsReading
<1>4. CASE UNCHANGED vars  BY <1>1, <1>4 DEF vars, telemetryVars
<1> QED BY <1>1, <1>2, <1>3, <1>4, TelemetrySteps DEF Reads

(* Buckets of a size begin at its multiples.                               *)
LEMMA Divided ==
    ASSUME NEW t \in Int, NEW width \in Nat \ {0}
    PROVE  \E q \in Int : align_to_bucket(t, width) = width * q /\ width * q <= t /\ t <= width * q + width - 1
<1>1. t \div width \in Int /\ t % width \in 0..(width - 1) /\ t = width * (t \div width) + (t % width)
    OBVIOUS
<1> QED BY <1>1 DEF align_to_bucket

LEMMA Stepped ==
    ASSUME NEW width \in Nat \ {0}, NEW k \in Int, NEW l \in Int, k < l
    PROVE  width * k \in Int /\ width * l \in Int /\ width * k + width <= width * l
<1>1. PICK d \in Nat : l = k + 1 + d
  <2>1. l - k - 1 \in Nat /\ l = k + 1 + (l - k - 1)  OBVIOUS
  <2> QED BY <2>1
<1>2. width * l = width * k + width + width * d  BY <1>1
<1>3. width * d >= 0 /\ width * d \in Int /\ width * k \in Int  OBVIOUS
<1> QED BY <1>2, <1>3

LEMMA BucketSize == ASSUME NEW span \in Ranges PROVE bucket_seconds_for_span(span) \in Nat \ {0}
<1> DEFINE fine == {b \in BucketChoices : b * TargetBuckets >= span}
<1>1. BucketChoices \in SUBSET Nat /\ 0 \notin BucketChoices /\ BucketChoices # {} /\ IsFiniteSet(BucketChoices)
    BY TelemetryAssumption
<1>2. CASE fine # {}
  <2>1. fine \in SUBSET Nat /\ fine \subseteq BucketChoices  BY <1>1
  <2>2. bucket_seconds_for_span(span) = Min(fine)  BY <1>2 DEF bucket_seconds_for_span
  <2> HIDE DEF fine
  <2>3. Min(fine) \in fine  BY <1>2, <2>1, MinIsLeast
  <2> QED BY <1>1, <2>1, <2>2, <2>3
<1>3. CASE fine = {}
  <2>1. bucket_seconds_for_span(span) = Max(BucketChoices)
    BY <1>3 DEF bucket_seconds_for_span
  <2> HIDE DEF fine
  <2>2. \E b \in BucketChoices : \A c \in BucketChoices : b >= c
    <3> DEFINE R == {e \in BucketChoices \X BucketChoices : e[1] > e[2]}
    <3>1. \A x, y \in BucketChoices : <<x, y>> \in R <=> x > y  OBVIOUS
    <3> HIDE DEF R
    <3>2. Orders(R, BucketChoices)  BY <1>1, <3>1 DEF Orders
    <3>3. Ranked(R, BucketChoices)  BY <1>1, <3>2, EveryPlace
    <3>4. Cardinality(BucketChoices) \in Nat \ {0}
      BY <1>1, FS_EmptySet, FS_CardinalityType
    <3>5. PICK b \in BucketChoices : Cardinality(Ahead(R, BucketChoices, b)) = 0
      <4>1. 1 \in 1..Cardinality(BucketChoices)  BY <3>4
      <4>2. \E b \in BucketChoices : Cardinality(Ahead(R, BucketChoices, b)) = 1 - 1
        BY <3>3, <4>1 DEF Ranked
      <4> QED BY <4>2
    <3>6. Ahead(R, BucketChoices, b) \subseteq BucketChoices  BY DEF Ahead
    <3>7. Ahead(R, BucketChoices, b) = {}  BY <1>1, <3>5, <3>6, FS_Subset, FS_EmptySet
    <3>8. ASSUME NEW c \in BucketChoices PROVE b >= c
      <4>1. <<c, b>> \notin R  BY <3>7 DEF Ahead
      <4>2. ~(c > b) /\ c \in Nat /\ b \in Nat  BY <1>1, <3>1, <4>1
      <4> QED BY <4>2
    <3> QED BY <3>8
  <2>3. Max(BucketChoices) \in BucketChoices  BY <2>2 DEF Max
  <2> QED BY <1>1, <2>1, <2>3
<1> QED BY <1>2, <1>3

LEMMA ChartDrawn == ASSUME Ingesting PROVE ChartComplete
<1> SUFFICES ASSUME NEW span \in Ranges
             PROVE  LET window == resolve_range(span)
                        width == bucket_seconds_for_span(span)
                        logged == InRange("event", window)
                        chart == metrics(span)
                        Past(r) == r.at >= align_to_bucket(window.start, width) + MaxBuckets * width
                    IN /\ \A r \in logged : Past(r) \/ \E b \in DOMAIN chart : r.at \in b..(b + width - 1)
                       /\ \A b \in DOMAIN chart :
                             chart[b] = Cardinality({r \in logged : r.at \in b..(b + width - 1)})
    BY DEF ChartComplete
<1>1. PICK width : width = bucket_seconds_for_span(span)  OBVIOUS
<1>2. PICK window : window = resolve_range(span)  OBVIOUS
<1>3. PICK logged : logged = InRange("event", window)  OBVIOUS
<1>4. width \in Nat \ {0} /\ MaxBuckets \in Nat \ {0}
    BY <1>1, BucketSize, TelemetryAssumption
<1>5. window.start \in Int /\ window.end \in Int /\ window.start <= window.end
  <2>1. now \in Nat /\ span \in Nat  BY TelemetryAssumption DEF Ingesting, Buffered
  <2> QED BY <1>2, <2>1 DEF resolve_range
<1>6. PICK p \in Int : align_to_bucket(window.start, width) = width * p /\ width * p <= window.start
                       /\ window.start <= width * p + width - 1
    BY <1>4, <1>5, Divided
<1>7. \A r \in logged : r.at \in Nat /\ window.start <= r.at /\ r.at < window.end
    BY <1>3, InRangeNumbered DEF InRange, Numbered, LoggedRow
<1>8. PICK starts : starts = {b \in {width * p + i * width : i \in 0..(MaxBuckets - 1)} : b < window.end}
    OBVIOUS
<1>9. PICK measured : measured = [b \in {align_to_bucket(r.at, width) : r \in logged} |->
                                     Cardinality({r \in logged : align_to_bucket(r.at, width) = b})]
    OBVIOUS
<1>10. metrics(span) = [b \in starts |-> IF b \in DOMAIN measured THEN measured[b] ELSE 0]
    BY <1>1, <1>2, <1>3, <1>6, <1>8, <1>9 DEF metrics, fill_buckets, bucket_starts, aggregate
<1>11. ASSUME NEW r \in logged, r.at < width * p + MaxBuckets * width
       PROVE  \E b \in starts : r.at \in b..(b + width - 1)
  <2>1. PICK q \in Int : width * q <= r.at /\ r.at <= width * q + width - 1
    <3>1. r.at \in Int  BY <1>7
    <3> QED BY <1>4, <3>1, Divided
  <2>2. width * q \in Int /\ width * p \in Int  BY <1>4
  <2>3. p <= q
    <3>1. CASE q < p
      <4>1. width * q + width <= width * p  BY <1>4, <3>1, Stepped
      <4> QED BY <1>4, <1>5, <1>6, <1>7, <2>1, <2>2, <4>1
    <3> QED BY <3>1
  <2>4. q < p + MaxBuckets
    <3>1. CASE p + MaxBuckets <= q
      <4>1. width * (p + MaxBuckets) <= width * q
        <5>1. CASE p + MaxBuckets = q  BY <2>2, <5>1
        <5>2. CASE p + MaxBuckets < q
          <6>1. p + MaxBuckets \in Int  BY <1>4
          <6>2. width * (p + MaxBuckets) \in Int /\ width * (p + MaxBuckets) + width <= width * q
            BY <1>4, <5>2, <6>1, Stepped
          <6> QED BY <1>4, <2>2, <6>2
        <5> QED BY <1>4, <3>1, <5>1, <5>2
      <4>2. width * (p + MaxBuckets) = width * p + MaxBuckets * width  BY <1>4
      <4> QED BY <1>4, <1>7, <1>11, <2>1, <2>2, <4>1, <4>2
    <3> QED BY <1>4, <3>1
  <2>5. q - p \in 0..(MaxBuckets - 1)  BY <1>4, <2>3, <2>4
  <2>6. width * q = width * p + (q - p) * width  BY <1>4
  <2>7. width * q \in starts  BY <1>5, <1>7, <1>8, <2>1, <2>2, <2>5, <2>6
  <2> QED BY <1>4, <1>7, <2>1, <2>2, <2>7
<1>12. ASSUME NEW b \in starts, NEW r \in logged
       PROVE  align_to_bucket(r.at, width) = b <=> r.at \in b..(b + width - 1)
  <2>1. PICK i \in 0..(MaxBuckets - 1) : b = width * p + i * width  BY <1>8
  <2>2. PICK q \in Int : /\ align_to_bucket(r.at, width) = width * q
                          /\ width * q <= r.at /\ r.at <= width * q + width - 1
    <3>1. r.at \in Int  BY <1>7
    <3> QED BY <1>4, <3>1, Divided
  <2>3. i \in Int /\ p + i \in Int /\ width * (p + i) \in Int /\ width * q \in Int
    BY <1>4, <2>1
  <2>4. b = width * (p + i)  BY <1>4, <2>1, <2>3
  <2>5. CASE q = p + i  BY <1>4, <1>7, <2>2, <2>3, <2>4, <2>5
  <2>6. CASE q < p + i
    <3>1. width * q + width <= width * (p + i)  BY <1>4, <2>3, <2>6, Stepped
    <3> QED BY <1>4, <1>7, <2>2, <2>3, <2>4, <3>1
  <2>7. CASE p + i < q
    <3>1. width * (p + i) + width <= width * q  BY <1>4, <2>3, <2>7, Stepped
    <3> QED BY <1>4, <1>7, <2>2, <2>3, <2>4, <3>1
  <2> QED BY <2>3, <2>5, <2>6, <2>7
<1>13. ASSUME NEW b \in starts
       PROVE  metrics(span)[b] = Cardinality({r \in logged : r.at \in b..(b + width - 1)})
  <2> DEFINE within == {r \in logged : r.at \in b..(b + width - 1)}
             grouped == {r \in logged : align_to_bucket(r.at, width) = b}
  <2>1. within = grouped  BY <1>12
  <2>2. CASE b \in DOMAIN measured
    <3>1. metrics(span)[b] = measured[b] /\ measured[b] = Cardinality(grouped)
      BY <1>9, <1>10, <2>2
    <3> QED BY <2>1, <3>1
  <2>3. CASE b \notin DOMAIN measured
    <3>1. metrics(span)[b] = 0  BY <1>10, <2>3
    <3>2. grouped = {}  BY <1>9, <2>3
    <3> QED BY <2>1, <3>1, <3>2, FS_EmptySet
  <2> QED BY <2>2, <2>3
<1>14. DOMAIN metrics(span) = starts  BY <1>10
<1>15. \A r \in logged : \/ r.at >= align_to_bucket(window.start, width) + MaxBuckets * width
                         \/ \E b \in DOMAIN metrics(span) : r.at \in b..(b + width - 1)
  <2>1. width * p \in Int /\ MaxBuckets * width \in Int  BY <1>4
  <2> QED BY <1>6, <1>7, <1>11, <1>14, <2>1
<1> QED BY <1>1, <1>2, <1>3, <1>13, <1>14, <1>15

(* However often writes fail and whenever the task is stopped or           *)
(* cancelled, the rows that were taken in and are gone fill no more than a *)
(* batch for each failed write and what the stop interrupted; nothing      *)
(* stored is queued, no row is written twice but after a failed write, and *)
(* the buffers are bounded; a listing shows each of its rows once, and the *)
(* chart has each request in its place (TelemetryIngestion, list_events,   *)
(* bucket_starts).                                                         *)
THEOREM TelemetrySoundTheorem == Spec => []TelemetrySound
<1>1. Ingesting /\ Reading => TelemetrySound
  <2>1. Reading => PagedOnce  BY DEF Reading, PagedOnce, Descending
  <2> QED BY <2>1, IngestingAccounts, ChartDrawn DEF TelemetrySound
<1>2. Init => Ingesting /\ Reading  BY IngestingInit, ReadingInit
<1>3. Ingesting /\ Reading /\ [Next]_vars => (Ingesting /\ Reading)'
    BY IngestingStep, ReadingStep
<1> QED BY <1>1, <1>2, <1>3, PTL DEF Spec

----------------------------------------------------------------------------
(* Files sealed in chunks                                                  *)

LEMMA Products ==
    ASSUME NEW w \in Nat \ {0}, NEW i \in Int, NEW k \in Int
    PROVE  /\ i * w \in Int /\ (i - 1) * w = i * w - w /\ (0 <= i => 0 <= i * w)
           /\ i <= k => i * w <= k * w
           /\ i < k => i * w + w <= k * w
<1>1. i * w \in Int /\ (i - 1) * w = i * w - w  OBVIOUS
<1>2. ASSUME NEW d \in Nat PROVE d * w \in Nat  OBVIOUS
<1>3. ASSUME NEW a \in Int, NEW b \in Int, a <= b PROVE a * w <= b * w
  <2>1. b - a \in Nat /\ (b - a) * w = b * w - a * w /\ (b - a) * w \in Nat
    BY <1>2, <1>3
  <2> QED BY <2>1
<1>4. i < k => i * w + w <= k * w
  <2> HAVE i < k
  <2>1. i + 1 <= k /\ (i + 1) * w = i * w + w  BY <1>1
  <2> QED BY <1>3, <2>1
<1>5. i >= 0 => 0 <= i * w
  <2> HAVE i >= 0
  <2> QED BY <1>2
<1> QED BY <1>1, <1>3, <1>4, <1>5

LEMMA CeilingIs ==
    ASSUME NEW n \in Nat, NEW w \in Nat \ {0}
    PROVE  /\ Ceiling(n, w) \in Nat /\ n <= Ceiling(n, w) * w /\ Ceiling(n, w) * w < n + w
           /\ Ceiling(n, w) * w \in Nat
<1>1. PICK m : m = n + w - 1  OBVIOUS
<1>2. m \in Nat  BY <1>1
<1>3. m \div w \in Nat /\ m % w \in 0..(w - 1) /\ m = w * (m \div w) + (m % w)  BY <1>2
<1>4. PICK c : c = m \div w  OBVIOUS
<1>5. c \in Nat /\ Ceiling(n, w) = c  BY <1>1, <1>3, <1>4 DEF Ceiling
<1>6. c * w = m - (m % w) /\ c * w \in Nat
  <2>1. PICK r : r = m % w  OBVIOUS
  <2>2. m = w * c + r /\ r \in Int  BY <1>3, <1>4, <2>1
  <2>3. w * c = c * w /\ c * w \in Nat  BY <1>5
  <2> QED BY <1>2, <2>1, <2>2, <2>3
<1>7. m % w >= 0 /\ m % w <= w - 1 /\ m % w \in Int  BY <1>3
<1> QED BY <1>1, <1>5, <1>6, <1>7

(* Where the i-th of several pieces of one length begins.                  *)
Begin(i, w) == (i - 1) * w

LEMMA Begins ==
    ASSUME NEW w \in Nat \ {0}, NEW i \in Nat \ {0}
    PROVE  /\ Begin(i, w) \in Nat /\ Begin(1, w) = 0 /\ Begin(i + 1, w) = Begin(i, w) + w
           /\ \A k \in Nat : i < k => Begin(i, w) + w <= Begin(k, w)
<1>1. /\ i - 1 \in Int /\ 0 <= i - 1 /\ (i - 1) * w \in Int /\ 0 <= (i - 1) * w
      /\ ((i + 1) - 1) * w = (i - 1) * w + w /\ (1 - 1) * w = 0
  <2>1. i - 1 \in Int /\ 0 <= i - 1 /\ (1 - 1) * w = 0 /\ (i + 1) - 1 = i  OBVIOUS
  <2>2. (i - 1) * w \in Int /\ 0 <= (i - 1) * w  BY <2>1, Products
  <2>3. (i - 1) * w = i * w - w /\ i * w \in Int  BY Products
  <2> QED BY <2>1, <2>2, <2>3
<1>2. ASSUME NEW k \in Nat, i < k PROVE (i - 1) * w + w <= (k - 1) * w
  <2>1. i - 1 \in Int /\ k - 1 \in Int /\ i - 1 < k - 1  BY <1>2
  <2> QED BY <2>1, Products
<1> QED BY <1>1, <1>2 DEF Begin

LEMMA BeginsApart ==
    ASSUME NEW w \in Nat \ {0}, NEW i \in Nat \ {0}, NEW k \in Nat \ {0}, Begin(k, w) < Begin(i, w) + w
    PROVE  k <= i
<1>1. ASSUME i < k PROVE FALSE
  <2>1. Begin(i, w) + w <= Begin(k, w) /\ Begin(i, w) \in Nat /\ Begin(k, w) \in Nat
    BY <1>1, Begins
  <2> QED BY <2>1
<1> QED BY <1>1

LEMMA CeilingAt ==
    ASSUME NEW n \in Nat \ {0}, NEW w \in Nat \ {0}
    PROVE  /\ Ceiling(n, w) \in Nat \ {0}
           /\ Begin(Ceiling(n, w), w) < n /\ n <= Begin(Ceiling(n, w), w) + w
<1>1. PICK c : c = Ceiling(n, w)  OBVIOUS
<1>2. c \in Nat /\ n <= c * w /\ c * w < n + w /\ c * w \in Nat  BY <1>1, CeilingIs
<1>3. c # 0  BY <1>2
<1>4. (c - 1) * w = c * w - w  BY <1>2, Products
<1>5. Begin(c, w) < n /\ n <= Begin(c, w) + w
  <2>1. PICK m : m = c * w  OBVIOUS
  <2>2. Begin(c, w) = m - w  BY <1>4, <2>1 DEF Begin
  <2> QED BY <1>2, <2>1, <2>2
<1> QED BY <1>1, <1>2, <1>3, <1>5

LEMMA CeilingOnly ==
    ASSUME NEW n \in Nat \ {0}, NEW w \in Nat \ {0}, NEW c \in Nat \ {0},
           Begin(c, w) < n, n <= Begin(c, w) + w
    PROVE  Ceiling(n, w) = c
<1>1. PICK k : k = Ceiling(n, w)  OBVIOUS
<1>2. k \in Nat \ {0} /\ Begin(k, w) < n /\ n <= Begin(k, w) + w  BY <1>1, CeilingAt
<1>3. Begin(k, w) \in Nat /\ Begin(c, w) \in Nat  BY <1>2, Begins
<1>4. k <= c
  <2>1. Begin(k, w) < Begin(c, w) + w  BY <1>2, <1>3
  <2> QED BY <1>2, <2>1, BeginsApart
<1>5. c <= k
  <2>1. Begin(c, w) < Begin(k, w) + w  BY <1>2, <1>3
  <2> QED BY <1>2, <2>1, BeginsApart
<1> QED BY <1>1, <1>2, <1>4, <1>5

(* A sequence of pieces of one length, but for the last, which has what is *)
(* left.                                                                   *)
Uniform(q, w, B) ==
    /\ q \in Seq(Seq(B))
    /\ \A i \in 1..Len(q) : Len(q[i]) \in 1..w /\ (i < Len(q) => Len(q[i]) = w)

(* How long the first i pieces are together.                               *)
Upto(q, w, i) == Begin(i, w) + Len(q[i])

LEMMA UniformPiece ==
    ASSUME NEW B, NEW w \in Nat \ {0}, NEW q, Uniform(q, w, B), NEW i \in 1..Len(q)
    PROVE  /\ i \in Nat \ {0} /\ i <= Len(q) /\ Len(q) \in Nat
           /\ q[i] \in Seq(B) /\ Len(q[i]) \in Nat /\ 1 <= Len(q[i]) /\ Len(q[i]) <= w
           /\ i < Len(q) => Len(q[i]) = w
BY DEF Uniform

LEMMA UptoIs ==
    ASSUME NEW B, NEW w \in Nat \ {0}, NEW q, Uniform(q, w, B), NEW i \in 1..Len(q)
    PROVE  /\ Begin(i, w) \in Nat /\ Upto(q, w, i) \in Nat
           /\ Upto(q, w, i) = Begin(i, w) + Len(q[i])
           /\ Begin(i, w) < Upto(q, w, i) /\ Upto(q, w, i) <= Begin(i, w) + w
<1>1. i \in Nat \ {0} /\ Len(q[i]) \in Nat /\ 1 <= Len(q[i]) /\ Len(q[i]) <= w
  BY UniformPiece
<1>2. Begin(i, w) \in Nat  BY <1>1, Begins
<1> QED BY <1>1, <1>2 DEF Upto

(* The pieces put together, up to each of them.                            *)
Joined(q, w) ==
    [i \in 1..Len(q) |-> [p \in 1..Upto(q, w, i) |-> q[Ceiling(p, w)][p - Begin(Ceiling(p, w), w)]]]

LEMMA JoinedAt ==
    ASSUME NEW B, NEW w \in Nat \ {0}, NEW q, Uniform(q, w, B), NEW i \in 1..Len(q)
    PROVE  \A k \in 1..i : \A j \in 1..Len(q[k]) :
              /\ Begin(k, w) + j \in 1..Upto(q, w, i)
              /\ Joined(q, w)[i][Begin(k, w) + j] = q[k][j]
              /\ q[k][j] \in B
<1> SUFFICES ASSUME NEW k \in 1..i, NEW j \in 1..Len(q[k])
             PROVE  /\ Begin(k, w) + j \in 1..Upto(q, w, i)
                    /\ Joined(q, w)[i][Begin(k, w) + j] = q[k][j]
                    /\ q[k][j] \in B
  OBVIOUS
<1>0. /\ i \in Nat \ {0} /\ k \in Nat \ {0} /\ k <= i /\ k \in 1..Len(q)
  <2>1. Len(q) \in Nat  BY UniformPiece
  <2> QED BY <2>1
<1>1. q[k] \in Seq(B) /\ Len(q[k]) \in Nat /\ Len(q[k]) <= w  BY <1>0, UniformPiece
<1>2. /\ Begin(k, w) \in Nat /\ Upto(q, w, k) = Begin(k, w) + Len(q[k]) /\ Upto(q, w, k) <= Begin(k, w) + w
      /\ Begin(i, w) \in Nat /\ Upto(q, w, i) \in Nat /\ Begin(i, w) < Upto(q, w, i)
  BY <1>0, UptoIs
<1>3. PICK p : p = Begin(k, w) + j  OBVIOUS
<1>4. /\ p \in Nat \ {0} /\ Begin(k, w) < p /\ p <= Begin(k, w) + w /\ p <= Upto(q, w, k)
      /\ j = p - Begin(k, w)
  BY <1>1, <1>2, <1>3
<1>5. Upto(q, w, k) <= Upto(q, w, i)
  <2>1. CASE k = i  BY <1>2, <2>1
  <2>2. CASE k < i
    <3>1. Begin(k, w) + w <= Begin(i, w)  BY <1>0, <2>2, Begins
    <3> QED BY <1>1, <1>2, <3>1
  <2> QED BY <1>0, <2>1, <2>2
<1>6. Ceiling(p, w) = k  BY <1>0, <1>4, CeilingOnly
<1>7. p \in 1..Upto(q, w, i)
  <2>1. p <= Upto(q, w, i)  BY <1>1, <1>2, <1>4, <1>5
  <2> QED BY <1>2, <1>4, <2>1
<1>8. Joined(q, w)[i][p] = q[Ceiling(p, w)][p - Begin(Ceiling(p, w), w)]
  BY <1>7 DEF Joined
<1>9. Joined(q, w)[i][p] = q[k][j]  BY <1>4, <1>6, <1>8
<1>10. q[k][j] \in B  BY <1>1, ElementOfSeq
<1> QED BY <1>3, <1>7, <1>9, <1>10

LEMMA JoinedFrom ==
    ASSUME NEW B, NEW w \in Nat \ {0}, NEW q, Uniform(q, w, B), NEW i \in 1..Len(q), NEW p \in 1..Upto(q, w, i)
    PROVE  \E k \in 1..i : \E j \in 1..Len(q[k]) : p = Begin(k, w) + j
<1>0. /\ i \in Nat \ {0} /\ i <= Len(q) /\ Len(q) \in Nat
      /\ Begin(i, w) \in Nat /\ Upto(q, w, i) \in Nat /\ Upto(q, w, i) <= Begin(i, w) + w
      /\ Upto(q, w, i) = Begin(i, w) + Len(q[i])
  BY UptoIs, UniformPiece
<1>1. p \in Nat \ {0}  BY <1>0
<1>2. PICK k : k = Ceiling(p, w)  OBVIOUS
<1>3. k \in Nat \ {0} /\ Begin(k, w) < p /\ p <= Begin(k, w) + w
  BY <1>1, <1>2, CeilingAt
<1>4. Begin(k, w) \in Nat  BY <1>3, Begins
<1>5. k <= i
  <2>1. Begin(k, w) < Begin(i, w) + w  BY <1>0, <1>1, <1>3, <1>4
  <2> QED BY <1>0, <1>3, <2>1, BeginsApart
<1>6. k \in 1..i /\ k \in 1..Len(q)  BY <1>0, <1>3, <1>5
<1>7. PICK j : j = p - Begin(k, w)  OBVIOUS
<1>8. Len(q[k]) \in Nat /\ (k < Len(q) => Len(q[k]) = w)  BY <1>6, UniformPiece
<1>9. j <= Len(q[k]) /\ j \in Nat \ {0}
  <2>1. j \in Nat \ {0} /\ j <= w  BY <1>1, <1>3, <1>4, <1>7
  <2>2. CASE k < i
    <3>1. k < Len(q)  BY <1>0, <1>3, <2>2
    <3> QED BY <1>8, <2>1, <3>1
  <2>3. CASE k = i
    <3>1. p <= Begin(k, w) + Len(q[k])  BY <1>0, <2>3
    <3> QED BY <1>1, <1>4, <1>7, <1>8, <2>1, <3>1
  <2> QED BY <1>0, <1>3, <1>5, <2>2, <2>3
<1>10. j \in 1..Len(q[k]) /\ p = Begin(k, w) + j  BY <1>1, <1>4, <1>7, <1>8, <1>9
<1> QED BY <1>6, <1>10

(* The first i pieces are one after the other in s.                        *)
Laid(q, w, s, i) ==
    /\ Len(s) = Upto(q, w, i)
    /\ \A k \in 1..i : \A j \in 1..Len(q[k]) :
          Begin(k, w) + j \in 1..Upto(q, w, i) /\ s[Begin(k, w) + j] = q[k][j]
    /\ \A p \in 1..Upto(q, w, i) : \E k \in 1..i : \E j \in 1..Len(q[k]) : p = Begin(k, w) + j

LEMMA JoinedIs ==
    ASSUME NEW B, NEW w \in Nat \ {0}, NEW q, Uniform(q, w, B), NEW i \in 1..Len(q)
    PROVE  Joined(q, w)[i] \in Seq(B) /\ Laid(q, w, Joined(q, w)[i], i)
<1>0. Upto(q, w, i) \in Nat  BY UptoIs
<1>1. PICK s : s = Joined(q, w)[i]  OBVIOUS
<1>2. s = [p \in 1..Upto(q, w, i) |-> s[p]]  BY <1>1 DEF Joined
<1>3. \A k \in 1..i : \A j \in 1..Len(q[k]) :
         Begin(k, w) + j \in 1..Upto(q, w, i) /\ s[Begin(k, w) + j] = q[k][j] /\ q[k][j] \in B
  <2>1. \A k \in 1..i : \A j \in 1..Len(q[k]) :
           /\ Begin(k, w) + j \in 1..Upto(q, w, i)
           /\ Joined(q, w)[i][Begin(k, w) + j] = q[k][j]
           /\ q[k][j] \in B
    BY JoinedAt, Zenon
  <2> QED BY <1>1, <2>1
<1>4. \A p \in 1..Upto(q, w, i) : \E k \in 1..i : \E j \in 1..Len(q[k]) : p = Begin(k, w) + j
  BY JoinedFrom
<1>5. ASSUME NEW p \in 1..Upto(q, w, i) PROVE s[p] \in B  BY <1>3, <1>4
<1>6. s \in Seq(B) /\ Len(s) = Upto(q, w, i)
  <2>1. PICK m \in Nat : m = Upto(q, w, i)  BY <1>0
  <2>2. s \in [1..m -> B]  BY <1>2, <1>5, <2>1
  <2>3. s \in Seq(B) /\ Len(s) = m  BY <2>2
  <2> QED BY <2>1, <2>3
<1> QED BY <1>1, <1>3, <1>4, <1>6 DEF Laid

LEMMA LaidOnly ==
    ASSUME NEW B, NEW q, NEW w, NEW i, NEW s \in Seq(B), NEW t \in Seq(B), Laid(q, w, s, i), Laid(q, w, t, i)
    PROVE  s = t
<1>1. Len(s) = Upto(q, w, i) /\ Len(t) = Upto(q, w, i)  BY DEF Laid
<1>2. ASSUME NEW p \in 1..Upto(q, w, i) PROVE s[p] = t[p]
  <2>1. PICK k \in 1..i : \E j \in 1..Len(q[k]) : p = Begin(k, w) + j  BY DEF Laid
  <2>2. PICK j \in 1..Len(q[k]) : p = Begin(k, w) + j  BY <2>1
  <2>3. s[Begin(k, w) + j] = q[k][j] /\ t[Begin(k, w) + j] = q[k][j]  BY DEF Laid
  <2> QED BY <2>2, <2>3
<1>3. Len(s) = Len(t) /\ \A p \in 1..Len(s) : s[p] = t[p]  BY <1>1, <1>2
<1> QED BY <1>3, SeqEqual

(* One more piece.                                                         *)
LEMMA LaidNext ==
    ASSUME NEW B, NEW w \in Nat \ {0}, NEW q, Uniform(q, w, B), NEW i \in Nat \ {0}, i + 1 <= Len(q),
           NEW s \in Seq(B), Laid(q, w, s, i)
    PROVE  s \o q[i + 1] \in Seq(B) /\ Laid(q, w, s \o q[i + 1], i + 1)
<1>1. PICK n : n = i + 1  OBVIOUS
<1>2. n \in 1..Len(q) /\ i \in 1..Len(q) /\ n \in Nat \ {0} /\ i < Len(q) /\ Len(q) \in Nat
  <2>1. Len(q) \in Nat  BY DEF Uniform
  <2> QED BY <1>1, <2>1
<1>3. /\ q[n] \in Seq(B) /\ Len(q[n]) \in Nat /\ Len(q[i]) = w
      /\ Begin(n, w) \in Nat /\ Begin(i, w) \in Nat /\ Begin(n, w) = Begin(i, w) + w
      /\ Upto(q, w, n) = Begin(n, w) + Len(q[n]) /\ Upto(q, w, i) = Begin(n, w)
  <2>1. q[n] \in Seq(B) /\ Len(q[n]) \in Nat  BY <1>2, UniformPiece
  <2>2. Len(q[i]) = w  BY <1>2, UniformPiece
  <2>3. Begin(i + 1, w) = Begin(i, w) + w /\ Begin(i, w) \in Nat  BY Begins
  <2>4. Begin(n, w) = Begin(i, w) + w  BY <1>1, <2>3
  <2> QED BY <2>1, <2>2, <2>3, <2>4 DEF Upto
<1>4. /\ Len(s) = Begin(n, w)
      /\ \A k \in 1..i : \A j \in 1..Len(q[k]) :
            Begin(k, w) + j \in 1..Begin(n, w) /\ s[Begin(k, w) + j] = q[k][j]
      /\ \A p \in 1..Begin(n, w) : \E k \in 1..i : \E j \in 1..Len(q[k]) : p = Begin(k, w) + j
  BY <1>3 DEF Laid
<1>5. PICK t : t = s \o q[n]  OBVIOUS
<1>6. /\ t \in Seq(B) /\ Len(t) = Begin(n, w) + Len(q[n])
      /\ \A p \in 1..(Begin(n, w) + Len(q[n])) :
            t[p] = IF p <= Begin(n, w) THEN s[p] ELSE q[n][p - Begin(n, w)]
  <2>1. /\ t \in Seq(B) /\ Len(t) = Len(s) + Len(q[n])
        /\ \A p \in 1..(Len(s) + Len(q[n])) :
              t[p] = IF p <= Len(s) THEN s[p] ELSE q[n][p - Len(s)]
    BY <1>3, <1>5, ConcatProperties
  <2> QED BY <1>4, <2>1
<1>7. ASSUME NEW k \in 1..n, NEW j \in 1..Len(q[k])
      PROVE  Begin(k, w) + j \in 1..Upto(q, w, n) /\ t[Begin(k, w) + j] = q[k][j]
  <2>1. CASE k = n
    <3>1. PICK p : p = Begin(n, w) + j  OBVIOUS
    <3>4. j \in 1..Len(q[n]) /\ Len(q[n]) \in Nat /\ Begin(n, w) \in Nat  BY <1>3, <2>1
    <3>2. p \in 1..(Begin(n, w) + Len(q[n])) /\ ~(p <= Begin(n, w)) /\ p - Begin(n, w) = j
      BY <3>1, <3>4
    <3>3. t[p] = q[n][j]  BY <1>6, <3>2
    <3> QED BY <1>3, <2>1, <3>1, <3>2, <3>3
  <2>2. CASE k # n
    <3>1. k \in 1..i  BY <1>1, <2>2
    <3>2. PICK p : p = Begin(k, w) + j  OBVIOUS
    <3>3. p \in 1..Begin(n, w) /\ s[p] = q[k][j]  BY <1>4, <3>1, <3>2
    <3>4. p \in 1..(Begin(n, w) + Len(q[n])) /\ p <= Begin(n, w)  BY <1>3, <3>3
    <3>5. t[p] = s[p]  BY <1>6, <3>4
    <3> QED BY <1>3, <3>2, <3>3, <3>4, <3>5
  <2> QED BY <2>1, <2>2
<1>8. ASSUME NEW p \in 1..Upto(q, w, n) PROVE \E k \in 1..n : \E j \in 1..Len(q[k]) : p = Begin(k, w) + j
  <2>1. CASE p <= Begin(n, w)
    <3>1. p \in 1..Begin(n, w)  BY <1>3, <2>1
    <3>2. PICK k \in 1..i : \E j \in 1..Len(q[k]) : p = Begin(k, w) + j  BY <1>4, <3>1
    <3>3. k \in 1..n  BY <1>1
    <3> QED BY <3>2, <3>3
  <2>2. CASE ~(p <= Begin(n, w))
    <3>1. PICK j : j = p - Begin(n, w)  OBVIOUS
    <3>3. Len(q[n]) \in Nat /\ Begin(n, w) \in Nat /\ p \in 1..(Begin(n, w) + Len(q[n])) /\ n \in 1..n
      BY <1>2, <1>3
    <3>2. j \in 1..Len(q[n]) /\ p = Begin(n, w) + j /\ n \in 1..n  BY <2>2, <3>1, <3>3
    <3> QED BY <3>2
  <2> QED BY <2>1, <2>2
<1>9. Laid(q, w, t, n)
  <2>1. Len(t) = Upto(q, w, n)  BY <1>3, <1>6
  <2> QED BY <1>7, <1>8, <2>1 DEF Laid
<1> QED BY <1>1, <1>5, <1>6, <1>9

LEMMA LaidFirst ==
    ASSUME NEW B, NEW w \in Nat \ {0}, NEW q, Uniform(q, w, B), Len(q) # 0
    PROVE  q[1] \in Seq(B) /\ Laid(q, w, q[1], 1)
<1>1. PICK a : a = 1  OBVIOUS
<1>2. a \in 1..Len(q) /\ a \in Nat \ {0}  BY <1>1 DEF Uniform
<1>3. q[a] \in Seq(B) /\ Len(q[a]) \in Nat  BY <1>2, UniformPiece
<1>4. Begin(1, w) = 0  BY Begins
<1>5. Begin(a, w) = 0 /\ Upto(q, w, a) = Len(q[a])  BY <1>1, <1>3, <1>4 DEF Upto
<1>6. ASSUME NEW k \in 1..a, NEW j \in 1..Len(q[k])
      PROVE  Begin(k, w) + j \in 1..Upto(q, w, a) /\ q[a][Begin(k, w) + j] = q[k][j]
  <2>1. k = a  BY <1>1
  <2>2. Begin(k, w) + j = j /\ j \in 1..Len(q[a])  BY <1>3, <1>5, <2>1
  <2> QED BY <1>5, <2>1, <2>2
<1>7. ASSUME NEW p \in 1..Upto(q, w, a) PROVE \E k \in 1..a : \E j \in 1..Len(q[k]) : p = Begin(k, w) + j
  <2>1. a \in 1..a /\ p \in 1..Len(q[a]) /\ p = Begin(a, w) + p  BY <1>1, <1>3, <1>5
  <2> QED BY <2>1
<1>8. Laid(q, w, q[a], a)  BY <1>5, <1>6, <1>7 DEF Laid
<1> QED BY <1>1, <1>3, <1>8

(* Pieces of one length put together by FlattenSeq.                        *)
LEMMA Flattened ==
    ASSUME NEW B, NEW w \in Nat \ {0}, NEW q, Uniform(q, w, B), Len(q) # 0
    PROVE  FlattenSeq(q) \in Seq(B) /\ Laid(q, w, FlattenSeq(q), Len(q))
<1> DEFINE Flat(g) == g = [i \in 1..Len(q) |-> IF i = 1 THEN q[i] ELSE g[i - 1] \o q[i]]
<1>0. Len(q) \in Nat /\ 1 \in 1..Len(q) /\ Len(q) \in 1..Len(q)  BY DEF Uniform
<1>1. FlattenSeq(q) = (CHOOSE g : Flat(g))[Len(q)]  BY DEF FlattenSeq
<1>2. PICK h : h = Joined(q, w)  OBVIOUS
<1>3. \A i \in 1..Len(q) : h[i] \in Seq(B) /\ Laid(q, w, h[i], i)  BY <1>2, JoinedIs
<1>4. h = [i \in 1..Len(q) |-> h[i]]  BY <1>2 DEF Joined
<1>5. h[1] = q[1]
  <2>1. h[1] \in Seq(B) /\ Laid(q, w, h[1], 1)  BY <1>0, <1>3
  <2>2. q[1] \in Seq(B) /\ Laid(q, w, q[1], 1)  BY LaidFirst
  <2> QED BY <2>1, <2>2, LaidOnly
<1>6. ASSUME NEW i \in 1..Len(q), i # 1 PROVE h[i] = h[i - 1] \o q[i]
  <2>1. PICK l : l = i - 1  OBVIOUS
  <2>2. l \in 1..Len(q) /\ l \in Nat \ {0} /\ l + 1 <= Len(q) /\ l + 1 = i
    BY <1>0, <1>6, <2>1
  <2>3. h[l] \in Seq(B) /\ Laid(q, w, h[l], l) /\ h[i] \in Seq(B) /\ Laid(q, w, h[i], i)
    BY <1>3, <2>2
  <2>4. h[l] \o q[l + 1] \in Seq(B) /\ Laid(q, w, h[l] \o q[l + 1], l + 1)
    BY <2>2, <2>3, LaidNext
  <2>5. h[l] \o q[i] \in Seq(B) /\ Laid(q, w, h[l] \o q[i], i)  BY <2>2, <2>4
  <2>6. h[i] = h[l] \o q[i]  BY <2>3, <2>5, LaidOnly
  <2> QED BY <2>1, <2>6
<1>7. Flat(h)
  <2>1. \A i \in 1..Len(q) : h[i] = IF i = 1 THEN q[i] ELSE h[i - 1] \o q[i]
    BY <1>5, <1>6
  <2> QED BY <1>4, <2>1
<1>8. PICK g : g = (CHOOSE x : Flat(x)) /\ Flat(g)  BY <1>7
<1>9. \A i \in 1..Len(q) : g[i] = IF i = 1 THEN q[i] ELSE g[i - 1] \o q[i]  BY <1>8
<1>10. \A i \in 1..Len(q) : g[i] = h[i]
  <2> DEFINE Wrong == {i \in 1..Len(q) : g[i] # h[i]}
  <2> SUFFICES ASSUME Wrong # {} PROVE FALSE  OBVIOUS
  <2>1. Wrong \in SUBSET Nat  BY <1>0
  <2>2. PICK m : m \in Wrong /\ \A i \in Wrong : m <= i
    <3> HIDE DEF Wrong
    <3> QED BY <2>1, MinIsLeast
  <2>3. m \in 1..Len(q) /\ g[m] # h[m] /\ m # 1  BY <1>5, <1>9, <2>2
  <2>4. m - 1 \in 1..Len(q) /\ ~(m <= m - 1)  BY <1>0, <2>3
  <2>5. g[m - 1] = h[m - 1]  BY <2>2, <2>4
  <2> QED BY <1>6, <1>9, <2>3, <2>5
<1>11. FlattenSeq(q) = h[Len(q)]  BY <1>0, <1>1, <1>8, <1>10
<1> QED BY <1>0, <1>3, <1>11

(* Two ways to divide one sequence are the same.                           *)
LEMMA DividedOnce ==
    ASSUME NEW B, NEW w \in Nat \ {0}, NEW s,
           NEW q, Uniform(q, w, B), Len(q) # 0, Laid(q, w, s, Len(q)),
           NEW r, Uniform(r, w, B), Len(r) # 0, Laid(r, w, s, Len(r))
    PROVE  q = r
<1>1. PICK k, l : k = Len(q) /\ l = Len(r)  OBVIOUS
<1>2. k \in Nat \ {0} /\ l \in Nat \ {0} /\ k \in 1..Len(q) /\ l \in 1..Len(r)
  BY <1>1 DEF Uniform
<1>3. /\ Begin(k, w) \in Nat /\ Upto(q, w, k) \in Nat /\ Begin(k, w) < Upto(q, w, k) /\ Upto(q, w, k) <= Begin(k, w) + w
      /\ Upto(q, w, k) = Begin(k, w) + Len(q[k])
  BY <1>2, UptoIs
<1>4. /\ Begin(l, w) \in Nat /\ Upto(r, w, l) \in Nat /\ Begin(l, w) < Upto(r, w, l) /\ Upto(r, w, l) <= Begin(l, w) + w
      /\ Upto(r, w, l) = Begin(l, w) + Len(r[l])
  BY <1>2, UptoIs
<1>5. Len(s) = Upto(q, w, k) /\ Len(s) = Upto(r, w, l)  BY <1>1 DEF Laid
<1>6. k = l
  <2>1. PICK n : n = Len(s)  OBVIOUS
  <2>2. n \in Nat \ {0} /\ Begin(k, w) < n /\ n <= Begin(k, w) + w /\ Begin(l, w) < n /\ n <= Begin(l, w) + w
    BY <1>3, <1>4, <1>5, <2>1
  <2>3. Ceiling(n, w) = k  BY <1>2, <2>2, CeilingOnly
  <2>4. Ceiling(n, w) = l  BY <1>2, <2>2, CeilingOnly
  <2> QED BY <2>3, <2>4
<1>7. ASSUME NEW i \in 1..k PROVE q[i] = r[i]
  <2>1. i \in 1..Len(q) /\ i \in 1..Len(r) /\ i \in Nat  BY <1>1, <1>2, <1>6
  <2>2. q[i] \in Seq(B) /\ Len(q[i]) \in Nat /\ (i < Len(q) => Len(q[i]) = w)
    BY <2>1 DEF Uniform
  <2>3. r[i] \in Seq(B) /\ Len(r[i]) \in Nat /\ (i < Len(r) => Len(r[i]) = w)
    BY <2>1 DEF Uniform
  <2>4. Len(q[i]) = Len(r[i])
    <3>1. CASE i < k  BY <1>1, <1>6, <2>2, <2>3, <3>1
    <3>2. CASE i = k  BY <1>3, <1>4, <1>5, <1>6, <2>2, <2>3, <3>2
    <3> QED BY <1>2, <3>1, <3>2
  <2>5. ASSUME NEW j \in 1..Len(q[i]) PROVE q[i][j] = r[i][j]
    <3>1. s[Begin(i, w) + j] = q[i][j]  BY <2>1 DEF Laid
    <3>2. j \in 1..Len(r[i])  BY <2>4
    <3>3. s[Begin(i, w) + j] = r[i][j]  BY <2>1, <3>2 DEF Laid
    <3> QED BY <3>1, <3>3
  <2> QED BY <2>2, <2>3, <2>4, <2>5, SeqEqual
<1>8. q \in Seq(Seq(B)) /\ r \in Seq(Seq(B)) /\ Len(q) = Len(r) /\ \A i \in 1..Len(q) : q[i] = r[i]
  BY <1>1, <1>6, <1>7 DEF Uniform
<1> QED BY <1>8, SeqEqual

(* Beginnings, and what is behind them.                                    *)
LEMMA FirstIs ==
    ASSUME NEW B, NEW s \in Seq(B), NEW n \in Nat
    PROVE  /\ First(s, n) \in Seq(B)
           /\ n <= Len(s) => Len(First(s, n)) = n
           /\ Len(s) <= n => First(s, n) = s
           /\ Len(First(s, n)) <= Len(s) /\ Len(First(s, n)) <= n
           /\ \A p \in 1..Len(First(s, n)) : First(s, n)[p] = s[p]
<1>1. PICK m : m = IF n < Len(s) THEN n ELSE Len(s)  OBVIOUS
<1>2. m \in Nat /\ m <= Len(s) /\ m <= n /\ (n <= Len(s) => m = n) /\ (Len(s) <= n => m = Len(s)) /\ Len(s) \in Nat
  BY <1>1
<1>3. First(s, n) = SubSeq(s, 1, m)  BY <1>1 DEF First
<1>4. \A i \in 1..m : s[i] \in B  BY <1>2
<1>5. /\ SubSeq(s, 1, m) \in Seq(B) /\ Len(SubSeq(s, 1, m)) = m
      /\ \A p \in 1..m : SubSeq(s, 1, m)[p] = s[p]
  BY <1>2, <1>4
<1>6. m = Len(s) => SubSeq(s, 1, m) = s  BY <1>2, SubSeqFull
<1> QED BY <1>2, <1>3, <1>5, <1>6

LEMMA BeyondIs ==
    ASSUME NEW B, NEW s \in Seq(B), NEW n \in Nat, n <= Len(s)
    PROVE  /\ Beyond(s, n) \in Seq(B) /\ Len(Beyond(s, n)) = Len(s) - n
           /\ \A p \in 1..(Len(s) - n) : Beyond(s, n)[p] = s[n + p]
<1>1. PICK l : l = Len(s)  OBVIOUS
<1>2. l \in Nat /\ \A i \in (n + 1)..l : s[i] \in B  BY <1>1
<1>3. /\ SubSeq(s, n + 1, l) \in Seq(B)
      /\ Len(SubSeq(s, n + 1, l)) = IF n + 1 <= l THEN l - (n + 1) + 1 ELSE 0
      /\ \A i \in 1..(l - (n + 1) + 1) : SubSeq(s, n + 1, l)[i] = s[(n + 1) + i - 1]
  BY <1>2, SubSeqProperties
<1>4. l - (n + 1) + 1 = l - n /\ \A i \in Int : (n + 1) + i - 1 = n + i  BY <1>2
<1>5. Len(SubSeq(s, n + 1, l)) = l - n  BY <1>1, <1>2, <1>3
<1>6. \A p \in 1..(l - n) : SubSeq(s, n + 1, l)[p] = s[n + p]  BY <1>3, <1>4
<1> QED BY <1>1, <1>3, <1>5, <1>6 DEF Beyond

(* The pieces of a sequence.                                               *)
LEMMA PiecesAre ==
    ASSUME NEW B, NEW w \in Nat \ {0}, NEW s \in Seq(B), Len(s) # 0
    PROVE  /\ Uniform(Pieces(s, w), w, B) /\ Len(Pieces(s, w)) = Ceiling(Len(s), w)
           /\ Laid(Pieces(s, w), w, s, Len(Pieces(s, w)))
<1>1. PICK q, n, k : q = Pieces(s, w) /\ n = Len(s) /\ k = Ceiling(n, w)  OBVIOUS
<1>2. n \in Nat \ {0}  BY <1>1
<1>3. k \in Nat \ {0} /\ Begin(k, w) < n /\ n <= Begin(k, w) + w
  BY <1>1, <1>2, CeilingAt
<1>4. q = [i \in 1..k |-> First(Beyond(s, Begin(i, w)), w)]  BY <1>1 DEF Pieces, Begin
<1>5. ASSUME NEW i \in 1..k
      PROVE  /\ q[i] \in Seq(B) /\ Len(q[i]) \in 1..w /\ (i < k => Len(q[i]) = w)
             /\ Begin(i, w) \in Nat
             /\ (i = k => Begin(i, w) + Len(q[i]) = n) /\ Begin(i, w) + Len(q[i]) <= n
             /\ \A j \in 1..Len(q[i]) : q[i][j] = s[Begin(i, w) + j]
  <2>0. i \in Nat \ {0}  BY <1>3
  <2>1. i \in Nat \ {0} /\ Begin(i, w) \in Nat  BY <2>0, Begins
  <2>2. Begin(i, w) < n /\ (i < k => Begin(i, w) + w <= n)
    <3>1. CASE i < k
      <4>1. Begin(i, w) + w <= Begin(k, w)  BY <1>3, <2>1, <3>1, Begins
      <4>2. Begin(k, w) \in Nat  BY <1>3, Begins
      <4> QED BY <1>2, <1>3, <2>1, <4>1, <4>2
    <3>2. CASE i = k  BY <1>3, <3>2
    <3> QED BY <1>3, <3>1, <3>2
  <2>3. PICK b, t : b = Begin(i, w) /\ t = Beyond(s, b)  OBVIOUS
  <2>4. b \in Nat /\ b <= Len(s)  BY <1>1, <1>2, <2>1, <2>2, <2>3
  <2>5. t \in Seq(B) /\ Len(t) = Len(s) - b /\ \A p \in 1..(Len(s) - b) : t[p] = s[b + p]
    BY <2>3, <2>4, BeyondIs
  <2>6. /\ First(t, w) \in Seq(B) /\ (w <= Len(t) => Len(First(t, w)) = w) /\ (Len(t) <= w => First(t, w) = t)
        /\ Len(First(t, w)) <= Len(t) /\ Len(First(t, w)) <= w
        /\ \A p \in 1..Len(First(t, w)) : First(t, w)[p] = t[p]
    BY <2>5, FirstIs
  <2>7. q[i] = First(t, w)  BY <1>4, <2>3
  <2>8. Len(t) = n - b /\ n - b \in Nat \ {0} /\ (i < k => w <= n - b) /\ (i = k => n - b <= w)
    BY <1>1, <1>2, <1>3, <2>2, <2>3, <2>4, <2>5
  <2>9. /\ Len(q[i]) \in Nat /\ 1 <= Len(q[i]) /\ Len(q[i]) <= w /\ (i < k => Len(q[i]) = w)
        /\ (i = k => Len(q[i]) = n - b) /\ Len(q[i]) <= n - b
    <3>1. Len(First(t, w)) \in Nat  BY <2>6
    <3> QED BY <2>6, <2>7, <2>8, <3>1
  <2>10. ASSUME NEW j \in 1..Len(q[i]) PROVE q[i][j] = s[b + j]
    <3>1. q[i][j] = t[j] /\ j \in 1..(Len(s) - b)  BY <1>1, <2>6, <2>7, <2>8, <2>9
    <3> QED BY <2>5, <3>1
  <2>11. q[i] \in Seq(B)  BY <2>6, <2>7
  <2>12. b + Len(q[i]) <= n /\ (i = k => b + Len(q[i]) = n)  BY <1>2, <2>4, <2>9
  <2> QED BY <2>3, <2>4, <2>9, <2>10, <2>11, <2>12
<1>6. q \in Seq(Seq(B)) /\ Len(q) = k
  <2>1. q \in [1..k -> Seq(B)]  BY <1>4, <1>5
  <2> QED BY <1>3, <2>1
<1>7. Uniform(q, w, B)  BY <1>5, <1>6 DEF Uniform
<1>8. k \in 1..k  BY <1>3
<1>9. Upto(q, w, k) = n  BY <1>5, <1>8 DEF Upto
<1>10. ASSUME NEW i \in 1..k, NEW j \in 1..Len(q[i])
       PROVE  Begin(i, w) + j \in 1..n /\ s[Begin(i, w) + j] = q[i][j]
  <2>1. Begin(i, w) \in Nat /\ Begin(i, w) + Len(q[i]) <= n /\ Len(q[i]) \in Nat
    BY <1>5
  <2>2. Begin(i, w) + j \in 1..n  BY <1>2, <2>1
  <2> QED BY <1>5, <2>2
<1>11. ASSUME NEW p \in 1..Upto(q, w, k) PROVE \E i \in 1..k : \E j \in 1..Len(q[i]) : p = Begin(i, w) + j
  <2>1. k \in 1..Len(q)  BY <1>3, <1>6
  <2> QED BY <1>7, <2>1, JoinedFrom
<1>12. Laid(q, w, s, k)  BY <1>1, <1>9, <1>10, <1>11 DEF Laid
<1> QED BY <1>1, <1>6, <1>7, <1>12

(* The first pieces of several, put together, are the beginning of them    *)
(* all put together.                                                       *)
LEMMA CutLaid ==
    ASSUME NEW B, NEW w \in Nat \ {0},
           NEW q, Uniform(q, w, B), NEW s \in Seq(B), Laid(q, w, s, Len(q)),
           NEW r, Uniform(r, w, B), NEW t \in Seq(B), Laid(r, w, t, Len(r)),
           Len(r) # 0, Len(r) <= Len(q), \A i \in 1..Len(r) : r[i] = q[i]
    PROVE  Len(t) <= Len(s) /\ t = First(s, Len(t))
<1>1. PICK l : l = Len(r)  OBVIOUS
<1>2. l \in Nat \ {0} /\ l \in 1..Len(q) /\ l \in 1..Len(r)  BY <1>1 DEF Uniform
<1>3. PICK n : n = Len(t)  OBVIOUS
<1>4. n = Upto(r, w, l) /\ n \in Nat /\ n = Begin(l, w) + Len(r[l]) /\ Len(r[l]) \in Nat \ {0}
  <2>1. n = Upto(r, w, l)  BY <1>1, <1>3 DEF Laid
  <2>2. Len(r[l]) \in Nat /\ 1 <= Len(r[l])  BY <1>2, UniformPiece
  <2>3. Upto(r, w, l) \in Nat /\ Upto(r, w, l) = Begin(l, w) + Len(r[l])
    BY <1>2, UptoIs
  <2> QED BY <2>1, <2>2, <2>3
<1>5. n <= Len(s)
  <2>1. r[l] = q[l] /\ Len(r[l]) \in 1..Len(q[l])  BY <1>1, <1>2, <1>4
  <2>2. Begin(l, w) + Len(r[l]) \in 1..Upto(q, w, Len(q)) /\ Len(s) = Upto(q, w, Len(q))
    BY <1>2, <2>1 DEF Laid
  <2> QED BY <1>4, <2>2
<1>6. PICK f : f = First(s, n)  OBVIOUS
<1>7. f \in Seq(B) /\ Len(f) = n /\ \A p \in 1..n : f[p] = s[p]
  BY <1>4, <1>5, <1>6, FirstIs
<1>8. ASSUME NEW p \in 1..n PROVE t[p] = f[p]
  <2>1. PICK k \in 1..l : \E j \in 1..Len(r[k]) : p = Begin(k, w) + j
    BY <1>1, <1>4 DEF Laid
  <2>2. PICK j \in 1..Len(r[k]) : p = Begin(k, w) + j  BY <2>1
  <2>3. t[p] = r[k][j]  BY <1>1, <2>2 DEF Laid
  <2>4. k \in 1..Len(q) /\ r[k] = q[k] /\ j \in 1..Len(q[k])  BY <1>1, <1>2
  <2>5. s[p] = q[k][j]  BY <2>2, <2>4 DEF Laid
  <2> QED BY <1>7, <2>3, <2>4, <2>5
<1>9. t = f  BY <1>3, <1>7, <1>8, SeqEqual
<1> QED BY <1>3, <1>5, <1>6, <1>9

LEMMA FirstJoined ==
    ASSUME NEW B, NEW a \in Seq(B), NEW b \in Seq(B), NEW k \in Nat, k <= Len(b)
    PROVE  First(a \o b, Len(a) + k) = a \o First(b, k)
<1>1. PICK m, n : m = Len(a) /\ n = Len(b)  OBVIOUS
<1>2. m \in Nat /\ n \in Nat /\ k <= n  BY <1>1
<1>3. PICK c, f : c = a \o b /\ f = First(b, k)  OBVIOUS
<1>4. c \in Seq(B) /\ Len(c) = m + n /\ \A p \in 1..(m + n) : c[p] = IF p <= m THEN a[p] ELSE b[p - m]
  BY <1>1, <1>3, ConcatProperties
<1>5. f \in Seq(B) /\ Len(f) = k /\ \A p \in 1..k : f[p] = b[p]
  BY <1>1, <1>2, <1>3, FirstIs
<1>6. PICK g, h : g = First(c, m + k) /\ h = a \o f  OBVIOUS
<1>7. m + k \in Nat /\ m + k <= Len(c)  BY <1>2, <1>4
<1>8. g \in Seq(B) /\ Len(g) = m + k /\ \A p \in 1..(m + k) : g[p] = c[p]
  <2>1. PICK e : e = m + k  OBVIOUS
  <2>2. e \in Nat /\ e <= Len(c) /\ g = First(c, e)  BY <1>6, <1>7, <2>1
  <2>3. g \in Seq(B) /\ Len(g) = e  BY <1>4, <2>2, FirstIs
  <2>4. \A p \in 1..Len(g) : g[p] = c[p]  BY <1>4, <2>2, FirstIs
  <2> QED BY <2>1, <2>3, <2>4
<1>9. h \in Seq(B) /\ Len(h) = m + k /\ \A p \in 1..(m + k) : h[p] = IF p <= m THEN a[p] ELSE f[p - m]
  BY <1>1, <1>5, <1>6, ConcatProperties
<1>10. ASSUME NEW p \in 1..(m + k) PROVE g[p] = h[p]
  <2>1. p \in 1..(m + n)  BY <1>2
  <2>2. CASE p <= m  BY <1>4, <1>8, <1>9, <2>1, <2>2
  <2>3. CASE ~(p <= m)
    <3>1. p - m \in 1..k  BY <1>2, <2>3
    <3> QED BY <1>4, <1>5, <1>8, <1>9, <2>1, <2>3, <3>1
  <2> QED BY <2>2, <2>3
<1>11. g = h  BY <1>8, <1>9, <1>10, SeqEqual
<1> QED BY <1>1, <1>3, <1>6, <1>11

LEMMA BeyondJoined ==
    ASSUME NEW B, NEW a \in Seq(B), NEW b \in Seq(B)
    PROVE  Beyond(a \o b, Len(a)) = b
<1>1. PICK m, n : m = Len(a) /\ n = Len(b)  OBVIOUS
<1>2. m \in Nat /\ n \in Nat  BY <1>1
<1>3. PICK c : c = a \o b  OBVIOUS
<1>4. c \in Seq(B) /\ Len(c) = m + n /\ \A p \in 1..(m + n) : c[p] = IF p <= m THEN a[p] ELSE b[p - m]
  BY <1>1, <1>3, ConcatProperties
<1>5. PICK f : f = Beyond(c, m)  OBVIOUS
<1>6. f \in Seq(B) /\ Len(f) = n /\ \A p \in 1..n : f[p] = c[m + p]
  <2>1. m <= Len(c) /\ Len(c) - m = n  BY <1>2, <1>4
  <2>2. f \in Seq(B) /\ Len(f) = Len(c) - m /\ \A p \in 1..(Len(c) - m) : f[p] = c[m + p]
    BY <1>2, <1>4, <1>5, <2>1, BeyondIs
  <2> QED BY <2>1, <2>2
<1>7. ASSUME NEW p \in 1..n PROVE f[p] = b[p]
  <2>1. m + p \in 1..(m + n) /\ ~(m + p <= m) /\ (m + p) - m = p  BY <1>2
  <2> QED BY <1>4, <1>6, <2>1
<1>8. f = b  BY <1>1, <1>6, <1>7, SeqEqual
<1> QED BY <1>1, <1>3, <1>5, <1>8

(* The bytes of a file and of its stored object.                           *)
Bytes(key) == [seal : {key, "clear", "TRENC"}, counter : Nat, value : Int]

LEMMA ContentsAre ==
    ASSUME NEW key, NEW n \in Nat
    PROVE  /\ Contents(n) \in Seq(Bytes(key)) /\ Len(Contents(n)) = n
           /\ \A p \in 1..n : Contents(n)[p] = Byte(p)
<1>1. \A p \in 1..n : Byte(p) \in Bytes(key)  BY DEF Byte, Bytes
<1>2. Contents(n) \in [1..n -> Bytes(key)]  BY <1>1 DEF Contents
<1> QED BY <1>2 DEF Contents

LEMMA ContentsFirst ==
    ASSUME NEW n \in Nat, NEW m \in Nat
    PROVE  First(Contents(n), m) = Contents(IF m < n THEN m ELSE n)
<1>1. PICK k : k = IF m < n THEN m ELSE n  OBVIOUS
<1>2. k \in Nat /\ k <= n /\ (n <= m => k = n) /\ (m <= n => k = m)  BY <1>1
<1>3. PICK c, d : c = Contents(n) /\ d = Contents(k)  OBVIOUS
<1>0. PICK B : B = Bytes("clear")  OBVIOUS
<1>4. c \in Seq(B) /\ Len(c) = n /\ \A p \in 1..n : c[p] = Byte(p)
  BY <1>0, <1>3, ContentsAre
<1>5. d \in Seq(B) /\ Len(d) = k /\ \A p \in 1..k : d[p] = Byte(p)
  BY <1>0, <1>2, <1>3, ContentsAre
<1>6. PICK f : f = First(c, m)  OBVIOUS
<1>7. /\ f \in Seq(B) /\ (m <= Len(c) => Len(f) = m) /\ (Len(c) <= m => f = c)
      /\ \A p \in 1..Len(f) : f[p] = c[p]
  <2>1. c \in Seq(B)  BY <1>4
  <2>2. First(c, m) \in Seq(B)  BY <2>1, FirstIs
  <2>3. (m <= Len(c) => Len(First(c, m)) = m) /\ (Len(c) <= m => First(c, m) = c)
    BY <2>1, FirstIs
  <2>4. \A p \in 1..Len(First(c, m)) : First(c, m)[p] = c[p]  BY <2>1, FirstIs
  <2> QED BY <1>6, <2>2, <2>3, <2>4
<1>8. Len(f) = k  BY <1>2, <1>4, <1>7
<1>9. \A p \in 1..k : f[p] = d[p]  BY <1>2, <1>4, <1>5, <1>7, <1>8
<1>10. f = d  BY <1>5, <1>7, <1>8, <1>9, SeqEqual
<1> QED BY <1>1, <1>3, <1>6, <1>10

(* The chunks of a file.                                                   *)
LEMMA ChunksAre ==
    ASSUME NEW key, NEW w \in Nat \ {0}, NEW n \in Nat \ {0}
    PROVE  /\ Uniform(Pieces(Contents(n), w), w, Bytes(key))
           /\ Len(Pieces(Contents(n), w)) = Ceiling(n, w)
           /\ Laid(Pieces(Contents(n), w), w, Contents(n), Len(Pieces(Contents(n), w)))
           /\ \A i \in 1..Ceiling(n, w) : \A j \in 1..Len(Pieces(Contents(n), w)[i]) :
                 Pieces(Contents(n), w)[i][j] = Byte(Begin(i, w) + j)
<1>1. PICK s, q, B : s = Contents(n) /\ q = Pieces(s, w) /\ B = Bytes(key)  OBVIOUS
<1>2. s \in Seq(B) /\ Len(s) = n /\ Len(s) # 0  BY <1>1, ContentsAre
<1>3. \A p \in 1..n : s[p] = Byte(p)  BY <1>1, ContentsAre
<1>4. Uniform(q, w, B) /\ Len(q) = Ceiling(n, w) /\ Laid(q, w, s, Len(q))
  BY <1>1, <1>2, PiecesAre
<1>5. ASSUME NEW i \in 1..Len(q), NEW j \in 1..Len(q[i]) PROVE q[i][j] = Byte(Begin(i, w) + j)
  <2>1. Begin(i, w) + j \in 1..n /\ s[Begin(i, w) + j] = q[i][j]  BY <1>2, <1>4 DEF Laid
  <2> QED BY <1>3, <2>1
<1> QED BY <1>1, <1>4, <1>5

(* The chunks of the beginning of a file are the first of its chunks.      *)
LEMMA ChunksOfFirst ==
    ASSUME NEW w \in Nat \ {0}, NEW n \in Nat, NEW m \in Nat \ {0}, Begin(m, w) + w < n
    PROVE  /\ Ceiling(Begin(m, w) + w, w) = m /\ m < Ceiling(n, w)
           /\ \A i \in 1..m : Pieces(Contents(Begin(m, w) + w), w)[i] = Pieces(Contents(n), w)[i]
<1>1. Begin(m, w) \in Nat  BY Begins
<1>2. PICK k : k = Begin(m, w) + w  OBVIOUS
<1>3. k \in Nat \ {0} /\ k < n /\ n \in Nat \ {0} /\ Begin(m, w) < k /\ k <= Begin(m, w) + w
  BY <1>1, <1>2
<1>4. Ceiling(k, w) = m  BY <1>3, CeilingOnly
<1>5. PICK c : c = Ceiling(n, w)  OBVIOUS
<1>6. c \in Nat \ {0} /\ Begin(c, w) < n /\ n <= Begin(c, w) + w /\ Begin(c, w) \in Nat
  <2>1. c \in Nat \ {0} /\ Begin(c, w) < n /\ n <= Begin(c, w) + w
    BY <1>3, <1>5, CeilingAt
  <2> QED BY <2>1, Begins
<1>7. m < c
  <2>1. ASSUME c <= m PROVE FALSE
    <3>1. CASE c = m  BY <1>2, <1>3, <1>6, <3>1
    <3>2. CASE c < m
      <4>1. Begin(c, w) + w <= Begin(m, w)  BY <1>6, <3>2, Begins
      <4> QED BY <1>1, <1>2, <1>3, <1>6, <4>1
    <3> QED BY <1>6, <2>1, <3>1, <3>2
  <2> QED BY <1>6, <2>1
<1>8. PICK q, r, B : q = Pieces(Contents(n), w) /\ r = Pieces(Contents(k), w) /\ B = Bytes("clear")
  OBVIOUS
<1>9. /\ Uniform(q, w, B) /\ Len(q) = c
      /\ \A i \in 1..c : \A j \in 1..Len(q[i]) : q[i][j] = Byte(Begin(i, w) + j)
  BY <1>3, <1>5, <1>8, ChunksAre
<1>10. /\ Uniform(r, w, B) /\ Len(r) = m /\ Laid(r, w, Contents(k), m)
       /\ \A i \in 1..m : \A j \in 1..Len(r[i]) : r[i][j] = Byte(Begin(i, w) + j)
  BY <1>3, <1>4, <1>8, ChunksAre
<1>11. ASSUME NEW i \in 1..m PROVE r[i] = q[i]
  <2>1. i \in 1..c /\ i < c /\ i \in Nat  BY <1>6, <1>7
  <2>2. q[i] \in Seq(B) /\ Len(q[i]) = w  BY <1>9, <2>1 DEF Uniform
  <2>3. r[i] \in Seq(B) /\ Len(r[i]) \in Nat /\ (i < m => Len(r[i]) = w)
    BY <1>10 DEF Uniform
  <2>4. Len(r[i]) = w
    <3>1. CASE i = m
      <4>1. Len(Contents(k)) = Upto(r, w, m) /\ Len(Contents(k)) = k
        BY <1>3, <1>10, ContentsAre DEF Laid
      <4>2. Begin(m, w) + Len(r[m]) = Begin(m, w) + w  BY <1>2, <4>1 DEF Upto
      <4> QED BY <1>1, <2>3, <3>1, <4>2
    <3> QED BY <2>1, <2>3, <3>1
  <2>5. \A j \in 1..w : r[i][j] = q[i][j]  BY <1>9, <1>10, <2>1, <2>2, <2>4
  <2> QED BY <2>2, <2>3, <2>4, <2>5, SeqEqual
<1> QED BY <1>2, <1>4, <1>5, <1>7, <1>8, <1>11

(* Sealed chunks.                                                          *)
Sealed(key, q) == [i \in DOMAIN q |-> seal(key, i - 1, q[i])]

LEMMA SealIs ==
    ASSUME NEW key, NEW c \in Nat, NEW data \in Seq(Bytes(key))
    PROVE  /\ seal(key, c, data) \in Seq(Bytes(key)) /\ Len(seal(key, c, data)) = Len(data) + TagLen
           /\ \A j \in 1..(Len(data) + TagLen) : /\ seal(key, c, data)[j].seal = key
                                                 /\ j <= Len(data) => seal(key, c, data)[j].value = data[j].value
<1>1. PICK n : n = Len(data)  OBVIOUS
<1>2. n \in Nat /\ TagLen \in Nat /\ n + TagLen \in Nat  BY <1>1, CipherAssumption
<1>3. PICK t : t = seal(key, c, data)  OBVIOUS
<1>4. t = [i \in 1..(n + TagLen) |->
             [seal |-> key, counter |-> c, value |-> IF i <= n THEN data[i].value ELSE 0 - n]]
  BY <1>1, <1>3 DEF seal
<1>5. ASSUME NEW i \in 1..(n + TagLen) PROVE t[i] \in Bytes(key)
  <2>1. i <= n => data[i] \in Bytes(key)  BY <1>1, <1>2
  <2>2. (IF i <= n THEN data[i].value ELSE 0 - n) \in Int  BY <1>2, <2>1 DEF Bytes
  <2> QED BY <1>4, <2>2 DEF Bytes
<1>6. PICK m \in Nat : m = n + TagLen  BY <1>2
<1>7. t \in [1..m -> Bytes(key)]  BY <1>4, <1>5, <1>6
<1>8. t \in Seq(Bytes(key)) /\ Len(t) = m  BY <1>7
<1>9. \A j \in 1..(n + TagLen) : t[j].seal = key /\ (j <= n => t[j].value = data[j].value)
  BY <1>4
<1> QED BY <1>1, <1>3, <1>6, <1>8, <1>9

LEMMA SealedAre ==
    ASSUME NEW key, NEW w \in Nat \ {0}, NEW q, Uniform(q, w, Bytes(key))
    PROVE  /\ Uniform(Sealed(key, q), w + TagLen, Bytes(key)) /\ Len(Sealed(key, q)) = Len(q)
           /\ \A i \in 1..Len(q) : /\ Sealed(key, q)[i] = seal(key, i - 1, q[i])
                                   /\ Len(Sealed(key, q)[i]) = Len(q[i]) + TagLen
<1>1. PICK t, l : t = Sealed(key, q) /\ l = Len(q)  OBVIOUS
<1>2. l \in Nat /\ DOMAIN q = 1..l  BY <1>1 DEF Uniform
<1>3. t = [i \in 1..l |-> seal(key, i - 1, q[i])]  BY <1>1, <1>2 DEF Sealed
<1>4. ASSUME NEW i \in 1..l
      PROVE  /\ t[i] = seal(key, i - 1, q[i]) /\ t[i] \in Seq(Bytes(key)) /\ Len(t[i]) = Len(q[i]) + TagLen
             /\ Len(t[i]) \in 1..(w + TagLen) /\ (i < l => Len(t[i]) = w + TagLen)
  <2>1. q[i] \in Seq(Bytes(key)) /\ Len(q[i]) \in 1..w /\ (i < l => Len(q[i]) = w)
    BY <1>1 DEF Uniform
  <2>2. PICK c : c = i - 1  OBVIOUS
  <2>3. c \in Nat /\ t[i] = seal(key, c, q[i])  BY <1>3, <2>2
  <2>4. t[i] \in Seq(Bytes(key)) /\ Len(t[i]) = Len(q[i]) + TagLen
    BY <2>1, <2>3, SealIs
  <2>5. Len(t[i]) \in 1..(w + TagLen) /\ (i < l => Len(t[i]) = w + TagLen)
    <3>1. Len(q[i]) \in Nat /\ 1 <= Len(q[i]) /\ Len(q[i]) <= w /\ TagLen \in Nat
      BY <2>1, CipherAssumption
    <3>2. i < l => Len(q[i]) = w  BY <2>1
    <3> QED BY <2>4, <3>1, <3>2
  <2> QED BY <2>2, <2>3, <2>4, <2>5
<1>5. t \in Seq(Seq(Bytes(key))) /\ Len(t) = l
  <2>1. t \in [1..l -> Seq(Bytes(key))]  BY <1>3, <1>4
  <2> QED BY <1>2, <2>1
<1>6. Uniform(t, w + TagLen, Bytes(key))  BY <1>4, <1>5 DEF Uniform
<1> QED BY <1>1, <1>4, <1>5, <1>6

(* A sealed chunk opens with its key and with no other.                    *)
LEMMA Opens ==
    ASSUME NEW key, NEW other, NEW c \in Nat, NEW data \in Seq(Bytes(key)), data # <<>>,
           \A j \in 1..Len(data) : data[j] = Byte(data[j].value)
    PROVE  unseal(other, c, seal(key, c, data)) = IF other = key THEN {data} ELSE {}
<1>1. PICK t, n : t = seal(key, c, data) /\ n = Len(data)  OBVIOUS
<1>2. n \in Nat \ {0} /\ TagLen \in Nat \ {0} /\ data = [j \in 1..n |-> data[j]]
  <2>1. data = [j \in 1..n |-> data[j]] /\ n \in Nat  BY <1>1
  <2>2. n # 0  BY <1>1, EmptySeq
  <2> QED BY <2>1, <2>2, CipherAssumption
<1>3. Len(t) = n + TagLen  BY <1>1, SealIs
<1>4. \A j \in 1..(n + TagLen) : t[j].seal = key /\ (j <= n => t[j].value = data[j].value)
  <2>1. t = [i \in 1..(n + TagLen) |->
              [seal |-> key, counter |-> c, value |-> IF i <= n THEN data[i].value ELSE 0 - n]]
    BY <1>1 DEF seal
  <2> QED BY <2>1
<1>5. PICK d : d = [i \in 1..(Len(t) - TagLen) |-> Byte(t[i].value)]  OBVIOUS
<1>6. d = data
  <2>1. Len(t) - TagLen = n  BY <1>2, <1>3
  <2>2. ASSUME NEW i \in 1..n PROVE Byte(t[i].value) = data[i]
    <3>1. i \in 1..(n + TagLen) /\ i <= n  BY <1>2
    <3>2. t[i].value = data[i].value  BY <1>4, <3>1
    <3> QED BY <1>1, <3>2
  <2>3. d = [i \in 1..n |-> data[i]]  BY <1>5, <2>1, <2>2
  <2> QED BY <1>2, <2>3
<1>7. unseal(other, c, t) = IF Len(t) > TagLen /\ t = seal(other, c, data) THEN {data} ELSE {}
  BY <1>5, <1>6 DEF unseal
<1>8. Len(t) > TagLen  BY <1>2, <1>3
<1>9. other # key => t # seal(other, c, data)
  <2> SUFFICES ASSUME t = seal(other, c, data) PROVE other = key  OBVIOUS
  <2>1. 1 \in 1..(n + TagLen)  BY <1>2
  <2>2. seal(other, c, data)[1].seal = other  BY <1>1, <2>1 DEF seal
  <2>3. t[1].seal = key  BY <1>4, <2>1
  <2> QED BY <2>2, <2>3
<1> QED BY <1>1, <1>7, <1>8, <1>9

LEMMA HeaderIs ==
    ASSUME NEW key
    PROVE  /\ StreamHeader(ChunkSize) \in Seq(Bytes(key)) /\ Len(StreamHeader(ChunkSize)) = HeaderLen
           /\ StreamHeader(ChunkSize)[1].seal = "TRENC" /\ StreamHeader(ChunkSize)[1].counter = ChunkSize
<1>1. PICK b : b = [seal |-> "TRENC", counter |-> ChunkSize, value |-> 0]  OBVIOUS
<1>2. b \in Bytes(key) /\ b.seal = "TRENC" /\ b.counter = ChunkSize
  BY <1>1, CipherAssumption DEF Bytes
<1>3. PICK h : h = StreamHeader(ChunkSize)  OBVIOUS
<1>4. h = [i \in 1..HeaderLen |-> b]  BY <1>1, <1>3 DEF StreamHeader
<1>5. h \in [1..HeaderLen -> Bytes(key)] /\ HeaderLen \in Nat /\ 1 \in 1..HeaderLen
  BY <1>2, <1>4, CipherAssumption
<1>6. h \in Seq(Bytes(key)) /\ Len(h) = HeaderLen  BY <1>5
<1>7. h[1] = b  BY <1>4, <1>5
<1> QED BY <1>2, <1>3, <1>6, <1>7

(* What is behind the header, and how long it is.                          *)
Chunks(n) == Pieces(Contents(n), ChunkSize)
Body(key, n) == FlattenSeq(Sealed(key, Chunks(n)))
SealedSize == ChunkSize + TagLen

LEMMA StreamIs ==
    ASSUME NEW key, NEW n
    PROVE  encrypt_stream(key, Contents(n)) = StreamHeader(ChunkSize) \o Body(key, n)
BY DEF encrypt_stream, Body, Sealed, Chunks

LEMMA BodyIs ==
    ASSUME NEW key, NEW n \in Nat \ {0}
    PROVE  /\ Uniform(Sealed(key, Chunks(n)), SealedSize, Bytes(key))
           /\ Len(Sealed(key, Chunks(n))) = Ceiling(n, ChunkSize)
           /\ Body(key, n) \in Seq(Bytes(key))
           /\ Laid(Sealed(key, Chunks(n)), SealedSize, Body(key, n), Ceiling(n, ChunkSize))
           /\ Len(Body(key, n)) = n + Ceiling(n, ChunkSize) * TagLen
           /\ Begin(Ceiling(n, ChunkSize), SealedSize) < Len(Body(key, n))
           /\ Len(Body(key, n)) <= Begin(Ceiling(n, ChunkSize), SealedSize) + SealedSize
<1>1. PICK c, q, t, b : /\ c = Ceiling(n, ChunkSize) /\ q = Chunks(n) /\ t = Sealed(key, q)
                        /\ b = Body(key, n)
  OBVIOUS
<1>2. ChunkSize \in Nat \ {0} /\ TagLen \in Nat \ {0} /\ SealedSize \in Nat \ {0}
  BY CipherAssumption DEF SealedSize
<1>3. c \in Nat \ {0} /\ c \in 1..c
  <2>1. c \in Nat \ {0}  BY <1>1, <1>2, CeilingAt
  <2> QED BY <2>1
<1>4. Uniform(q, ChunkSize, Bytes(key)) /\ Len(q) = c /\ Laid(q, ChunkSize, Contents(n), c)
  BY <1>1, <1>2, ChunksAre DEF Chunks
<1>5. Uniform(t, SealedSize, Bytes(key)) /\ Len(t) = c /\ \A i \in 1..c : Len(t[i]) = Len(q[i]) + TagLen
  <2>1. Uniform(t, ChunkSize + TagLen, Bytes(key)) /\ Len(t) = c
    BY <1>1, <1>2, <1>4, SealedAre
  <2>2. \A i \in 1..Len(q) : Len(Sealed(key, q)[i]) = Len(q[i]) + TagLen
    BY <1>2, <1>4, SealedAre
  <2> QED BY <1>1, <1>4, <2>1, <2>2 DEF SealedSize
<1>6. b \in Seq(Bytes(key)) /\ Laid(t, SealedSize, b, c)
  <2>1. Len(t) # 0 /\ b = FlattenSeq(t)  BY <1>1, <1>3, <1>5 DEF Body
  <2> QED BY <1>2, <1>5, <2>1, Flattened
<1>7. Len(b) = Begin(c, SealedSize) + Len(t[c])  BY <1>6 DEF Laid, Upto
<1>8. n = Begin(c, ChunkSize) + Len(q[c])  BY <1>4, ContentsAre DEF Laid, Upto
<1>9. /\ Begin(c, SealedSize) = Begin(c, ChunkSize) + Begin(c, TagLen)
      /\ Begin(c, TagLen) + TagLen = c * TagLen /\ Begin(c, TagLen) \in Nat
      /\ Begin(c, ChunkSize) \in Nat /\ Begin(c, SealedSize) \in Nat
  <2>1. PICK d : d = c - 1  OBVIOUS
  <2>2. d \in Nat /\ d * (ChunkSize + TagLen) = d * ChunkSize + d * TagLen
    BY <1>2, <1>3, <2>1
  <2>3. d * TagLen = c * TagLen - TagLen /\ c * TagLen \in Int
    BY <1>2, <1>3, <2>1, Products
  <2>4. Begin(c, TagLen) \in Nat /\ Begin(c, ChunkSize) \in Nat /\ Begin(c, SealedSize) \in Nat
    BY <1>2, <1>3, Begins
  <2>5. Begin(c, SealedSize) = Begin(c, ChunkSize) + Begin(c, TagLen)
    BY <2>1, <2>2 DEF Begin, SealedSize
  <2>6. Begin(c, TagLen) + TagLen = c * TagLen
    <3>1. PICK x, y : x = c * TagLen /\ y = Begin(c, TagLen)  OBVIOUS
    <3>2. y = x - TagLen /\ x \in Int  BY <2>1, <2>3, <3>1 DEF Begin
    <3> QED BY <1>2, <3>1, <3>2
  <2> QED BY <2>4, <2>5, <2>6
<1>10. Len(t[c]) = Len(q[c]) + TagLen /\ Len(q[c]) \in Nat /\ 1 <= Len(q[c]) /\ Len(q[c]) <= ChunkSize
  BY <1>2, <1>3, <1>4, <1>5, UniformPiece
<1>11. Len(b) = n + c * TagLen
  <2>1. PICK x : x = c * TagLen  OBVIOUS
  <2>2. Len(b) = n + x  BY <1>2, <1>7, <1>8, <1>9, <1>10, <2>1
  <2> QED BY <2>1, <2>2
<1>12. Begin(c, SealedSize) < Len(b) /\ Len(b) <= Begin(c, SealedSize) + SealedSize
  <2>1. PICK x : x = Begin(c, SealedSize)  OBVIOUS
  <2>2. Len(t[c]) > 0 /\ Len(t[c]) <= SealedSize /\ Len(t[c]) \in Nat
    BY <1>2, <1>10 DEF SealedSize
  <2> QED BY <1>2, <1>7, <1>9, <2>1, <2>2
<1> QED BY <1>1, <1>5, <1>6, <1>11, <1>12

(* What is cut off a stored object at the end of a chunk is the object of  *)
(* the beginning of the file.                                              *)
LEMMA BodyCut ==
    ASSUME NEW key, NEW n \in Nat, NEW m \in Nat \ {0}, Begin(m, ChunkSize) + ChunkSize < n
    PROVE  /\ Len(Body(key, Begin(m, ChunkSize) + ChunkSize)) = Begin(m, SealedSize) + SealedSize
           /\ Len(Body(key, Begin(m, ChunkSize) + ChunkSize)) <= Len(Body(key, n))
           /\ Body(key, Begin(m, ChunkSize) + ChunkSize) = First(Body(key, n), Begin(m, SealedSize) + SealedSize)
<1>1. PICK k : k = Begin(m, ChunkSize) + ChunkSize  OBVIOUS
<1>2. ChunkSize \in Nat \ {0} /\ TagLen \in Nat \ {0} /\ SealedSize \in Nat \ {0}
  BY CipherAssumption DEF SealedSize
<1>3. Begin(m, ChunkSize) \in Nat /\ Begin(m, SealedSize) \in Nat  BY <1>2, Begins
<1>4. k \in Nat \ {0} /\ n \in Nat \ {0} /\ k < n  BY <1>1, <1>2, <1>3
<1>5. PICK q, r, c : q = Chunks(n) /\ r = Chunks(k) /\ c = Ceiling(n, ChunkSize)
  OBVIOUS
<1>6. Ceiling(k, ChunkSize) = m /\ m < c /\ \A i \in 1..m : r[i] = q[i]
  BY <1>1, <1>2, <1>4, <1>5, ChunksOfFirst DEF Chunks
<1>7. c \in Nat \ {0} /\ m \in 1..m  BY <1>2, <1>4, <1>5, CeilingAt
<1>8. PICK s, t, qs, rs, B : s = Body(key, n) /\ t = Body(key, k) /\ qs = Sealed(key, q) /\ rs = Sealed(key, r) /\ B = Bytes(key)
  OBVIOUS
<1>9. Uniform(qs, SealedSize, B) /\ Len(qs) = c /\ s \in Seq(B) /\ Laid(qs, SealedSize, s, c)
  BY <1>4, <1>5, <1>8, BodyIs
<1>10. Uniform(rs, SealedSize, B) /\ Len(rs) = m /\ t \in Seq(B) /\ Laid(rs, SealedSize, t, m)
  BY <1>4, <1>5, <1>6, <1>8, BodyIs
<1>11. \A i \in 1..m : rs[i] = qs[i]
  <2>1. Uniform(q, ChunkSize, B) /\ Uniform(r, ChunkSize, B) /\ Len(q) = c /\ Len(r) = m
    BY <1>2, <1>4, <1>5, <1>6, <1>8, ChunksAre DEF Chunks
  <2>2. \A i \in 1..c : qs[i] = seal(key, i - 1, q[i])  BY <1>2, <1>8, <2>1, SealedAre
  <2>3. \A i \in 1..m : rs[i] = seal(key, i - 1, r[i])  BY <1>2, <1>8, <2>1, SealedAre
  <2>4. \A i \in 1..m : i \in 1..c  BY <1>6, <1>7
  <2> QED BY <1>6, <2>2, <2>3, <2>4
<1>12. Len(t) <= Len(s) /\ t = First(s, Len(t))
  <2>1. Len(rs) # 0 /\ Len(rs) <= Len(qs) /\ \A i \in 1..Len(rs) : rs[i] = qs[i]
    BY <1>6, <1>7, <1>9, <1>10, <1>11
  <2>2. Laid(qs, SealedSize, s, Len(qs)) /\ Laid(rs, SealedSize, t, Len(rs))
    BY <1>9, <1>10
  <2> QED BY <1>2, <1>9, <1>10, <2>1, <2>2, CutLaid
<1>13. Len(t) = Begin(m, SealedSize) + SealedSize
  <2>1. rs[m] = qs[m] /\ m \in 1..Len(qs) /\ m < Len(qs)  BY <1>6, <1>7, <1>9, <1>11
  <2>2. Len(qs[m]) = SealedSize  BY <1>9, <2>1 DEF Uniform
  <2> QED BY <1>10, <2>1, <2>2 DEF Laid, Upto
<1> QED BY <1>1, <1>8, <1>12, <1>13

LEMMA NoPieces ==
    ASSUME NEW w \in Nat \ {0}
    PROVE  Pieces(<<>>, w) = <<>>
<1>2. PICK c : c = Ceiling(0, w)  OBVIOUS
<1>3. c \in Nat /\ c * w < 0 + w /\ c * w \in Nat  BY <1>2, CeilingIs
<1>4. c = 0
  <2> SUFFICES ASSUME c # 0 PROVE FALSE  OBVIOUS
  <2>1. 1 <= c /\ 1 * w = w  BY <1>3
  <2>2. 1 * w <= c * w  BY <1>3, <2>1, Products
  <2>3. PICK x : x = c * w  OBVIOUS
  <2> QED BY <1>3, <2>1, <2>2, <2>3
<1>5. Ceiling(Len(<<>>), w) = 0  BY <1>2, <1>4
<1>6. Pieces(<<>>, w) = [i \in 1..0 |-> First(Beyond(<<>>, (i - 1) * w), w)]
  BY <1>5 DEF Pieces
<1>7. 1..0 = {}  OBVIOUS
<1> QED BY <1>6, <1>7

LEMMA BodyEmpty ==
    ASSUME NEW key
    PROVE  Body(key, 0) = <<>> /\ Contents(0) = <<>>
<1>1. Contents(0) = <<>>  BY DEF Contents
<1>2. Chunks(0) = <<>>  BY <1>1, NoPieces, CipherAssumption DEF Chunks
<1>3. Sealed(key, Chunks(0)) = <<>>  BY <1>2 DEF Sealed
<1> QED BY <1>1, <1>3 DEF Body, FlattenSeq

LEMMA StreamCut ==
    ASSUME NEW key, NEW n \in Nat, NEW m \in Nat \ {0}
    PROVE  First(encrypt_stream(key, Contents(n)), HeaderLen + (Begin(m, SealedSize) + SealedSize))
             = encrypt_stream(key, Contents(IF Begin(m, ChunkSize) + ChunkSize < n
                                            THEN Begin(m, ChunkSize) + ChunkSize ELSE n))
<1>1. PICK h, B : h = StreamHeader(ChunkSize) /\ B = Bytes(key)  OBVIOUS
<1>2. ChunkSize \in Nat \ {0} /\ TagLen \in Nat \ {0} /\ SealedSize \in Nat \ {0} /\ HeaderLen \in Nat
  BY CipherAssumption DEF SealedSize
<1>3. Begin(m, ChunkSize) \in Nat /\ Begin(m, SealedSize) \in Nat  BY <1>2, Begins
<1>4. h \in Seq(B) /\ Len(h) = HeaderLen  BY <1>1, HeaderIs
<1>5. PICK k, e, s : /\ k = Begin(m, ChunkSize) + ChunkSize /\ e = Begin(m, SealedSize) + SealedSize
                     /\ s = Body(key, n)
  OBVIOUS
<1>6. e \in Nat /\ k \in Nat \ {0}  BY <1>2, <1>3, <1>5
<1>7. s \in Seq(B)
  <2>1. CASE n = 0
    <3>1. <<>> \in Seq(B)  OBVIOUS
    <3> QED BY <1>5, <2>1, <3>1, BodyEmpty
  <2> QED BY <1>1, <1>5, <2>1, BodyIs
<1>8. encrypt_stream(key, Contents(n)) = h \o s  BY <1>1, <1>5, StreamIs
<1>9. CASE k < n
  <2>1. e = Len(Body(key, k)) /\ e <= Len(s) /\ Body(key, k) = First(s, e)
    BY <1>5, <1>9, BodyCut
  <2>2. First(h \o s, HeaderLen + e) = h \o First(s, e)
    BY <1>4, <1>6, <1>7, <2>1, FirstJoined
  <2>3. encrypt_stream(key, Contents(k)) = h \o Body(key, k)  BY <1>1, StreamIs
  <2> QED BY <1>5, <1>8, <1>9, <2>1, <2>2, <2>3
<1>10. CASE ~(k < n)
  <2>1. Len(s) <= e
    <3>1. CASE n = 0  BY <1>5, <1>6, <3>1, BodyEmpty
    <3>2. CASE n # 0
      <4>1. PICK c : c = Ceiling(n, ChunkSize)  OBVIOUS
      <4>2. c \in Nat \ {0} /\ Begin(c, ChunkSize) < n /\ Begin(c, ChunkSize) \in Nat /\ Begin(c, SealedSize) \in Nat
        <5>1. c \in Nat \ {0} /\ Begin(c, ChunkSize) < n  BY <1>2, <3>2, <4>1, CeilingAt
        <5> QED BY <1>2, <5>1, Begins
      <4>3. c <= m
        <5>1. Begin(c, ChunkSize) < Begin(m, ChunkSize) + ChunkSize
          BY <1>2, <1>3, <1>5, <1>10, <4>2
        <5> QED BY <1>2, <4>2, <5>1, BeginsApart
      <4>4. Begin(c, SealedSize) <= Begin(m, SealedSize)
        <5>1. CASE c = m  BY <1>3, <5>1
        <5>2. CASE c < m
          <6>1. Begin(c, SealedSize) + SealedSize <= Begin(m, SealedSize)
            BY <1>2, <4>2, <5>2, Begins
          <6> QED BY <1>2, <1>3, <4>2, <6>1
        <5> QED BY <4>2, <4>3, <5>1, <5>2
      <4>5. Len(s) <= Begin(c, SealedSize) + SealedSize /\ Len(s) \in Nat
        BY <1>5, <1>7, <3>2, <4>1, BodyIs
      <4> QED BY <1>2, <1>3, <1>5, <4>2, <4>4, <4>5
    <3> QED BY <3>1, <3>2
  <2>2. PICK t, g : t = h \o s /\ g = HeaderLen + e  OBVIOUS
  <2>3. t \in Seq(B) /\ Len(t) <= g /\ g \in Nat
    <3>1. t \in Seq(B) /\ Len(t) = HeaderLen + Len(s)
      BY <1>4, <1>7, <2>2, ConcatProperties
    <3> QED BY <1>2, <1>6, <1>7, <2>1, <2>2, <3>1
  <2>4. First(t, g) = t  BY <2>3, FirstIs
  <2> QED BY <1>5, <1>8, <1>10, <2>2, <2>4
<1> QED BY <1>9, <1>10

(* The stored object, read as a whole.                                     *)
LEMMA BodyOpens ==
    ASSUME NEW key, NEW n \in Nat \ {0}
    PROVE  /\ Pieces(Body(key, n), SealedSize) = Sealed(key, Chunks(n))
           /\ DOMAIN Sealed(key, Chunks(n)) = 1..Ceiling(n, ChunkSize) /\ Ceiling(n, ChunkSize) \in Nat \ {0}
           /\ Chunks(n) = [i \in 1..Ceiling(n, ChunkSize) |-> Chunks(n)[i]] /\ FlattenSeq(Chunks(n)) = Contents(n)
           /\ \A other : \A i \in 1..Ceiling(n, ChunkSize) :
                 unseal(other, i - 1, Sealed(key, Chunks(n))[i]) = IF other = key THEN {Chunks(n)[i]} ELSE {}
<1>1. PICK c, q, t, s, B : /\ c = Ceiling(n, ChunkSize) /\ q = Chunks(n) /\ t = Sealed(key, q)
                           /\ s = Body(key, n) /\ B = Bytes(key)
  OBVIOUS
<1>2. ChunkSize \in Nat \ {0} /\ TagLen \in Nat \ {0} /\ SealedSize \in Nat \ {0}
  BY CipherAssumption DEF SealedSize
<1>3. c \in Nat \ {0}  BY <1>1, <1>2, CeilingAt
<1>4. Uniform(q, ChunkSize, B) /\ Len(q) = c /\ Laid(q, ChunkSize, Contents(n), Len(q))
  BY <1>1, <1>2, ChunksAre DEF Chunks
<1>5. Uniform(t, SealedSize, B) /\ Len(t) = c /\ s \in Seq(B) /\ Laid(t, SealedSize, s, Len(t))
  BY <1>1, BodyIs
<1>6. Len(s) # 0
  <2>1. Begin(c, SealedSize) < Len(s) /\ Begin(c, SealedSize) \in Nat
    BY <1>1, <1>2, <1>3, BodyIs, Begins
  <2> QED BY <2>1
<1>7. Pieces(s, SealedSize) = t
  <2>1. PICK p : p = Pieces(s, SealedSize)  OBVIOUS
  <2>2. Uniform(p, SealedSize, B) /\ Laid(p, SealedSize, s, Len(p)) /\ Len(p) = Ceiling(Len(s), SealedSize)
    BY <1>2, <1>5, <1>6, <2>1, PiecesAre
  <2>3. Len(p) # 0
    <3>1. Len(s) \in Nat \ {0}  BY <1>5, <1>6
    <3>2. Ceiling(Len(s), SealedSize) \in Nat \ {0}  BY <1>2, <3>1, CeilingAt
    <3> QED BY <2>2, <3>2
  <2>4. Len(t) # 0  BY <1>3, <1>5
  <2> QED BY <1>2, <1>5, <2>1, <2>2, <2>3, <2>4, DividedOnce
<1>8. FlattenSeq(q) = Contents(n)
  <2>1. FlattenSeq(q) \in Seq(B) /\ Laid(q, ChunkSize, FlattenSeq(q), Len(q))
    BY <1>2, <1>3, <1>4, Flattened
  <2>2. Contents(n) \in Seq(B)  BY <1>1, ContentsAre
  <2> QED BY <1>4, <2>1, <2>2, LaidOnly
<1>9. DOMAIN t = 1..c /\ q = [i \in 1..c |-> q[i]]  BY <1>4, <1>5 DEF Uniform
<1>10. ASSUME NEW other, NEW i \in 1..c
       PROVE  unseal(other, i - 1, t[i]) = IF other = key THEN {q[i]} ELSE {}
  <2>1. PICK m, d : m = i - 1 /\ d = q[i]  OBVIOUS
  <2>2. d \in Seq(B) /\ Len(d) \in 1..ChunkSize  BY <1>4, <2>1 DEF Uniform
  <2>3. \A j \in 1..Len(d) : d[j] = Byte(d[j].value)
    <3>1. \A j \in 1..Len(d) : d[j] = Byte(Begin(i, ChunkSize) + j)
      <4>1. \A a \in 1..Ceiling(n, ChunkSize) : \A j \in 1..Len(Pieces(Contents(n), ChunkSize)[a]) :
               Pieces(Contents(n), ChunkSize)[a][j] = Byte(Begin(a, ChunkSize) + j)
        BY <1>2, ChunksAre, Zenon
      <4> QED BY <1>1, <2>1, <4>1 DEF Chunks
    <3>2. ASSUME NEW j \in 1..Len(d) PROVE d[j] = Byte(d[j].value)
      <4>1. PICK b : b = Begin(i, ChunkSize) + j  OBVIOUS
      <4>2. d[j] = Byte(b)  BY <3>1, <4>1
      <4>3. Byte(b).value = b  BY DEF Byte
      <4> QED BY <4>2, <4>3
    <3> QED BY <3>2
  <2>4. m \in Nat /\ d # <<>>  BY <2>1, <2>2
  <2>5. t[i] = seal(key, m, d)  BY <1>1, <1>2, <1>4, <2>1, SealedAre
  <2>6. unseal(other, m, seal(key, m, d)) = IF other = key THEN {d} ELSE {}
    BY <1>1, <2>2, <2>3, <2>4, Opens
  <2> QED BY <2>1, <2>5, <2>6
<1> QED BY <1>1, <1>3, <1>7, <1>8, <1>9, <1>10

HasKey(key) == \E k \in DOMAIN Keyring : Keyring[k] = key

LEMMA StreamSeq ==
    ASSUME NEW key, NEW n \in Nat
    PROVE  /\ Body(key, n) \in Seq(Bytes(key)) /\ encrypt_stream(key, Contents(n)) \in Seq(Bytes(key))
           /\ Len(encrypt_stream(key, Contents(n))) = HeaderLen + Len(Body(key, n))
           /\ is_encrypted(encrypt_stream(key, Contents(n)))
           /\ encrypt_stream(key, Contents(n))[1].counter = ChunkSize
           /\ Beyond(encrypt_stream(key, Contents(n)), HeaderLen) = Body(key, n)
<1>1. PICK h, B, s, o : /\ h = StreamHeader(ChunkSize) /\ B = Bytes(key) /\ s = Body(key, n)
                        /\ o = encrypt_stream(key, Contents(n))
  OBVIOUS
<1>2. h \in Seq(B) /\ Len(h) = HeaderLen /\ h[1].seal = "TRENC" /\ h[1].counter = ChunkSize
  BY <1>1, HeaderIs
<1>3. s \in Seq(B)
  <2>1. CASE n = 0
    <3>1. <<>> \in Seq(B)  OBVIOUS
    <3> QED BY <1>1, <2>1, <3>1, BodyEmpty
  <2> QED BY <1>1, <2>1, BodyIs
<1>4. o = h \o s  BY <1>1, StreamIs
<1>5. o \in Seq(B) /\ Len(o) = HeaderLen + Len(s) /\ Beyond(o, HeaderLen) = s
  <2>1. o \in Seq(B) /\ Len(o) = HeaderLen + Len(s)
    BY <1>2, <1>3, <1>4, ConcatProperties
  <2> QED BY <1>2, <1>3, <1>4, <2>1, BeyondJoined
<1>6. o[1] = h[1]
  <2>1. 1 \in 1..(Len(h) + Len(s)) /\ 1 <= Len(h)  BY <1>2, <1>3, CipherAssumption
  <2>2. \A i \in 1..(Len(h) + Len(s)) : (h \o s)[i] = IF i <= Len(h) THEN h[i] ELSE s[i - Len(h)]
    BY <1>2, <1>3, ConcatProperties
  <2> QED BY <1>4, <2>1, <2>2
<1>7. o # <<>>  BY <1>3, <1>5, CipherAssumption
<1> QED BY <1>1, <1>2, <1>3, <1>5, <1>6, <1>7 DEF is_encrypted

LEMMA Decrypts ==
    ASSUME NEW key, NEW n \in Nat
    PROVE  iter_decrypt(encrypt_stream(key, Contents(n))) =
             IF n = 0 THEN {<<>>} ELSE IF HasKey(key) THEN {Contents(n)} ELSE {}
<1>1. PICK o : o = encrypt_stream(key, Contents(n))  OBVIOUS
<1>2. /\ is_encrypted(o) /\ o[1].counter = ChunkSize /\ Beyond(o, HeaderLen) = Body(key, n)
      /\ Len(o) = HeaderLen + Len(Body(key, n)) /\ Len(Body(key, n)) \in Nat
  <2>1. Body(key, n) \in Seq(Bytes(key))  BY StreamSeq
  <2> QED BY <1>1, <2>1, StreamSeq
<1>3. ~(Len(o) < HeaderLen)  BY <1>2, CipherAssumption
<1>4. PICK p : p = Pieces(Body(key, n), SealedSize)  OBVIOUS
<1>5. PICK fit : fit = {k \in DOMAIN Keyring : unseal(Keyring[k], 0, p[1]) # {}}
  OBVIOUS
<1>6. PICK opened : opened = [i \in DOMAIN p |-> unseal(Keyring[Min(fit)], i - 1, p[i])]
  OBVIOUS
<1>7. iter_decrypt(o) =
        IF p = <<>> THEN {<<>>}
        ELSE IF fit = {} \/ {} \in Range(opened) THEN {}
        ELSE {FlattenSeq([i \in DOMAIN opened |-> CHOOSE data \in opened[i] : TRUE])}
  BY <1>2, <1>3, <1>4, <1>5, <1>6 DEF iter_decrypt, SealedSize
<1>8. CASE n = 0
  <2>1. SealedSize \in Nat \ {0}  BY CipherAssumption DEF SealedSize
  <2>2. p = <<>>  BY <1>4, <1>8, <2>1, BodyEmpty, NoPieces
  <2> QED BY <1>1, <1>7, <1>8, <2>2
<1>9. CASE n # 0
  <2>1. PICK c, q : c = Ceiling(n, ChunkSize) /\ q = Chunks(n)  OBVIOUS
  <2>2. /\ DOMAIN p = 1..c /\ c \in Nat \ {0} /\ q = [i \in 1..c |-> q[i]] /\ FlattenSeq(q) = Contents(n)
        /\ \A other : \A i \in 1..c : unseal(other, i - 1, p[i]) = IF other = key THEN {q[i]} ELSE {}
    <3>1. n \in Nat \ {0}  BY <1>9
    <3>2. \A other : \A i \in 1..Ceiling(n, ChunkSize) :
             unseal(other, i - 1, Sealed(key, Chunks(n))[i]) = IF other = key THEN {Chunks(n)[i]} ELSE {}
      BY <3>1, BodyOpens, Zenon
    <3>3. p = Sealed(key, Chunks(n))  BY <1>4, <3>1, BodyOpens
    <3>4. DOMAIN p = 1..c /\ c \in Nat \ {0} /\ q = [i \in 1..c |-> q[i]] /\ FlattenSeq(q) = Contents(n)
      BY <2>1, <3>1, <3>3, BodyOpens
    <3> QED BY <2>1, <3>2, <3>3, <3>4
  <2>3. p # <<>> /\ 1 \in 1..c /\ 1 - 1 = 0  BY <2>2
  <2>4. fit = {k \in DOMAIN Keyring : Keyring[k] = key}
    <3>1. \A other : unseal(other, 0, p[1]) = IF other = key THEN {q[1]} ELSE {}
      BY <2>2, <2>3
    <3> QED BY <1>5, <3>1
  <2>5. CASE ~HasKey(key)
    <3>1. fit = {}  BY <2>4, <2>5 DEF HasKey
    <3> QED BY <1>1, <1>7, <1>9, <2>3, <2>5, <3>1
  <2>6. CASE HasKey(key)
    <3>1. fit # {} /\ fit \in SUBSET Nat  BY <2>4, <2>6, CipherAssumption DEF HasKey
    <3>2. Keyring[Min(fit)] = key  BY <2>4, <3>1, MinIsLeast
    <3>3. opened = [i \in 1..c |-> {q[i]}]  BY <1>6, <2>2, <3>2
    <3>4. {} \notin Range(opened)  BY <3>3 DEF Range
    <3>5. [i \in DOMAIN opened |-> CHOOSE data \in opened[i] : TRUE] = q
      <4>1. ASSUME NEW i \in 1..c PROVE (CHOOSE data \in opened[i] : TRUE) = q[i]
        BY <3>3
      <4>2. DOMAIN opened = 1..c  BY <3>3
      <4> QED BY <2>2, <4>1, <4>2
    <3> QED BY <1>1, <1>7, <1>9, <2>2, <2>3, <2>6, <3>1, <3>4, <3>5
  <2> QED BY <2>5, <2>6
<1> QED BY <1>8, <1>9

LEMMA CeilingGrows ==
    ASSUME NEW w \in Nat \ {0}, NEW n \in Nat \ {0}, NEW m \in Nat, n <= m
    PROVE  Ceiling(n, w) <= Ceiling(m, w) /\ Ceiling(n, w) \in Nat \ {0} /\ Ceiling(m, w) \in Nat \ {0}
<1>1. PICK c, d : c = Ceiling(n, w) /\ d = Ceiling(m, w)  OBVIOUS
<1>2. m \in Nat \ {0}  OBVIOUS
<1>3. c \in Nat \ {0} /\ Begin(c, w) < n /\ n <= Begin(c, w) + w  BY <1>1, CeilingAt
<1>4. d \in Nat \ {0} /\ Begin(d, w) < m /\ m <= Begin(d, w) + w
  BY <1>1, <1>2, CeilingAt
<1>5. Begin(c, w) \in Nat /\ Begin(d, w) \in Nat  BY <1>3, <1>4, Begins
<1>6. Begin(c, w) < Begin(d, w) + w  BY <1>3, <1>4, <1>5
<1> QED BY <1>1, <1>3, <1>4, <1>6, BeginsApart

LEMMA FirstOfFirst ==
    ASSUME NEW B, NEW s \in Seq(B), NEW n \in Nat, NEW m \in Nat, m <= n
    PROVE  First(First(s, n), m) = First(s, m)
<1>1. PICK t : t = First(s, n)  OBVIOUS
<1>2. CASE Len(s) <= n
  <2>1. First(s, n) = s  BY <1>2, FirstIs
  <2> QED BY <2>1
<1>3. CASE ~(Len(s) <= n)
  <2>1. n <= Len(s) /\ m <= Len(s)  BY <1>3
  <2>2. t \in Seq(B) /\ Len(t) = n /\ \A p \in 1..n : t[p] = s[p]
    BY <1>1, <2>1, FirstIs
  <2>3. PICK f, g : f = First(t, m) /\ g = First(s, m)  OBVIOUS
  <2>4. f \in Seq(B) /\ Len(f) = m /\ \A p \in 1..m : f[p] = t[p]
    BY <2>2, <2>3, FirstIs
  <2>5. g \in Seq(B) /\ Len(g) = m /\ \A p \in 1..m : g[p] = s[p]
    BY <2>1, <2>3, FirstIs
  <2>6. \A p \in 1..m : f[p] = g[p]  BY <2>2, <2>4, <2>5
  <2>7. f = g  BY <2>4, <2>5, <2>6, SeqEqual
  <2> QED BY <1>1, <2>3, <2>7
<1> QED BY <1>2, <1>3

(* The slack has room for the header, the tags and the rest of the chunk   *)
(* of the last byte asked for.                                             *)
SlackFor(max) == HeaderLen + Ceiling(max, ChunkSize) * TagLen <= Slack /\ ChunkSize <= ChunkSlack

LEMMA BoundIs ==
    ASSUME NEW max \in Nat \ {0}, SlackFor(max)
    PROVE  \E c \in Nat \ {0} :
              /\ c = Ceiling(max, ChunkSize) /\ c * SealedSize = Begin(c, SealedSize) + SealedSize
              /\ max <= Begin(c, ChunkSize) + ChunkSize /\ Begin(c, ChunkSize) \in Nat /\ Begin(c, SealedSize) \in Nat
              /\ HeaderLen + (Begin(c, SealedSize) + SealedSize) < ciphertext_bound(max)
              /\ HeaderLen + c * TagLen <= Slack /\ c * TagLen \in Nat
              /\ ciphertext_bound(max) \in Nat /\ ciphertext_bound(max) > max + Slack
<1>1. PICK c : c = Ceiling(max, ChunkSize)  OBVIOUS
<1>2. /\ ChunkSize \in Nat \ {0} /\ TagLen \in Nat \ {0} /\ SealedSize \in Nat \ {0} /\ HeaderLen \in Nat
      /\ Slack \in Nat /\ ChunkSlack \in Nat /\ ChunkSize <= ChunkSlack
  BY CipherAssumption DEF SealedSize, SlackFor
<1>3. c \in Nat \ {0} /\ Begin(c, ChunkSize) < max /\ max <= Begin(c, ChunkSize) + ChunkSize
  BY <1>1, <1>2, CeilingAt
<1>4. Begin(c, ChunkSize) \in Nat /\ Begin(c, SealedSize) \in Nat /\ Begin(c, TagLen) \in Nat
  BY <1>2, <1>3, Begins
<1>5. PICK x : x = c * TagLen  OBVIOUS
<1>6. x \in Nat /\ HeaderLen + x <= Slack  BY <1>1, <1>2, <1>3, <1>5 DEF SlackFor
<1>7. c * SealedSize = Begin(c, SealedSize) + SealedSize
  <2>1. PICK y : y = c * SealedSize  OBVIOUS
  <2>2. y \in Int /\ Begin(c, SealedSize) = y - SealedSize
    BY <1>2, <1>3, <2>1, Products DEF Begin
  <2> QED BY <1>2, <2>1, <2>2
<1>8. Begin(c, SealedSize) + SealedSize = Begin(c, ChunkSize) + ChunkSize + x
  <2>1. PICK d : d = c - 1  OBVIOUS
  <2>2. d \in Nat /\ d * (ChunkSize + TagLen) = d * ChunkSize + d * TagLen
    BY <1>2, <1>3, <2>1
  <2>3. Begin(c, SealedSize) = Begin(c, ChunkSize) + Begin(c, TagLen)
    BY <2>1, <2>2 DEF Begin, SealedSize
  <2>4. Begin(c, TagLen) = x - TagLen  BY <1>2, <1>3, <1>5, Products DEF Begin
  <2> QED BY <1>2, <1>4, <1>6, <2>3, <2>4 DEF SealedSize
<1>9. PICK b : b = ciphertext_bound(max)  OBVIOUS
<1>10. b = max + Slack + ChunkSlack  BY <1>9 DEF ciphertext_bound
<1>11. b \in Nat /\ b > max + Slack /\ HeaderLen + (Begin(c, SealedSize) + SealedSize) < b
  BY <1>2, <1>3, <1>4, <1>6, <1>8, <1>10
<1> QED BY <1>1, <1>3, <1>4, <1>5, <1>6, <1>7, <1>9, <1>11

LEMMA ReadsSealed ==
    ASSUME NEW key, NEW n \in Nat, NEW max \in Nat \ {0}, SlackFor(max), Keyring # <<>>
    PROVE  read_object(encrypt_stream(key, Contents(n)), max) =
             IF n = 0 \/ HasKey(key) THEN {Contents(IF max < n THEN max ELSE n)} ELSE {}
<1>0. /\ ChunkSize \in Nat \ {0} /\ TagLen \in Nat \ {0} /\ SealedSize \in Nat \ {0} /\ HeaderLen \in Nat \ {0}
      /\ Slack \in Nat
  BY CipherAssumption DEF SealedSize
<1>1. PICK c \in Nat \ {0} :
              /\ c = Ceiling(max, ChunkSize) /\ c * SealedSize = Begin(c, SealedSize) + SealedSize
              /\ max <= Begin(c, ChunkSize) + ChunkSize /\ Begin(c, ChunkSize) \in Nat /\ Begin(c, SealedSize) \in Nat
              /\ HeaderLen + (Begin(c, SealedSize) + SealedSize) < ciphertext_bound(max)
              /\ HeaderLen + c * TagLen <= Slack /\ c * TagLen \in Nat
              /\ ciphertext_bound(max) \in Nat /\ ciphertext_bound(max) > max + Slack
  BY BoundIs
<1>2. PICK o, b, raw, B, e, z : /\ o = encrypt_stream(key, Contents(n)) /\ b = ciphertext_bound(max)
                             /\ raw = First(o, b) /\ B = Bytes(key)
                             /\ e = HeaderLen + (Begin(c, SealedSize) + SealedSize)
                             /\ z = Begin(c, ChunkSize) + ChunkSize
  OBVIOUS
<1>3. /\ b \in Nat /\ b > max + Slack /\ e \in Nat /\ e < b /\ z \in Nat /\ max <= z /\ HeaderLen <= Slack
      /\ HeaderLen + c * SealedSize = e
  <2>1. b \in Nat /\ b > max + Slack /\ e < b /\ max <= z  BY <1>1, <1>2, Zenon
  <2>2. HeaderLen + c * SealedSize = e  BY <1>1, <1>2, Zenon
  <2>3. e \in Nat /\ z \in Nat
    <3>1. Begin(c, ChunkSize) \in Nat /\ Begin(c, SealedSize) \in Nat  BY <1>1
    <3> QED BY <1>0, <1>2, <3>1
  <2>4. HeaderLen <= Slack
    <3>1. PICK y : y = c * TagLen  OBVIOUS
    <3>2. y \in Nat /\ HeaderLen + y <= Slack  BY <1>1, <3>1, Zenon
    <3> QED BY <1>0, <3>2
  <2> QED BY <2>1, <2>2, <2>3, <2>4
<1>4. o \in Seq(B) /\ Len(o) = HeaderLen + Len(Body(key, n)) /\ Body(key, n) \in Seq(B)
  BY <1>2, StreamSeq
<1>5. o[1].seal = "TRENC" /\ o[1].counter = ChunkSize
  BY <1>2, StreamSeq DEF is_encrypted
<1>6. /\ raw \in Seq(B) /\ (b <= Len(o) => Len(raw) = b) /\ (Len(o) <= b => raw = o)
      /\ Len(raw) <= Len(o) /\ Len(raw) <= b
  BY <1>2, <1>3, <1>4, FirstIs
<1>7. Len(raw) >= HeaderLen /\ Len(raw) \in Nat /\ Len(o) \in Nat
  BY <1>0, <1>3, <1>4, <1>6
<1>8. raw[1] = o[1] /\ raw # <<>>
  <2>1. 1 \in 1..Len(raw) /\ raw # <<>>  BY <1>0, <1>6, <1>7
  <2>2. \A p \in 1..Len(raw) : raw[p] = o[p]
    <3>1. o \in Seq(B) /\ b \in Nat  BY <1>3, <1>4
    <3>2. \A p \in 1..Len(First(o, b)) : First(o, b)[p] = o[p]  BY <3>1, FirstIs
    <3> QED BY <1>2, <3>2
  <2> QED BY <2>1, <2>2
<1>9. is_encrypted(raw) /\ raw[1].counter = ChunkSize  BY <1>5, <1>8 DEF is_encrypted
<1>10. PICK usable, u : /\ usable = IF Len(raw) < b THEN Len(raw)
                                    ELSE HeaderLen + whole_chunks(Len(raw), ChunkSize) * SealedSize
                        /\ u = IF usable < e THEN usable ELSE e
  OBVIOUS
<1>11. First(raw, u) = First(o, e)
  <2>1. CASE Len(raw) < b
    <3>1. raw = o /\ usable = Len(o)  BY <1>3, <1>6, <1>7, <1>10, <2>1
    <3>2. CASE usable < e
      <4>1. u = Len(o) /\ Len(o) <= e  BY <1>3, <1>7, <1>10, <3>1, <3>2
      <4>2. First(o, Len(o)) = o /\ First(o, e) = o
        <5>1. o \in Seq(B) /\ Len(o) \in Nat /\ Len(o) <= Len(o) /\ e \in Nat
          BY <1>3, <1>4, <1>7
        <5>2. First(o, Len(o)) = o  BY <5>1, FirstIs
        <5> QED BY <4>1, <5>1, <5>2, FirstIs
      <4> QED BY <3>1, <4>1, <4>2
    <3>3. CASE ~(usable < e)  BY <1>10, <3>1, <3>3
    <3> QED BY <3>2, <3>3
  <2>2. CASE ~(Len(raw) < b)
    <3>1. Len(raw) = b  BY <1>3, <1>6, <1>7, <2>2
    <3>2. PICK m, k : m = b - HeaderLen /\ k = whole_chunks(b, ChunkSize)  OBVIOUS
    <3>3. k = m \div SealedSize /\ m \in Nat
      BY <1>0, <1>3, <3>2 DEF whole_chunks, SealedSize
    <3>4. k \in Nat /\ m < k * SealedSize + SealedSize
      <4>1. k \in Nat /\ m % SealedSize \in 0..(SealedSize - 1) /\ m = SealedSize * k + (m % SealedSize)
        BY <1>0, <3>3
      <4>2. PICK r, y : r = m % SealedSize /\ y = k * SealedSize  OBVIOUS
      <4>3. SealedSize * k = y /\ y \in Nat  BY <1>0, <4>1, <4>2
      <4> QED BY <1>0, <4>1, <4>2, <4>3
    <3>5. ~(k < c)
      <4> SUFFICES ASSUME k < c PROVE FALSE  OBVIOUS
      <4>1. k * SealedSize + SealedSize <= c * SealedSize /\ k * SealedSize \in Int
        <5>1. k \in Int /\ c \in Int /\ SealedSize \in Nat \ {0}  BY <1>0, <3>4
        <5> QED BY <5>1, Products
      <4>2. PICK x, y : x = c * SealedSize /\ y = k * SealedSize  OBVIOUS
      <4>3. y + SealedSize <= x /\ HeaderLen + x = e /\ m < y + SealedSize /\ y \in Int
        BY <1>3, <3>4, <4>1, <4>2, Zenon
      <4>4. x \in Int  BY <1>0, <4>2
      <4>5. m = b - HeaderLen /\ e < b /\ b \in Nat /\ HeaderLen \in Nat /\ SealedSize \in Nat
        BY <1>0, <1>3, <3>2
      <4> QED BY <4>3, <4>4, <4>5
    <3>6. k * SealedSize >= c * SealedSize
      <4>1. c <= k  BY <1>1, <3>4, <3>5
      <4>2. c * SealedSize <= k * SealedSize  BY <1>0, <1>1, <3>4, <4>1, Products
      <4>3. c * SealedSize \in Int /\ k * SealedSize \in Int  BY <1>0, <1>1, <3>4
      <4> QED BY <4>2, <4>3
    <3>7. u = e
      <4>1. PICK x, y : x = c * SealedSize /\ y = k * SealedSize  OBVIOUS
      <4>2. usable = HeaderLen + y /\ e = HeaderLen + x /\ y >= x /\ x \in Int /\ y \in Int
        <5>1. usable = HeaderLen + whole_chunks(Len(raw), ChunkSize) * SealedSize
          BY <1>10, <2>2
        <5>2. usable = HeaderLen + y  BY <3>1, <3>2, <4>1, <5>1
        <5>3. e = HeaderLen + x /\ y >= x  BY <1>3, <3>6, <4>1, Zenon
        <5>4. x \in Int /\ y \in Int  BY <1>0, <3>4, <4>1
        <5> QED BY <5>2, <5>3, <5>4
      <4> QED BY <1>0, <1>10, <4>2
    <3> QED BY <1>2, <1>3, <1>4, <3>7, FirstOfFirst
  <2> QED BY <2>1, <2>2
<1>12. PICK k : k = IF z < n THEN z ELSE n  OBVIOUS
<1>13. /\ k \in Nat /\ (k = 0 <=> n = 0) /\ (max <= n => max <= k) /\ (n <= max => k = n)
  BY <1>3, <1>12
<1>14. First(o, e) = encrypt_stream(key, Contents(k))  BY <1>1, <1>2, <1>12, StreamCut
<1>15. iter_decrypt(First(raw, u)) = IF n = 0 \/ HasKey(key) THEN {Contents(k)} ELSE {}
  <2>1. iter_decrypt(First(raw, u)) = IF k = 0 THEN {<<>>} ELSE IF HasKey(key) THEN {Contents(k)} ELSE {}
    BY <1>11, <1>13, <1>14, Decrypts
  <2>2. Contents(0) = <<>>  BY BodyEmpty
  <2> QED BY <1>13, <2>1, <2>2
<1>16. decrypt_prefix(raw, max, Len(raw) < b) = {First(plaintext, max) : plaintext \in iter_decrypt(First(raw, u))}
  <2>1. max # 0 /\ ~(Len(raw) < HeaderLen)  BY <1>0, <1>7
  <2>2. /\ usable = IF Len(raw) < b THEN Len(raw)
                    ELSE HeaderLen + whole_chunks(Len(raw), ChunkSize) * (ChunkSize + TagLen)
        /\ e = HeaderLen + Ceiling(max, ChunkSize) * (ChunkSize + TagLen)
    BY <1>1, <1>3, <1>10 DEF SealedSize
  <2> QED BY <1>9, <1>10, <2>1, <2>2 DEF decrypt_prefix
<1>17. PICK f : f = Contents(IF max < n THEN max ELSE n)  OBVIOUS
<1>18. First(Contents(k), max) = f
  <2>1. First(Contents(k), max) = Contents(IF max < k THEN max ELSE k)
    BY <1>13, ContentsFirst
  <2>2. (IF max < k THEN max ELSE k) = IF max < n THEN max ELSE n  BY <1>3, <1>12
  <2> QED BY <1>17, <2>1, <2>2
<1>19. Len(f) >= max \/ Len(raw) < b
  <2>1. CASE max <= n
    <3>1. (IF max < n THEN max ELSE n) = max  BY <2>1
    <3>2. Len(f) = max  BY <1>17, <3>1, ContentsAre
    <3> QED BY <3>2
  <2>2. CASE ~(max <= n)
    <3>1. CASE n = 0
      <4>1. Len(o) = HeaderLen  BY <1>0, <1>4, <3>1, BodyEmpty
      <4> QED BY <1>0, <1>3, <1>6, <1>7, <4>1
    <3>2. CASE n # 0
      <4>1. PICK d, x, y : d = Ceiling(n, ChunkSize) /\ x = d * TagLen /\ y = c * TagLen
        OBVIOUS
      <4>2. d <= c /\ d \in Nat
        <5>1. n \in Nat \ {0} /\ n <= max /\ max \in Nat  BY <2>2, <3>2
        <5>2. c = Ceiling(max, ChunkSize)  BY <1>1
        <5> QED BY <1>0, <4>1, <5>1, <5>2, CeilingGrows
      <4>3. x <= y /\ x \in Nat /\ y \in Nat /\ HeaderLen + y <= Slack
        <5>1. d * TagLen <= c * TagLen  BY <1>0, <4>2, Products
        <5>2. y \in Nat /\ HeaderLen + y <= Slack  BY <1>1, <4>1, Zenon
        <5>3. x \in Nat  BY <1>0, <4>1, <4>2
        <5> QED BY <4>1, <5>1, <5>2, <5>3
      <4>4. Len(Body(key, n)) = n + x  BY <3>2, <4>1, BodyIs
      <4>5. Len(o) < b  BY <1>0, <1>3, <1>4, <2>2, <4>3, <4>4
      <4> QED BY <1>3, <1>6, <1>7, <4>5
    <3> QED BY <3>1, <3>2
  <2> QED BY <2>1, <2>2
<1>20. read_object(o, max) =
          {plaintext \in decrypt_prefix(raw, max, Len(raw) < b) : Len(plaintext) >= max \/ Len(raw) < b}
  BY <1>2, <1>9 DEF read_object
<1>21. CASE n = 0 \/ HasKey(key)
  <2>1. decrypt_prefix(raw, max, Len(raw) < b) = {f}  BY <1>15, <1>16, <1>18, <1>21
  <2> QED BY <1>2, <1>17, <1>19, <1>20, <1>21, <2>1
<1>22. CASE ~(n = 0 \/ HasKey(key))
  <2>1. decrypt_prefix(raw, max, Len(raw) < b) = {}  BY <1>15, <1>16, <1>22
  <2> QED BY <1>2, <1>20, <1>22, <2>1
<1> QED BY <1>21, <1>22

(* What a browser has put there is read as it is.                          *)
LEMMA ClearIs ==
    ASSUME NEW n \in Nat, NEW m \in Nat
    PROVE  ~is_encrypted(First(Contents(n), m)) /\ ~is_encrypted(Contents(n))
<1>1. ASSUME NEW k \in Nat PROVE ~is_encrypted(Contents(k))
  <2>1. CASE k = 0  BY <2>1, BodyEmpty DEF is_encrypted
  <2>2. CASE k # 0
    <3>1. 1 \in 1..k  BY <2>2
    <3>2. Contents(k)[1].seal = "clear"  BY <3>1 DEF Contents, Byte
    <3> QED BY <3>2 DEF is_encrypted
  <2> QED BY <2>1, <2>2
<1> QED BY <1>1, ContentsFirst

LEMMA ReadsClear ==
    ASSUME NEW n \in Nat, NEW max \in Nat
    PROVE  read_object(Contents(n), max) = {Contents(IF max < n THEN max ELSE n)}
<1>1. PICK b : b = ciphertext_bound(max)  OBVIOUS
<1>2. b \in Nat /\ max <= b  BY <1>1, CipherAssumption DEF ciphertext_bound
<1>3. ~is_encrypted(First(Contents(n), b))  BY <1>2, ClearIs
<1>4. read_object(Contents(n), max) = {First(First(Contents(n), b), max)}
  BY <1>1, <1>3 DEF read_object
<1>5. First(First(Contents(n), b), max) = First(Contents(n), max)
  <2>1. PICK s, B : s = Contents(n) /\ B = Bytes("clear")  OBVIOUS
  <2>2. s \in Seq(B)  BY <2>1, ContentsAre
  <2>3. First(First(s, b), max) = First(s, max)  BY <1>2, <2>2, FirstOfFirst
  <2> QED BY <2>1, <2>3
<1>6. First(Contents(n), max) = Contents(IF max < n THEN max ELSE n)  BY ContentsFirst
<1> QED BY <1>4, <1>5, <1>6

----------------------------------------------------------------------------
(* What the agents read                                                    *)

(* The key of a file is gone, so neither the agent nor the browser has it. *)
Keyless(z) == z.key # "clear" /\ ~HasKey(z.key) /\ z.actual # 0

(* What was read of a file are its first bytes; an offset to go on from is *)
(* within it, the end is its end, and nothing is read of a lost one.       *)
Served(p, z) ==
    /\ z \in [recorded : Nat, actual : Nat, key : STRING]
    /\ p.status \in {"none", "more", "end", "failed"}
    /\ \E n \in 0..z.actual : /\ p.got = Contents(n)
                              /\ p.status = "end" => n = z.actual
                              /\ p.status = "more" => n < z.actual
    /\ p.status = "failed" => Keyless(z)
    /\ p.got # <<>> => ~Keyless(z)

(* What is sealed was sealed while keys were configured, and no row puts a *)
(* file within the limit that is beyond it.                                *)
Keyed(z) == Keyring # <<>> \/ z.key = "clear"
Measured(z) == z.recorded > MaxDownload \/ z.actual <= MaxDownload

Serving == /\ page = [f \in Files |-> page[f]] /\ size = [f \in Files |-> size[f]]
           /\ \A f \in Files : Served(page[f], size[f]) /\ Keyed(size[f]) /\ Measured(size[f])

(* The stored object in one piece and up to a bound.                       *)
ObjectOf(z) == IF z.key = "clear" THEN Contents(z.actual) ELSE encrypt_stream(z.key, Contents(z.actual))

LEMMA SlackIs == ASSUME NEW max \in Nat \ {0}, max <= MaxDownload PROVE SlackFor(max)
<1>1. PICK c, d, x, y : /\ c = Ceiling(max, ChunkSize) /\ d = Ceiling(MaxDownload, ChunkSize)
                        /\ x = c * TagLen /\ y = d * TagLen
  OBVIOUS
<1>2. MaxDownload \in Nat /\ ChunkSize \in Nat \ {0} /\ TagLen \in Nat \ {0} /\ HeaderLen \in Nat /\ Slack \in Nat
  BY McpAssumption, CipherAssumption
<1>3. c <= d /\ c \in Nat /\ d \in Nat  BY <1>1, <1>2, CeilingGrows
<1>4. c * TagLen <= d * TagLen  BY <1>2, <1>3, Products
<1>5. x \in Nat /\ y \in Nat /\ x <= y  BY <1>1, <1>2, <1>3, <1>4
<1>6. HeaderLen + y <= Slack /\ ChunkSize <= ChunkSlack  BY <1>1, McpAssumption
<1>7. HeaderLen + x <= Slack  BY <1>2, <1>5, <1>6
<1> QED BY <1>1, <1>6, <1>7 DEF SlackFor

LEMMA ReadsStored ==
    ASSUME NEW z \in [recorded : Nat, actual : Nat, key : STRING], Keyed(z), NEW max \in Nat \ {0}, max <= MaxDownload
    PROVE  read_object(ObjectOf(z), max) = IF Keyless(z) THEN {} ELSE {Contents(IF max < z.actual THEN max ELSE z.actual)}
<1>1. z.actual \in Nat  OBVIOUS
<1>2. CASE z.key = "clear"
  <2>1. ObjectOf(z) = Contents(z.actual) /\ ~Keyless(z)  BY <1>2 DEF ObjectOf, Keyless
  <2> QED BY <1>1, <2>1, ReadsClear
<1>3. CASE z.key # "clear"
  <2>1. ObjectOf(z) = encrypt_stream(z.key, Contents(z.actual)) /\ Keyring # <<>>
    BY <1>3 DEF ObjectOf, Keyed
  <2>2. read_object(encrypt_stream(z.key, Contents(z.actual)), max) =
          IF z.actual = 0 \/ HasKey(z.key) THEN {Contents(IF max < z.actual THEN max ELSE z.actual)} ELSE {}
    BY <1>1, <2>1, SlackIs, ReadsSealed
  <2> QED BY <1>3, <2>1, <2>2 DEF Keyless
<1> QED BY <1>2, <1>3

LEMMA StreamsStored ==
    ASSUME NEW z \in [recorded : Nat, actual : Nat, key : STRING]
    PROVE  iter_decrypted_object(ObjectOf(z)) = IF Keyless(z) THEN {} ELSE {Contents(z.actual)}
<1>1. z.actual \in Nat  OBVIOUS
<1>2. CASE z.key = "clear"
  <2>1. ObjectOf(z) = Contents(z.actual) /\ ~Keyless(z) /\ ~is_encrypted(Contents(z.actual))
    BY <1>1, <1>2, ClearIs DEF ObjectOf, Keyless
  <2> QED BY <2>1 DEF iter_decrypted_object
<1>3. CASE z.key # "clear"
  <2>1. ObjectOf(z) = encrypt_stream(z.key, Contents(z.actual))  BY <1>3 DEF ObjectOf
  <2>2. is_encrypted(encrypt_stream(z.key, Contents(z.actual)))  BY <1>1, StreamSeq
  <2>3. iter_decrypted_object(ObjectOf(z)) = iter_decrypt(encrypt_stream(z.key, Contents(z.actual)))
    BY <2>1, <2>2 DEF iter_decrypted_object
  <2>4. iter_decrypt(encrypt_stream(z.key, Contents(z.actual))) =
          IF z.actual = 0 THEN {<<>>} ELSE IF HasKey(z.key) THEN {Contents(z.actual)} ELSE {}
    BY <1>1, Decrypts
  <2> QED BY <1>3, <2>3, <2>4, BodyEmpty DEF Keyless
<1> QED BY <1>2, <1>3

(* A page is what follows what was read before.                            *)
LEMMA PageJoins ==
    ASSUME NEW m \in Nat, NEW a \in Nat, NEW e \in Nat, NEW k \in Nat, a <= k, a <= e, e <= m
    PROVE  /\ SubSeq(Contents(k), 1, a) \o SubSeq(Contents(m), a + 1, e) = Contents(e)
           /\ Len(SubSeq(Contents(m), a + 1, e)) = e - a
<1>1. PICK B, s, t, u, v : /\ B = Bytes("clear") /\ s = Contents(k) /\ t = Contents(m)
                           /\ u = SubSeq(s, 1, a) /\ v = SubSeq(t, a + 1, e)
  OBVIOUS
<1>2. s \in Seq(B) /\ Len(s) = k /\ \A p \in 1..k : s[p] = Byte(p)  BY <1>1, ContentsAre
<1>3. t \in Seq(B) /\ Len(t) = m /\ \A p \in 1..m : t[p] = Byte(p)  BY <1>1, ContentsAre
<1>4. u \in Seq(B) /\ Len(u) = a /\ \A p \in 1..a : u[p] = Byte(p)
  <2>1. \A i \in 1..a : s[i] \in B  BY <1>2
  <2>2. /\ SubSeq(s, 1, a) \in Seq(B) /\ Len(SubSeq(s, 1, a)) = a
        /\ \A p \in 1..a : SubSeq(s, 1, a)[p] = s[p]
    BY <1>2, <2>1
  <2>3. \A p \in 1..a : p \in 1..k  OBVIOUS
  <2> QED BY <1>1, <1>2, <2>2, <2>3
<1>5. v \in Seq(B) /\ Len(v) = e - a /\ \A p \in 1..(e - a) : v[p] = Byte(a + p)
  <2>1. \A i \in (a + 1)..e : t[i] \in B  BY <1>3
  <2>2. /\ SubSeq(t, a + 1, e) \in Seq(B)
        /\ Len(SubSeq(t, a + 1, e)) = IF a + 1 <= e THEN e - (a + 1) + 1 ELSE 0
        /\ \A i \in 1..(e - (a + 1) + 1) : SubSeq(t, a + 1, e)[i] = t[(a + 1) + i - 1]
    BY <1>3, <2>1, SubSeqProperties
  <2>3. e - (a + 1) + 1 = e - a /\ \A i \in Int : (a + 1) + i - 1 = a + i  OBVIOUS
  <2>4. Len(v) = e - a /\ v \in Seq(B)  BY <1>1, <2>2
  <2>5. \A i \in 1..(e - a) : v[i] = t[a + i]  BY <1>1, <2>2, <2>3
  <2>6. \A i \in 1..(e - a) : a + i \in 1..m  OBVIOUS
  <2> QED BY <1>3, <2>4, <2>5, <2>6
<1>6. PICK c, d : c = u \o v /\ d = Contents(e)  OBVIOUS
<1>7. c \in Seq(B) /\ Len(c) = e /\ \A p \in 1..e : c[p] = IF p <= a THEN u[p] ELSE v[p - a]
  <2>1. /\ c \in Seq(B) /\ Len(c) = Len(u) + Len(v)
        /\ \A p \in 1..(Len(u) + Len(v)) : c[p] = IF p <= Len(u) THEN u[p] ELSE v[p - Len(u)]
    BY <1>4, <1>5, <1>6, ConcatProperties
  <2>2. Len(u) + Len(v) = e  BY <1>4, <1>5
  <2> QED BY <1>4, <2>1, <2>2
<1>8. d \in Seq(B) /\ Len(d) = e /\ \A p \in 1..e : d[p] = Byte(p)
  BY <1>1, <1>6, ContentsAre
<1>9. ASSUME NEW p \in 1..e PROVE c[p] = d[p]
  <2>1. CASE p <= a
    <3>1. p \in 1..a  BY <2>1
    <3> QED BY <1>4, <1>7, <1>8, <2>1, <3>1
  <2>2. CASE ~(p <= a)
    <3>1. p - a \in 1..(e - a) /\ a + (p - a) = p  BY <2>2
    <3> QED BY <1>5, <1>7, <1>8, <2>2, <3>1
  <2> QED BY <2>1, <2>2
<1>10. c = d  BY <1>7, <1>8, <1>9, SeqEqual
<1> QED BY <1>1, <1>5, <1>6, <1>10

LEMMA PrefixIs ==
    ASSUME NEW n \in Nat, NEW m \in Nat, n <= m
    PROVE  IsPrefix(Contents(n), Contents(m)) /\ Len(Contents(n)) = n
<1>1. Len(Contents(n)) = n /\ Len(Contents(m)) = m  BY ContentsAre
<1>2. First(Contents(m), n) = Contents(n)
  <2>1. First(Contents(m), n) = Contents(IF n < m THEN n ELSE m)  BY ContentsFirst
  <2> QED BY <2>1
<1>3. First(Contents(m), n) = SubSeq(Contents(m), 1, n)  BY <1>1 DEF First
<1>4. SubSeq(Contents(n), 1, n) = Contents(n)
  <2>1. First(Contents(n), n) = Contents(n)  BY ContentsFirst
  <2> QED BY <1>1, <2>1 DEF First
<1> QED BY <1>1, <1>2, <1>3, <1>4 DEF IsPrefix

LEMMA ServesTruly == ASSUME Serving PROVE ServedTruly
<1> SUFFICES ASSUME NEW f \in Files
             PROVE  /\ page[f].status # "past"
                    /\ page[f].status = "end" => Len(page[f].got) = size[f].actual
                    /\ page[f].got # <<>> => \E whole \in stream_file(f) : IsPrefix(page[f].got, whole)
                    /\ page[f].status = "failed" => stream_file(f) = {}
  BY DEF ServedTruly, PagesWhole, PagesTrue
<1>1. PICK p, z : p = page[f] /\ z = size[f]  OBVIOUS
<1>2. Served(p, z)  BY <1>1 DEF Serving
<1>3. /\ z \in [recorded : Nat, actual : Nat, key : STRING] /\ p.status # "past"
      /\ (p.status = "failed" => Keyless(z)) /\ (p.got # <<>> => ~Keyless(z))
  BY <1>2 DEF Served
<1>4. PICK n \in 0..z.actual : p.got = Contents(n) /\ (p.status = "end" => n = z.actual)
  BY <1>2 DEF Served
<1>5. stream_file(f) = IF Keyless(z) THEN {} ELSE {Contents(z.actual)}
  <2>1. stream_file(f) = iter_decrypted_object(ObjectOf(z))
    BY <1>1 DEF stream_file, StoredObject, ObjectOf
  <2> QED BY <1>3, <2>1, StreamsStored
<1>6. n \in Nat /\ z.actual \in Nat /\ n <= z.actual  BY <1>3, <1>4
<1>7. IsPrefix(Contents(n), Contents(z.actual)) /\ Len(Contents(n)) = n
  BY <1>6, PrefixIs
<1> QED BY <1>1, <1>3, <1>4, <1>5, <1>7

LEMMA PageTurned ==
    ASSUME Serving, NEW c, NEW f \in Files, NEW chunk \in Nat \ {0}, size[f].recorded <= MaxDownload,
           NEW data \in read_object(StoredObject(f), read_limit(page_start(f), chunk)),
           turn_page(c, f, chunk, data)
    PROVE  \E p : page' = [page EXCEPT ![f] = p] /\ Served(p, size[f])
<1>1. PICK p, z : p = page[f] /\ z = size[f]  OBVIOUS
<1>2. Served(p, z) /\ Keyed(z) /\ Measured(z)  BY <1>1 DEF Serving
<1>3. PICK a, r : a = z.actual /\ r = z.recorded  OBVIOUS
<1>4. /\ a \in Nat /\ r \in Nat /\ r <= MaxDownload /\ a <= MaxDownload /\ MaxDownload \in Nat \ {0}
      /\ z \in [recorded : Nat, actual : Nat, key : STRING]
  <2>1. z \in [recorded : Nat, actual : Nat, key : STRING] /\ MaxDownload \in Nat \ {0}
    BY <1>2, McpAssumption DEF Served
  <2>2. a \in Nat /\ r \in Nat /\ r <= MaxDownload  BY <1>1, <1>3, <2>1
  <2>3. ~(r > MaxDownload)  BY <2>1, <2>2
  <2> QED BY <1>2, <1>3, <2>1, <2>2, <2>3 DEF Measured
<1>5. PICK n \in 0..a : p.got = Contents(n) /\ (p.status = "more" => n < a)
  BY <1>2, <1>3 DEF Served
<1>6. PICK start : start = page_start(f)  OBVIOUS
<1>7. start \in Nat /\ start <= n /\ n \in Nat /\ (start # 0 => start < a)
  <2>1. n \in Nat /\ n <= a  BY <1>4, <1>5
  <2>2. Len(Contents(n)) = n  BY <2>1, ContentsAre
  <2>3. start = IF p.status = "more" THEN n ELSE 0
    BY <1>1, <1>5, <1>6, <2>2 DEF page_start
  <2> QED BY <1>5, <2>1, <2>3
<1>8. PICK max : max = read_limit(start, chunk)  OBVIOUS
<1>9. /\ max \in Nat \ {0} /\ max <= MaxDownload
      /\ max = IF MaxDownload < start + chunk + 1 THEN MaxDownload ELSE start + chunk + 1
  BY <1>4, <1>7, <1>8 DEF read_limit, Least
<1>10. read_object(ObjectOf(z), max) = IF Keyless(z) THEN {} ELSE {Contents(IF max < a THEN max ELSE a)}
  BY <1>2, <1>3, <1>4, <1>9, ReadsStored
<1>11. data \in read_object(ObjectOf(z), max)
  BY <1>1, <1>6, <1>8 DEF StoredObject, ObjectOf
<1>12. PICK m : m = IF max < a THEN max ELSE a  OBVIOUS
<1>13. ~Keyless(z) /\ data = Contents(m)  BY <1>10, <1>11, <1>12
<1>14. m \in Nat /\ m <= a /\ m <= max /\ (max <= a => m = max) /\ (a <= max => m = a)
  BY <1>4, <1>9, <1>12
<1>15. Len(data) = m  BY <1>13, <1>14, ContentsAre
<1>16. m > 0 => start < m
  <2>1. start < start + chunk + 1  BY <1>7
  <2> QED BY <1>4, <1>7, <1>9, <1>14, <2>1
<1>17. PICK e : e = IF m < start + chunk THEN m ELSE start + chunk  OBVIOUS
<1>18. e \in Nat /\ e <= m /\ e <= start + chunk /\ start <= e /\ (m <= start + chunk => e = m) /\ (start + chunk <= m => e = start + chunk)
  <2>1. start <= m  BY <1>4, <1>7, <1>9, <1>14, <1>16
  <2> QED BY <1>7, <1>14, <1>17, <2>1
<1>19. /\ SubSeq(p.got, 1, start) \o SubSeq(data, start + 1, e) = Contents(e)
       /\ Len(SubSeq(data, start + 1, e)) = e - start
  <2>1. /\ SubSeq(Contents(n), 1, start) \o SubSeq(Contents(m), start + 1, e) = Contents(e)
        /\ Len(SubSeq(Contents(m), start + 1, e)) = e - start
    BY <1>7, <1>14, <1>18, PageJoins
  <2> QED BY <1>5, <1>13, <2>1
<1>20. PICK more : more = (m >= max /\ (m > e \/ r > e))  OBVIOUS
<1>21. page' = [page EXCEPT ![f] = [got |-> Contents(e), status |-> IF more THEN "more" ELSE "end"]]
  <2>1. ~(start >= m /\ m > 0)  BY <1>7, <1>14, <1>16
  <2>2. PICK window : window = SubSeq(data, start + 1, e)  OBVIOUS
  <2>3. start + Len(window) = e  BY <1>7, <1>18, <1>19, <2>2
  <2>4. window = SubSeq(data, start + 1, Least(m, start + chunk))
    BY <1>17, <2>2 DEF Least
  <2>5. page' = [page EXCEPT ![f] = [got |-> SubSeq(p.got, 1, start) \o window,
                                     status |-> IF more THEN "more" ELSE "end"]]
    <3>1. page' = [page EXCEPT ![f] = [got |-> SubSeq(page[f].got, 1, start) \o window,
                   status |-> IF m >= max /\ (m > e \/ r > e) THEN "more" ELSE "end"]]
      BY <1>1, <1>3, <1>6, <1>8, <1>15, <2>1, <2>3, <2>4, Zenon DEF turn_page
    <3> QED BY <1>1, <1>20, <3>1
  <2> QED BY <1>19, <2>2, <2>5
<1>22. more => e < a
  <2> SUFFICES ASSUME more PROVE e < a  OBVIOUS
  <2>1. m >= max /\ (m > e \/ r > e)  BY <1>20
  <2>2. CASE m > e  BY <1>4, <1>14, <1>18, <2>2
  <2>3. CASE ~(m > e)
    <3>1. m = e /\ r > e  BY <1>14, <1>18, <2>1, <2>3
    <3>2. m = max  BY <1>9, <1>14, <2>1
    <3>3. max = MaxDownload
      <4>1. max # start + chunk + 1  BY <1>7, <1>18, <3>1, <3>2
      <4> QED BY <1>4, <1>7, <1>9, <4>1
    <3> QED BY <1>4, <3>1, <3>2, <3>3
  <2> QED BY <2>2, <2>3
<1>23. ~more => e = a
  <2> SUFFICES ASSUME ~more, e # a PROVE FALSE  OBVIOUS
  <2>1. e < a  BY <1>4, <1>14, <1>18
  <2>2. start + chunk <= MaxDownload - 1 \/ m = a  BY <1>4, <1>7, <1>9, <1>14
  <2>3. e = start + chunk /\ start + chunk < a
    <3>1. CASE m = a  BY <1>4, <1>7, <1>14, <1>18, <2>1, <3>1
    <3>2. CASE m # a
      <4>1. m = max /\ max < a  BY <1>4, <1>9, <1>14, <3>2
      <4>2. max = start + chunk + 1  BY <1>4, <1>7, <1>9, <4>1
      <4> QED BY <1>4, <1>7, <1>18, <4>1, <4>2
    <3> QED BY <3>1, <3>2
  <2>4. max = start + chunk + 1  BY <1>4, <1>7, <1>9, <2>3
  <2>5. m = max  BY <1>4, <1>7, <1>14, <2>3, <2>4
  <2>6. m >= max /\ m > e  BY <1>7, <1>9, <2>3, <2>4, <2>5
  <2> QED BY <1>20, <2>6
<1>24. PICK q : q = [got |-> Contents(e), status |-> IF more THEN "more" ELSE "end"]
  OBVIOUS
<1>25. Served(q, z)
  <2>1. e \in 0..z.actual  BY <1>3, <1>4, <1>14, <1>18
  <2>2. /\ q.got = Contents(e) /\ q.status \in {"more", "end"} /\ (q.status = "end" => e = z.actual)
        /\ (q.status = "more" => e < z.actual)
    BY <1>3, <1>22, <1>23, <1>24
  <2> QED BY <1>4, <1>13, <2>1, <2>2 DEF Served
<1> QED BY <1>1, <1>21, <1>24, <1>25

LEMMA DownloadServes == ASSUME Serving, NEW c, mcp_download_file(c), size' = size, call[c].files \subseteq Files PROVE Serving'
<1>1. ASSUME NEW f \in Files, NEW p, page' = [page EXCEPT ![f] = p], Served(p, size[f]) PROVE Serving'
  BY <1>1 DEF Serving
<1>2. ASSUME UNCHANGED page PROVE Serving'  BY <1>2 DEF Serving
<1>3. PICK f \in call[c].files, chunk \in 1..Chunk :
        IF size[f].recorded > MaxDownload \/ ~get_file(f) THEN Refuse(c)
        ELSE LET read == read_object(StoredObject(f), read_limit(page_start(f), chunk))
             IN /\ NoChange
                /\ IF read = {} THEN page_error(c, f, "failed")
                   ELSE \E data \in read : turn_page(c, f, chunk, data)
  BY DEF mcp_download_file
<1>4. f \in Files /\ chunk \in Nat \ {0}  BY McpAssumption
<1>5. CASE Refuse(c)  BY <1>2, <1>5 DEF Refuse
<1>6. CASE ~Refuse(c)
  <2>1. ~(size[f].recorded > MaxDownload)  BY <1>3, <1>6
  <2>2. PICK read : read = read_object(StoredObject(f), read_limit(page_start(f), chunk))
    OBVIOUS
  <2>3. Served(page[f], size[f]) /\ Keyed(size[f])  BY <1>4 DEF Serving
  <2>4. size[f] \in [recorded : Nat, actual : Nat, key : STRING]  BY <2>3 DEF Served
  <2>5. size[f].recorded <= MaxDownload  BY <2>1, <2>4, McpAssumption
  <2>6. CASE read # {}
    <3>1. PICK data \in read : turn_page(c, f, chunk, data)  BY <1>3, <1>6, <2>2, <2>6
    <3>2. \E p : page' = [page EXCEPT ![f] = p] /\ Served(p, size[f])
      BY <1>4, <2>2, <2>5, <3>1, PageTurned
    <3> QED BY <1>1, <1>4, <3>2
  <2>7. CASE read = {}
    <3>1. page_error(c, f, "failed")  BY <1>3, <1>6, <2>2, <2>7
    <3>2. PICK p : p = [page[f] EXCEPT !.status = "failed"]  OBVIOUS
    <3>3. page' = [page EXCEPT ![f] = p]  BY <1>4, <3>1, <3>2 DEF page_error, Serving
    <3>4. Keyless(size[f])
      <4>1. PICK z, start, max : z = size[f] /\ start = page_start(f) /\ max = read_limit(start, chunk)
        OBVIOUS
      <4>2. PICK n \in 0..z.actual : page[f].got = Contents(n)  BY <2>3, <4>1 DEF Served
      <4>3. start \in Nat
        <5>1. n \in Nat  BY <2>4, <4>1, <4>2
        <5>2. Len(Contents(n)) = n  BY <5>1, ContentsAre
        <5> QED BY <4>1, <4>2, <5>1, <5>2 DEF page_start
      <4>4. max \in Nat \ {0} /\ max <= MaxDownload
        BY <1>4, <4>1, <4>3, McpAssumption DEF read_limit, Least
      <4>5. read_object(ObjectOf(z), max) = IF Keyless(z) THEN {} ELSE {Contents(IF max < z.actual THEN max ELSE z.actual)}
        BY <2>3, <2>4, <4>1, <4>4, ReadsStored
      <4>6. read = read_object(ObjectOf(z), max)
        BY <2>2, <4>1 DEF StoredObject, ObjectOf
      <4> QED BY <2>7, <4>1, <4>5, <4>6
    <3>5. Served(p, size[f])
      <4>1. PICK n \in 0..size[f].actual : page[f].got = Contents(n)  BY <2>3 DEF Served
      <4>2. page[f].got = <<>>  BY <2>3, <3>4 DEF Served
      <4>3. p.status = "failed" /\ p.got = page[f].got
        <5>1. page[f].status \in {"none", "more", "end", "failed"}  BY <2>3 DEF Served
        <5> QED BY <3>2
      <4> QED BY <2>4, <3>4, <4>1, <4>2, <4>3 DEF Served
    <3> QED BY <1>1, <1>4, <3>3, <3>5
  <2> QED BY <2>6, <2>7
<1> QED BY <1>5, <1>6

(* No other tool turns a page.                                             *)
LEMMA AnswersKeepPages ==
    ASSUME NEW c
    PROVE  /\ Refuse(c) => page' = page
           /\ OutOfReach(c) => page' = page
           /\ failures_as_values(c) => page' = page
           /\ \A files : Answer(c, files) => page' = page
           /\ \A files, dest : Done(c, files, dest) => page' = page
<1>1. Refuse(c) => page' = page  BY DEF Refuse
<1>2. ASSUME NEW files, NEW dest, Done(c, files, dest) PROVE page' = page
  BY <1>2 DEF Done
<1> QED BY <1>1, <1>2 DEF OutOfReach, failures_as_values, Answer

LEMMA ToolReads == ASSUME NEW c, tool_body(c) PROVE mcp_download_file(c) \/ page' = page
<1>1. CASE mcp_get_supported_conversions(c) \/ mcp_get_file(c) \/ mcp_get_conversion_status(c)
           \/ mcp_get_conversion_history(c) \/ mcp_get_credits(c) \/ mcp_list_workspaces(c) \/ mcp_get_workspace(c)
           \/ mcp_list_workspace_files(c) \/ mcp_read_workspace_file(c) \/ mcp_write_workspace_file(c)
           \/ mcp_get_execution(c) \/ mcp_list_artifacts(c) \/ mcp_save_workspace_environment(c)
  BY <1>1, AnswersKeepPages
     DEF mcp_get_supported_conversions, mcp_get_file, mcp_get_conversion_status, mcp_get_conversion_history,
         mcp_get_credits, mcp_list_workspaces, mcp_get_workspace, mcp_list_workspace_files,
         mcp_read_workspace_file, mcp_write_workspace_file, mcp_get_execution, mcp_list_artifacts,
         mcp_save_workspace_environment
<1>2. CASE mcp_list_files(c)  BY <1>2, AnswersKeepPages DEF mcp_list_files
<1>3. CASE mcp_list_folders(c)  BY <1>3, AnswersKeepPages DEF mcp_list_folders
<1>4. CASE mcp_create_folder(c)  BY <1>4, AnswersKeepPages DEF mcp_create_folder
<1>5. CASE mcp_convert_file(c) \/ mcp_delete_file(c)
  BY <1>5, AnswersKeepPages DEF mcp_convert_file, mcp_delete_file
<1>6. CASE mcp_save_file(c) \/ mcp_upload_file(c)
  BY <1>6, AnswersKeepPages DEF mcp_save_file, mcp_upload_file, Store
<1>7. CASE mcp_create_workspace(c) \/ mcp_run_code(c) \/ mcp_cancel_execution(c)
  BY <1>7, AnswersKeepPages DEF mcp_create_workspace, mcp_run_code, mcp_cancel_execution
<1> QED BY <1>1, <1>2, <1>3, <1>4, <1>5, <1>6, <1>7 DEF tool_body

LEMMA ServingStep == ASSUME Confining, Serving, [Next]_vars PROVE Serving'
<1>1. ASSUME size' = size, page' = page PROVE Serving'  BY <1>1 DEF Serving
<1>2. CASE TurnNext \/ ConversationNext \/ ClickNext \/ AskNext \/ OwnerNext
  <2>1. Disturbed
    BY <1>2 DEF TurnNext, ConversationNext, ClickNext, AskNext, OwnerNext, Beside
  <2> QED BY <1>1, <2>1 DEF Disturbed
<1>3. CASE McpNext
  <2>1. CASE \E c \in Calls : ToolActs(c)
    <3>1. PICK c \in Calls : ToolActs(c)  BY <2>1
    <3>2. size' = size /\ tool_body(c)  BY <3>1 DEF ToolActs
    <3>3. call[c].files \subseteq Files  BY DEF Confining, InReach
    <3> QED BY <1>1, <3>2, <3>3, ToolReads, DownloadServes
  <2>2. CASE ~\E c \in Calls : ToolActs(c)
    <3>1. size' = size /\ page' = page
      BY <1>3, <2>2 DEF McpNext, open_mcp_scope, Gate, owned_file_in_scope, record_invocation, Rebind
    <3> QED BY <1>1, <3>1
  <2> QED BY <2>1, <2>2
<1>4. CASE TelemetryNext \/ LlmNext \/ EventNext \/ UNCHANGED vars
  <2>1. UNCHANGED mcpVars
    BY <1>4 DEF TelemetryNext, LlmNext, EventNext, vars, BesideTelemetry, BesideLlm, BesideEvents
  <2> QED BY <1>1, <2>1 DEF mcpVars
<1> QED BY <1>2, <1>3, <1>4 DEF Next

LEMMA ServingInit ==
    ASSUME \A s \in Scenarios : \A f \in Files : Keyed(s.sizes[f]) /\ Measured(s.sizes[f])
    PROVE  Init => Serving
<1> SUFFICES ASSUME Init PROVE Serving  OBVIOUS
<1>1. PICK s \in Scenarios : InitMcp(s.grant, s.sizes)  BY DEF Init
<1>2. size = s.sizes /\ page = [f \in Files |-> [got |-> <<>>, status |-> "none"]]
  BY <1>1 DEF InitMcp
<1>3. size \in [Files -> [recorded : Nat, actual : Nat, key : STRING]]
  BY <1>2, ScenarioAssumption
<1>4. ASSUME NEW f \in Files PROVE Served(page[f], size[f]) /\ Keyed(size[f]) /\ Measured(size[f])
  <2>1. size[f] \in [recorded : Nat, actual : Nat, key : STRING]  BY <1>3
  <2>2. 0 \in 0..size[f].actual /\ Contents(0) = <<>>  BY <2>1, BodyEmpty
  <2>3. page[f].got = <<>> /\ page[f].status = "none"  BY <1>2
  <2>4. Served(page[f], size[f])  BY <2>1, <2>2, <2>3 DEF Served
  <2> QED BY <1>2, <2>4
<1> QED BY <1>2, <1>3, <1>4 DEF Serving

(* The agent is given the bytes that the browser downloads and the whole   *)
(* file when it follows the offsets to the end, whatever sizes it asks     *)
(* for, wherever the read of the ciphertext is cut and whatever sizes are  *)
(* recorded, unless a row puts a file beyond the limit within it; a read   *)
(* fails only for a file whose key is gone (mcp_download_file,             *)
(* read_object, decrypt_prefix, iter_decrypt).                             *)
THEOREM ServedTrulyTheorem ==
    ASSUME \A s \in Scenarios : \A f \in Files : Keyed(s.sizes[f]) /\ Measured(s.sizes[f])
    PROVE  Spec => []ServedTruly
<1>1. Init => Confining /\ Serving  BY ConfiningInit, ServingInit
<1>2. Confining /\ Serving /\ [Next]_vars => Confining' /\ Serving'
  BY ConfiningStep, ServingStep
<1>3. Serving => ServedTruly  BY ServesTruly
<1> QED BY <1>1, <1>2, <1>3, PTL DEF Spec
=============================================================================
