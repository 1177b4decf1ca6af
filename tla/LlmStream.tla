----------------------------- MODULE LlmStream -----------------------------
(***************************************************************************)
(* One completion of the language model, read as it is streamed.  A        *)
(* refused request is repeated, after a wait, while nothing has been       *)
(* passed on; the answer comes in lines, the fragments of its tool calls   *)
(* in any interleaving, and is put together again.  A line that cannot be  *)
(* read is passed over, and a stream that ends is taken for whole.         *)
(***************************************************************************)
EXTENDS Integers, Sequences, SequencesExt, FiniteSetsExt, TLC

CONSTANTS MaxAttempts,     \* _MAX_ATTEMPTS
          Backoff,         \* _RETRY_BACKOFF_SECONDS
          MaxWait,         \* _MAX_RETRY_WAIT_SECONDS
          WaitBudget,      \* _TOTAL_RETRY_BUDGET_SECONDS
          Waits,           \* bound: what a provider asks to wait for
          Deltas           \* bound: what the deltas of an answer carry

ASSUME LlmAssumption ==
    /\ MaxAttempts \in Nat \ {0} /\ MaxWait \in Nat /\ WaitBudget \in Nat /\ Waits \subseteq Nat
    /\ Backoff \in Seq(Nat) /\ Backoff # <<>>

VARIABLES llm,     \* where the completion stands and what the caller has of it
          reply,   \* what the model says: its text, and for each call the arguments, in pieces
          sent     \* how many pieces of the text, and of each call, the provider has sent

llmVars == <<llm, reply, sent>>

(* An answer: a text, and calls that each come in one piece or more.       *)
Reply == [text : Seq(Deltas), calls : Seq(Seq(Deltas) \ {<<>>})]

(* Of a completion, history: a line of the answer was passed over.         *)
NoCompletion == [pc |-> "idle", attempt |-> 1, slept |-> 0, heard |-> <<>>,
                 partials |-> <<>>, calls |-> <<>>, skipped |-> FALSE]

TypeOKLlm ==
    /\ llm.pc \in {"idle", "asking", "reading", "done", "rejected", "unavailable", "broken"}
    /\ llm.attempt \in 1..MaxAttempts /\ llm.slept \in 0..WaitBudget
    /\ DOMAIN llm.partials \subseteq DOMAIN reply.calls /\ llm.skipped \in BOOLEAN

InitLlm(said) ==
    /\ llm = NoCompletion /\ reply = said
    /\ sent = [text |-> 0, calls |-> [i \in DOMAIN said.calls |-> 0]]

stream == /\ llm.pc = "idle" /\ llm' = [llm EXCEPT !.pc = "asking"]
          /\ UNCHANGED <<reply, sent>>

(* The provider's word, or the schedule, whose last step repeats.          *)
retry_delay_seconds(asked, attempt) ==
    IF asked # {} THEN Min(asked \cup {MaxWait})
    ELSE Backoff[IF attempt < Len(Backoff) THEN attempt ELSE Len(Backoff)]

(* A wrong request stays wrong; a busy provider is asked again, but not    *)
(* too often nor for too long.                                             *)
RequestRefused(retryable, asked) ==
    LET delay == retry_delay_seconds(asked, llm.attempt)
    IN /\ llm.pc = "asking"
       /\ llm' = IF ~retryable THEN [llm EXCEPT !.pc = "rejected"]
                 ELSE IF llm.attempt = MaxAttempts \/ llm.slept + delay > WaitBudget
                 THEN [llm EXCEPT !.pc = "unavailable"]
                 ELSE [llm EXCEPT !.attempt = @ + 1, !.slept = @ + delay]
       /\ UNCHANGED <<reply, sent>>

RequestAccepted ==
    /\ llm.pc = "asking" /\ llm' = [llm EXCEPT !.pc = "reading"]
    /\ UNCHANGED <<reply, sent>>

(* A delta of the text is passed on at once.                               *)
ReadText ==
    /\ llm.pc = "reading" /\ sent.text < Len(reply.text)
    /\ sent' = [sent EXCEPT !.text = @ + 1]
    /\ llm' = [llm EXCEPT !.heard = Append(@, reply.text[sent'.text])]
    /\ UNCHANGED reply

(* Only a call's first fragment names it.                                  *)
accumulate_tool_calls(partials, f) ==
    LET entry == IF f.index \in DOMAIN partials THEN partials[f.index]
                 ELSE [id |-> 0, arguments |-> <<>>]
        longer == [id |-> IF f.id # 0 THEN f.id ELSE entry.id,
                   arguments |-> entry.arguments \o f.arguments]
    IN [k \in DOMAIN partials \cup {f.index} |-> IF k = f.index THEN longer ELSE partials[k]]

(* The next piece of call i: a call is begun after those before it.        *)
Piece(i) ==
    /\ llm.pc = "reading" /\ sent.calls[i] < Len(reply.calls[i])
    /\ \A j \in 1..(i - 1) : sent.calls[j] > 0
    /\ sent' = [sent EXCEPT !.calls[i] = @ + 1]
    /\ UNCHANGED reply

ReadFragment(i) ==
    LET n == sent.calls[i] + 1
        fragment == [index |-> i, id |-> IF n = 1 THEN i ELSE 0, arguments |-> <<reply.calls[i][n]>>]
    IN /\ Piece(i)
       /\ llm' = [llm EXCEPT !.partials = accumulate_tool_calls(@, fragment)]

(* A line that cannot be decoded, or has no choice, is passed over, and    *)
(* with it what it carried.                                                *)
SkipText ==
    /\ llm.pc = "reading" /\ sent.text < Len(reply.text)
    /\ sent' = [sent EXCEPT !.text = @ + 1]
    /\ llm' = [llm EXCEPT !.skipped = TRUE]
    /\ UNCHANGED reply
SkipFragment(i) == Piece(i) /\ llm' = [llm EXCEPT !.skipped = TRUE]

AllSent == sent.text = Len(reply.text) /\ \A i \in DOMAIN reply.calls : sent.calls[i] = Len(reply.calls[i])

(* The arguments of a call are one JSON object: no proper beginning of it  *)
(* decodes; what is left when a line was passed over may, by chance.       *)
decodes(arguments, whole, byChance) ==
    arguments = whole \/ (byChance /\ ~IsPrefix(arguments, whole))

(* Mutant of finalise_tool_call: the arguments are taken as they came.     *)
finalise_tool_call_raw(i, byChance) == llm.partials[i]

(* A call without its first fragment gets a made-up id (0 here); arguments *)
(* that do not decode are given up.                                        *)
finalise_tool_call(i, byChance) ==
    LET partial == llm.partials[i]
    IN [partial EXCEPT !.arguments = IF decodes(@, reply.calls[i], byChance) THEN @ ELSE <<>>]

(* The lines have ended, with [DONE] or without it: the calls, in the      *)
(* order of their indices.                                                 *)
ReadDone ==
    /\ llm.pc = "reading"
    /\ \E byChance \in SUBSET DOMAIN llm.partials :
          llm' = [llm EXCEPT !.pc = "done", !.partials = <<>>,
                    !.calls = [i \in DOMAIN llm.partials |-> finalise_tool_call(i, i \in byChance)]]
    /\ UNCHANGED <<reply, sent>>

(* Mutant of StreamBreaks: the request is repeated from its start.         *)
StreamBreaks_repeated ==
    /\ llm.pc = "reading"
    /\ llm' = [llm EXCEPT !.pc = IF llm.attempt < MaxAttempts THEN "asking" ELSE "broken",
                          !.attempt = IF @ < MaxAttempts THEN @ + 1 ELSE @, !.partials = <<>>]
    /\ sent' = [text |-> 0, calls |-> [i \in DOMAIN reply.calls |-> 0]] /\ UNCHANGED reply

(* What was passed on cannot be taken back: the completion fails.          *)
StreamBreaks ==
    /\ llm.pc = "reading"
    /\ llm' = [llm EXCEPT !.pc = "broken", !.partials = <<>>]
    /\ UNCHANGED <<reply, sent>>

----------------------------------------------------------------------------
(* Properties                                                              *)

(* The pieces of s are among the first n of whole, each once and in order. *)
ReadFrom(s, whole, n) ==
    \E at \in [1..Len(s) -> 1..n] :
        /\ \A k, m \in 1..Len(s) : k < m => at[k] < at[m]
        /\ \A k \in 1..Len(s) : s[k] = whole[at[k]]

(* However often the provider refuses and wherever its stream breaks or    *)
(* ends, the caller hears no part of the answer twice or out of order; up  *)
(* to a line that was passed over it hears all that was sent, and when     *)
(* everything was sent the whole answer (stream, _read_stream).            *)
HeardOnce ==
    /\ ReadFrom(llm.heard, reply.text, sent.text)
    /\ ~llm.skipped => llm.heard = SubSeq(reply.text, 1, sent.text)

(* No tool is handed arguments that are half of what the model wrote, or   *)
(* under another call's id: a call that was cut off has none.  Only what a *)
(* passed-over line tore apart may be taken for an answer.  When all was   *)
(* sent and read, the calls are those the model asked for, however their   *)
(* fragments were interleaved (_accumulate_tool_calls, _finalise_tool_call).*)
CallsWhole ==
    llm.pc = "done" =>
        /\ \A i \in DOMAIN llm.calls :
              /\ ReadFrom(llm.calls[i].arguments, reply.calls[i], sent.calls[i])
              /\ llm.calls[i].id = i \/ llm.skipped
              /\ llm.calls[i].arguments \in {<<>>, reply.calls[i]} \/ llm.skipped
        /\ (AllSent /\ ~llm.skipped) =>
              llm.calls = [i \in DOMAIN reply.calls |-> [id |-> i, arguments |-> reply.calls[i]]]
=============================================================================
