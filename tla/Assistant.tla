----------------------------- MODULE Assistant -----------------------------
(***************************************************************************)
(* The assistant's chat: one turn is a handler that meters the request,    *)
(* stores the question, replays a bounded history to the model, runs the   *)
(* tools it asks for and stores every step of that in the transcript.      *)
(*                                                                         *)
(* A message's position is a COUNT taken before its insert, so turns of    *)
(* one conversation that overlap, or one that is truncated under a turn,   *)
(* may share a position; a turn may also end anywhere, when its client     *)
(* disconnects or the provider fails.  A deletion is proposed in a turn    *)
(* and confirmed by a later click, which writes the message back whole.    *)
(***************************************************************************)
EXTENDS AssistantTools, Ordering

CONSTANTS MaxRounds,        \* tool rounds of a turn: the plan's, under the server's
          MaxCalls,         \* bound: tools the model asks for at once
          MaxHistory,       \* max_history_messages
          MaxScan,          \* messages a click looks through
          MaxRecalled,      \* _MAX_RECALLED_ATTACHMENTS
          MaxAttachments,   \* attachments the plan allows a message
          HourlyQuota,      \* requests the plan allows an hour
          MaxRanked,        \* _MAX_RECOMMENDATIONS
          Clicks            \* bound: confirm and cancel clicks

ASSUME AssistantAssumption ==
    /\ \A n \in {MaxRounds, MaxCalls, MaxHistory, MaxScan, MaxRecalled, MaxAttachments,
                 HourlyQuota} : n \in Nat
    /\ MaxRanked \in Nat \ {0}

VARIABLES conv,        \* conversation -> "unused", "live" or "deleted"
          chat,        \* conversation -> its messages, in the order of the inserts
          click,       \* click -> where its handler stands
          used,        \* the hour's counter in Redis
          admitted,    \* history: requests the counter let through this hour
          advice,      \* the last recommendation: a format and its ranked targets
          overlapped,  \* history: conversations two writers met in
          raced        \* history: messages two clicks met on

chatVars == <<conv, chat, click, used, admitted, advice, overlapped, raced>>
assistantVars == <<driveVars, turn, chatVars>>

IdleTurn == [pc |-> "idle", conv |-> NoConversation, ws |-> NoWorkspace, attached |-> {},
             wrote |-> 0, round |-> 0, asked |-> <<>>, artifacts |-> <<>>, before |-> 0,
             slot |-> {}, history |-> <<>>, earlier |-> {}]

IdleClick == [pc |-> "idle", conv |-> NoConversation, file |-> Root, approve |-> FALSE,
              msg |-> <<>>, artifacts |-> <<>>, state |-> "pending"]

Appending == {"user", "request", "result", "answer"}
TurnSteps == {"idle", "resolve", "history", "complete", "tool", "final", "done"} \cup Appending

Active(t) == turn[t].pc \notin {"idle", "done"}
Writing(c) == {t \in Turns : Active(t) /\ turn[t].conv = c /\ turn[t].pc # "resolve"}

(* What a stored message keeps of its role, its tool calls and its meta.   *)
Message(id, pos, role, calls, answers, artifacts, attached, w) ==
    [id |-> id, pos |-> pos, role |-> role, calls |-> calls, answers |-> answers,
     artifacts |-> artifacts, attached |-> attached, ws |-> w]

TypeOKAssistant ==
    /\ TypeOKDrive
    /\ \A t \in Turns :
          /\ turn[t].pc \in TurnSteps
          /\ turn[t].conv \in Conversations \cup {NoConversation}
          /\ turn[t].ws \in Workspaces \cup {NoWorkspace}
          /\ turn[t].attached \cup turn[t].earlier \subseteq Files
          /\ turn[t].round \in 0..MaxRounds
          /\ Range(turn[t].artifacts) \subseteq Artifact
          /\ turn[t].before \in 0..Len(turn[t].artifacts)
          /\ turn[t].slot # {} => turn[t].pc \in Appending
    /\ conv \in [Conversations -> {"unused", "live", "deleted"}]
    /\ \A c \in Conversations :
          /\ conv[c] # "live" => chat[c] = <<>>
          /\ \A m \in Range(chat[c]) :
                /\ m.role \in {"user", "assistant", "tool"} /\ m.pos \in Nat
                /\ m.calls # {} => m.role = "assistant"
                /\ m.answers # {} => m.role = "tool"
    /\ \A k \in Clicks : click[k].pc \in {"idle", "act", "mark"}
    /\ used \in Nat /\ admitted \in 0..used
    /\ overlapped \subseteq Conversations

(* A transcript as turns before these have left it: rows with ids of their *)
(* own.                                                                    *)
IsTranscript(transcript) ==
    /\ transcript = [c \in Conversations |-> transcript[c]]
    /\ \A c \in Conversations :
          LET rows == transcript[c]
          IN /\ rows \in Seq(Range(rows))
             /\ \A m \in Range(rows) :
                   /\ m = Message(m.id, m.pos, m.role, m.calls, m.answers, m.artifacts, m.attached, m.ws)
                   /\ m.pos \in Nat /\ m.id \notin Turns \X Nat
             /\ \A i, j \in DOMAIN rows : rows[i].id = rows[j].id => i = j

InitAssistant(transcript) ==
    /\ turn = [t \in Turns |-> IdleTurn]
    /\ conv = [c \in Conversations |-> IF transcript[c] # <<>> THEN "live" ELSE "unused"]
    /\ chat = transcript
    /\ click = [k \in Clicks |-> IdleClick]
    /\ used = 0 /\ admitted = 0 /\ advice = <<>>
    /\ overlapped = {} /\ raced = {}

----------------------------------------------------------------------------
(* The transcript                                                          *)

(* Mutant of get_conversation: a deleted one is found too.                 *)
get_conversation_any(c) == c # NoConversation /\ conv[c] # "unused"

get_conversation(c) == c # NoConversation /\ conv[c] = "live"

next_position(c) == Len(chat[c])

(* Rows of one position come in either order.                              *)
Tied(c) == {m.pos : m \in {n \in Range(chat[c]) :
                \E o \in Range(chat[c]) : o.id # n.id /\ o.pos = n.pos}}

Ordered(c, flipped) ==
    LET before(i, j) == \/ chat[c][i].pos < chat[c][j].pos
                        \/ /\ chat[c][i].pos = chat[c][j].pos
                           /\ IF chat[c][i].pos \in flipped THEN i > j ELSE i < j
        order == InOrder(DOMAIN chat[c], before)
    IN [i \in DOMAIN order |-> chat[c][order[i]]]

Newest(s, limit) == SubSeq(s, IF Len(s) > limit THEN Len(s) - limit + 1 ELSE 1, Len(s))

(* Mutant of list_messages: the window keeps the oldest rows.              *)
list_messages_oldest(c, limit, flipped) ==
    SubSeq(Ordered(c, flipped), 1, IF Len(chat[c]) > limit THEN limit ELSE Len(chat[c]))

list_messages(c, limit, flipped) == Newest(Ordered(c, flipped), limit)

(* Mutant of truncate: only the row itself goes.                           *)
truncate_one(c, m) == SelectSeq(chat[c], LAMBDA n : n.pos # m.pos)

truncate(c, m) ==
    LET kept == InOrder({i \in DOMAIN chat[c] : chat[c][i].pos < m.pos}, <)
    IN [n \in DOMAIN kept |-> chat[c][kept[n]]]

----------------------------------------------------------------------------
(* What of it the model is shown                                           *)

(* The tool rows right after row i.                                        *)
Results(h, i) == {k \in (i + 1)..Len(h) : \A n \in (i + 1)..k : h[n].role = "tool"}
Answered(h, i) == UNION {h[k].answers : k \in Results(h, i)}

(* Mutant of Complete: an unanswered request is replayed too.              *)
CompleteAny(h, i) == h[i].role # "tool"

(* A request is replayed with all its results or not at all; a result      *)
(* without its request is dropped.                                         *)
Complete(h, i) == h[i].role # "tool" /\ h[i].calls \subseteq Answered(h, i)

Group(h, i) == {i} \cup (IF h[i].calls = {} THEN {} ELSE Results(h, i))

(* Whole groups, newest first, while they fit; the newest always does.     *)
build_bounded_history(h, limit) ==
    LET heads == {i \in DOMAIN h : Complete(h, i)}
        from(i) == UNION {Group(h, j) : j \in {k \in heads : k >= i}}
        selected == {i \in heads : \/ Cardinality(from(i)) <= limit
                                   \/ \A j \in heads : j <= i}
        kept == InOrder(UNION {Group(h, i) : i \in selected}, <)
    IN [n \in DOMAIN kept |-> h[kept[n]]]

(* The workspace an earlier turn was about, from the newest row that has   *)
(* one.                                                                    *)
recall_workspace_id(h) ==
    LET naming == {i \in DOMAIN h : h[i].ws # NoWorkspace}
    IN IF naming = {} THEN NoWorkspace ELSE h[CHOOSE i \in naming : \A j \in naming : j <= i].ws

(* Files attached earlier, those of the newest messages first, up to a     *)
(* cap; of the message the cap falls in, any of them.                      *)
recalled_attachments(h, exclude) ==
    LET since(i) == UNION {h[j].attached : j \in {k \in i..Len(h) : h[k].role = "user"}} \ exclude
        over == {i \in DOMAIN h : Cardinality(since(i)) > MaxRecalled}
        cut == Max(over)
    IN IF over = {} THEN {since(1)}
       ELSE {since(cut + 1) \cup more : more \in kSubset(MaxRecalled - Cardinality(since(cut + 1)),
                                                        since(cut) \ since(cut + 1))}

----------------------------------------------------------------------------
(* The meter, shared by the chat, summaries and recommendations            *)

can_use_assistant == HourlyQuota > 0

(* Mutant of Within: the count before this request is compared.            *)
WithinBefore(count) == count - 1 <= HourlyQuota

Within(count) == count <= HourlyQuota

(* One INCR; when Redis does not answer the request is let through.        *)
consume(answers) ==
    IF answers THEN /\ used' = used + 1
                    /\ admitted' = admitted + (IF Within(used + 1) THEN 1 ELSE 0)
    ELSE UNCHANGED <<used, admitted>>

LetThrough(answers) == answers => Within(used + 1)

(* The next hour counts under another key.                                 *)
HourRolls ==
    /\ used > 0
    /\ used' = 0 /\ admitted' = 0
    /\ UNCHANGED <<driveVars, turn, conv, chat, click, advice, overlapped, raced>>

----------------------------------------------------------------------------
(* A turn                                                                  *)

Only(t, step) == turn' = [turn EXCEPT ![t] = step]
NoMeter == UNCHANGED <<used, admitted, advice>>
NoChat == UNCHANGED <<conv, chat, overlapped>>
NoClick == UNCHANGED <<click, raced>>

(* Too many attachments cost nothing; every other request is counted.      *)
stream_chat(t, answers) ==
    /\ turn[t].pc = "idle" /\ can_use_assistant
    /\ \E c \in {d \in Conversations : conv[d] # "unused"} \cup {NoConversation},
          files \in SUBSET {f \in Files : place[f] # Fresh},
          w \in {v \in Workspaces : ws[v] # "unused"} \cup {NoWorkspace} :
          /\ LET over == Cardinality(files) > MaxAttachments
             IN /\ Only(t, [IdleTurn EXCEPT !.pc = IF ~over /\ LetThrough(answers)
                                                   THEN "resolve" ELSE "done",
                                            !.conv = c, !.ws = w, !.attached = files])
                /\ IF over THEN UNCHANGED <<used, admitted>> ELSE consume(answers)
    /\ NoChange /\ NoChat /\ NoClick /\ UNCHANGED advice

(* A file or a conversation that is gone by now is a 404.                  *)
resolve_attachments(t) == \A f \in turn[t].attached : get_file(f)

Open(t, c, flipped) ==
    LET named == turn[t].ws
        recalled == IF named # NoWorkspace THEN named
                    ELSE recall_workspace_id(list_messages(c, MaxHistory, flipped))
    IN /\ Only(t, [turn[t] EXCEPT !.pc = "user", !.conv = c, !.ws = recalled])
       /\ overlapped' = overlapped \cup (IF Writing(c) # {} THEN {c} ELSE {})

load_or_create_conversation(t) ==
    /\ turn[t].pc = "resolve"
    /\ LET c == turn[t].conv
       IN IF ~resolve_attachments(t) \/ (c # NoConversation /\ ~get_conversation(c))
          THEN Only(t, [turn[t] EXCEPT !.pc = "done"]) /\ NoChat
          ELSE IF c # NoConversation
          THEN \E flipped \in SUBSET Tied(c) : Open(t, c, flipped) /\ UNCHANGED <<conv, chat>>
          ELSE \E new \in Conversations :
                  /\ conv[new] = "unused" /\ conv' = [conv EXCEPT ![new] = "live"]
                  /\ Open(t, new, {}) /\ UNCHANGED chat
    /\ NoChange /\ NoMeter /\ NoClick

(* A row is appended in two steps: the count, and the insert.              *)
CountRow(t) ==
    /\ turn[t].pc \in Appending /\ turn[t].slot = {}
    /\ turn' = [turn EXCEPT ![t].slot = {next_position(turn[t].conv)}]
    /\ NoChange /\ NoMeter /\ NoChat /\ NoClick

(* What the turn stores at this point.                                     *)
Row(t, pos) ==
    LET id == <<t, turn[t].wrote>>
        produced == SubSeq(turn[t].artifacts, turn[t].before + 1, Len(turn[t].artifacts))
    IN CASE turn[t].pc = "user" ->
              Message(id, pos, "user", {}, {}, <<>>, turn[t].attached, turn[t].ws)
         [] turn[t].pc = "request" ->
              Message(id, pos, "assistant", Range(turn[t].asked), {}, <<>>, {}, NoWorkspace)
         [] turn[t].pc = "result" ->
              Message(id, pos, "tool", {}, {Head(turn[t].asked)}, produced, {}, NoWorkspace)
         [] OTHER ->
              Message(id, pos, "assistant", {}, {}, turn[t].artifacts, {}, NoWorkspace)

(* Where the turn goes once that is stored.                                *)
After(t) ==
    LET rest == Tail(turn[t].asked)
    IN CASE turn[t].pc = "user" -> [turn[t] EXCEPT !.pc = "history"]
         [] turn[t].pc = "request" -> [turn[t] EXCEPT !.pc = "tool"]
         [] turn[t].pc = "result" ->
              [turn[t] EXCEPT !.asked = rest,
                              !.pc = IF rest # <<>> THEN "tool"
                                     ELSE IF turn[t].round < MaxRounds THEN "complete"
                                     ELSE "final"]
         [] OTHER -> [IdleTurn EXCEPT !.pc = "done"]

(* The conversation may have been deleted under the turn.                  *)
add_message(t) ==
    /\ turn[t].slot # {}
    /\ LET c == turn[t].conv
           next == [After(t) EXCEPT !.slot = {}, !.wrote = turn[t].wrote + 1]
       IN IF get_conversation(c)
          THEN /\ chat' = [chat EXCEPT ![c] = Append(@, Row(t, CHOOSE n \in turn[t].slot : TRUE))]
               /\ Only(t, [next EXCEPT !.before = Len(next.artifacts)])
          ELSE Only(t, [IdleTurn EXCEPT !.pc = "done"]) /\ UNCHANGED chat
    /\ NoChange /\ NoMeter /\ NoClick /\ UNCHANGED <<conv, overlapped>>

ReadHistory(t) ==
    /\ turn[t].pc = "history"
    /\ \E flipped \in SUBSET Tied(turn[t].conv) :
          LET h == list_messages(turn[t].conv, MaxHistory, flipped)
          IN \E earlier \in recalled_attachments(h, turn[t].attached) :
                Only(t, [turn[t] EXCEPT !.pc = "complete", !.earlier = earlier,
                                        !.history = build_bounded_history(h, MaxHistory)])
    /\ NoChange /\ NoMeter /\ NoChat /\ NoClick

(* The model answers, or asks for tools; each request gets ids of its own. *)
ModelReplies(t, n) ==
    /\ turn[t].pc = "complete"
    /\ LET round == turn[t].round + 1
           told == [turn[t] EXCEPT !.history = <<>>, !.earlier = {}]
       IN Only(t, IF n = 0 THEN [told EXCEPT !.pc = "answer"]
                  ELSE [told EXCEPT !.pc = "request", !.round = round,
                                    !.asked = [i \in 1..n |-> <<t, round, i>>]])
    /\ NoChange /\ NoMeter /\ NoChat /\ NoClick

RunTool(t, name) ==
    /\ turn[t].pc = "tool"
    /\ execute(t, name)
    /\ NoMeter /\ NoChat /\ NoClick

(* The rounds are used up: one completion more, without tools.             *)
Conclude(t) ==
    /\ turn[t].pc = "final"
    /\ turn' = [turn EXCEPT ![t].pc = "answer"]
    /\ NoChange /\ NoMeter /\ NoChat /\ NoClick

(* The client disconnects, or the provider or the database fails.          *)
TurnEnds(t) ==
    /\ Active(t)
    /\ Only(t, [IdleTurn EXCEPT !.pc = "done"])
    /\ NoChange /\ NoMeter /\ NoChat /\ NoClick

----------------------------------------------------------------------------
(* Conversations                                                           *)

delete_conversation(c) ==
    /\ get_conversation(c)
    /\ conv' = [conv EXCEPT ![c] = "deleted"] /\ chat' = [chat EXCEPT ![c] = <<>>]
    /\ NoChange /\ NoMeter /\ NoClick /\ UNCHANGED <<turn, overlapped>>

create_conversation(c) ==
    /\ conv[c] = "unused" /\ conv' = [conv EXCEPT ![c] = "live"]
    /\ NoChange /\ NoMeter /\ NoClick /\ UNCHANGED <<turn, chat, overlapped>>

(* "Edit and resend" drops a message and what follows it.                  *)
truncate_from_message(c) ==
    /\ get_conversation(c)
    /\ \E m \in Range(chat[c]) : chat' = [chat EXCEPT ![c] = truncate(c, m)]
    /\ overlapped' = overlapped \cup (IF Writing(c) # {} THEN {c} ELSE {})
    /\ NoChange /\ NoMeter /\ NoClick /\ UNCHANGED <<turn, conv>>

----------------------------------------------------------------------------
(* Confirming or dismissing a proposed deletion                            *)

(* Mutant of Waiting: a proposal that was decided counts again.            *)
WaitingAny(a, f) == a.type = "delete" /\ a.id = f

Waiting(a, f) == a.type = "delete" /\ a.id = f /\ a.state = "pending"

IsPending(m, f) == m.role = "assistant" /\ \E i \in DOMAIN m.artifacts : Waiting(m.artifacts[i], f)

(* The newest assistant message that waits for a decision on the file.     *)
pending_deletion(messages, f) ==
    LET found == {i \in DOMAIN messages : IsPending(messages[i], f)}
    IN IF found = {} THEN {} ELSE {messages[CHOOSE i \in found : \A j \in found : j <= i]}

(* Mutant of with_deletion_state: every proposal of the file is decided.   *)
with_deletion_state_all(artifacts, f, state) ==
    [i \in DOMAIN artifacts |-> IF artifacts[i].type = "delete"
                                THEN [artifacts[i] EXCEPT !.state = state] ELSE artifacts[i]]

with_deletion_state(artifacts, f, state) ==
    [i \in DOMAIN artifacts |-> IF Waiting(artifacts[i], f)
                                THEN [artifacts[i] EXCEPT !.state = state] ELSE artifacts[i]]

resolve_deletion(k, f) ==
    /\ click[k].pc = "idle"
    /\ \E c \in Conversations, approve \in BOOLEAN :
          /\ get_conversation(c)
          /\ \E flipped \in SUBSET Tied(c) :
             \E m \in pending_deletion(list_messages(c, MaxScan, flipped), f) :
                /\ click' = [click EXCEPT ![k] =
                      [pc |-> "act", conv |-> c, file |-> f, approve |-> approve,
                       msg |-> m.id, artifacts |-> m.artifacts, state |-> "pending"]]
                /\ raced' = raced \cup (IF \E l \in Clicks : click[l].msg = m.id THEN {m.id} ELSE {})
    /\ NoChange /\ NoMeter /\ NoChat /\ UNCHANGED turn

(* The owner's file is deleted only here, and only when the owner agreed.  *)
ClickActs(k) ==
    /\ click[k].pc = "act"
    /\ LET f == click[k].file
           there == get_file(f)
           state == IF ~click[k].approve THEN "cancelled" ELSE IF there THEN "deleted" ELSE "failed"
       IN /\ click' = [click EXCEPT ![k].pc = "mark", ![k].state = state]
          /\ IF click[k].approve /\ there THEN delete_file(f) ELSE NoChange
    /\ NoMeter /\ NoChat /\ UNCHANGED <<turn, raced>>

(* The meta the click has read is written back whole.                      *)
update_message_meta(k) ==
    /\ click[k].pc = "mark"
    /\ LET written == with_deletion_state(click[k].artifacts, click[k].file, click[k].state)
           Marked(m) == IF m.id = click[k].msg THEN [m EXCEPT !.artifacts = written] ELSE m
       IN chat' = [chat EXCEPT ![click[k].conv] = [i \in DOMAIN @ |-> Marked(@[i])]]
    /\ click' = [click EXCEPT ![k] = IdleClick]
    /\ NoChange /\ NoMeter /\ UNCHANGED <<turn, conv, overlapped, raced>>

(* The process dies under the click: the decision may go unwritten.        *)
ClickLost(k) ==
    /\ click[k].pc # "idle"
    /\ click' = [click EXCEPT ![k] = IdleClick]
    /\ NoChange /\ NoMeter /\ NoChat /\ UNCHANGED <<turn, raced>>

----------------------------------------------------------------------------
(* Without a conversation                                                  *)

(* Reads one document; nothing but the meter changes.                      *)
summarize_file(answers) ==
    /\ can_use_assistant /\ consume(answers)
    /\ NoChange /\ NoChat /\ NoClick /\ UNCHANGED <<turn, advice>>

(* Mutant of llm_rank: the model's list is taken as it is.                 *)
llm_rank_raw(suggested, candidates) == suggested

(* Of what the model suggests, the supported targets, each once.           *)
llm_rank(suggested, candidates) ==
    LET kept == InOrder({i \in DOMAIN suggested :
                    suggested[i] \in candidates /\ \A j \in 1..(i - 1) : suggested[j] # suggested[i]}, <)
    IN [n \in DOMAIN kept |-> suggested[kept[n]]]

(* The preferred order is a constant of the code; any order stands for it. *)
deterministic_ranking(candidates) == SetToSeq(candidates)

rank_targets(suggested, candidates) ==
    LET ranked == llm_rank(suggested, candidates)
        listed == IF ranked = <<>> THEN deterministic_ranking(candidates) ELSE ranked
    IN SubSeq(listed, 1, IF Len(listed) < MaxRanked THEN Len(listed) ELSE MaxRanked)

recommend(source, suggested, answers) ==
    /\ can_use_assistant /\ consume(answers)
    /\ advice' = IF LetThrough(answers) /\ Targets[source] # {}
                 THEN <<source, rank_targets(suggested, Targets[source])>> ELSE advice
    /\ NoChange /\ NoChat /\ NoClick /\ UNCHANGED turn

----------------------------------------------------------------------------
(* Properties                                                              *)

(* Whatever a turn's rounds and tools were, the conversions it started and *)
(* the deletions it proposed stay within the plan's budget for one message *)
(* (_actions_taken, checked by start_conversion and delete_file).          *)
ActionBudget ==
    \A t \in Turns :
        LET done == turn[t].artifacts
        IN Cardinality({i \in DOMAIN done : done[i].type = "delete" \/ done[i].state = "started"})
               <= MaxActions

(* Every tool request replayed to the provider comes with all its results, *)
(* and every result with its request, however the transcript was cut,      *)
(* truncated or left by a turn that died; only turns that overlapped in    *)
(* one conversation may leave a result behind another turn's request       *)
(* (build_bounded_history).                                                *)
HistoryValid ==
    \A t \in Turns :
        LET h == turn[t].history
            askers(k) == {i \in 1..(k - 1) : k \in Results(h, i)}
        IN /\ \A i \in DOMAIN h : h[i].calls \subseteq Answered(h, i)
           /\ turn[t].conv \notin overlapped =>
                 \A k \in DOMAIN h : h[k].role = "tool" =>
                     \E i \in askers(k) : h[k].answers \subseteq h[i].calls

(* The prompt ends with the question it is to answer, and a file attached  *)
(* in a message it shows is named in it, unless more are than it recalls   *)
(* (list_messages, _recalled_attachments).                                 *)
QuestionAsked ==
    \A t \in Turns :
        LET h == turn[t].history
            attached == UNION {m.attached : m \in Range(h)}
        IN h # <<>> /\ turn[t].conv \notin overlapped =>
              /\ h[Len(h)].id = <<t, 0>>
              /\ Cardinality(attached) <= MaxRecalled => attached \subseteq turn[t].attached \cup turn[t].earlier

(* As long as a conversation has one writer at a time, its rows are        *)
(* numbered from 0 without a gap in the order they were written, after any *)
(* truncation too (_next_position, truncate_from_message).                 *)
PositionsDense ==
    \A c \in Conversations \ overlapped : \A i \in DOMAIN chat[c] : chat[c][i].pos = i - 1

(* A proposal the transcript shows as deleted is a file that is gone, also *)
(* when clicks, the owner and other agents race for it (resolve_deletion). *)
DeletedIsGone ==
    \A c \in Conversations : \A m \in Range(chat[c]) : \A a \in Range(m.artifacts) :
        a.type = "delete" /\ a.state = "deleted" => ~get_file(a.id)

(* A decision written into the transcript is never replaced by another,    *)
(* unless two clicks were under way on that message (_pending_deletion).   *)
DecisionKept ==
    [][\A c \in Conversations : \A m \in Range(chat[c]), n \in Range(chat'[c]) :
          m.id = n.id /\ m.id \notin raced =>
              \A i \in DOMAIN m.artifacts :
                  m.artifacts[i].state \in {"deleted", "failed", "cancelled"} =>
                      n.artifacts[i] = m.artifacts[i]]_chat

(* Chat turns, summaries and recommendations together get no more than the *)
(* plan's requests of an hour while Redis answers (consume).               *)
TurnMetered == admitted <= HourlyQuota

(* Whatever the model suggests, what is recommended is convertible, not    *)
(* empty and named once (_llm_rank, _rank_targets).                        *)
AdviceSound ==
    advice # <<>> => /\ advice[2] # <<>> /\ Range(advice[2]) \subseteq Targets[advice[1]]
                     /\ Cardinality(Range(advice[2])) = Len(advice[2])
=============================================================================
