---------------------------- MODULE AgentSurface ----------------------------
(***************************************************************************)
(* The assistant, the applications connected over MCP and the owner at one *)
(* account, behind the rate limiter and observed by the telemetry; the     *)
(* completions of the language model, and the job events a browser follows.*)
(*                                                                         *)
(* A behaviour begins in one of the Scenarios: an account, a transcript, a *)
(* grant, what the model and the agent may ask for, and how often each     *)
(* kind of step is taken.                                                  *)
(***************************************************************************)
EXTENDS Assistant, McpTools, LlmStream, JobEvents

CONSTANT Scenarios

ASSUME ScenarioAssumption ==
    \A s \in Scenarios : /\ s.reply \in Reply /\ s.start \in Nat /\ s.keys \subseteq Keys
                         /\ s.grant \in Grant /\ IsTranscript(s.transcript)
                         /\ s.sizes \in [Files -> [recorded : Nat, actual : Nat, key : STRING]]

VARIABLES left,     \* steps of each kind still to come
          offered   \* the assistant's and the agent's tools and the clients of this scenario

vars == <<driveVars, turn, chatVars, mcpVars, telemetryVars, llmVars, eventVars, left, offered>>

Init ==
    \E s \in Scenarios :
        /\ InitDrive(s.files, s.folders, s.workspaces)
        /\ InitAssistant(s.transcript)
        /\ InitMcp(s.grant, s.sizes)
        /\ InitTelemetry(s.start, s.telemetry)
        /\ InitLlm(s.reply) /\ InitEvents
        /\ left = s.left
        /\ offered = [chat |-> s.chat, mcp |-> s.mcp, keys |-> s.keys]

Spend(what) == left[what] > 0 /\ left' = [left EXCEPT ![what] = @ - 1]
Free == UNCHANGED left

(* Redis answers the meter and the limiter, unless the scenario has it out.*)
Answers == IF left["outages"] > 0 THEN BOOLEAN ELSE {TRUE}

----------------------------------------------------------------------------

(* What a step of the chat or of the owner leaves alone, but for the calls *)
(* it disturbs; of an application; of the telemetry; of a completion; and  *)
(* of the job events.                                                      *)
Apart == UNCHANGED <<llmVars, eventVars, offered>>
Beside == Disturbed /\ NoTelemetry /\ Apart
BesideMcp == UNCHANGED <<turn, chatVars>> /\ Apart
BesideTelemetry == UNCHANGED <<driveVars, turn, chatVars, mcpVars>> /\ Apart
BesideLlm == UNCHANGED <<driveVars, turn, chatVars, mcpVars, telemetryVars, eventVars, offered>>
BesideEvents == UNCHANGED <<driveVars, turn, chatVars, mcpVars, telemetryVars, llmVars, offered>>

TurnNext ==
    \E t \in Turns :
        \/ \E answers \in Answers : Spend("turns") /\ stream_chat(t, answers) /\ Beside
        \/ Free /\ load_or_create_conversation(t) /\ Beside
        \/ Free /\ CountRow(t) /\ Beside
        \/ Free /\ add_message(t) /\ Beside
        \/ Free /\ ReadHistory(t) /\ Beside
        \/ Free /\ ModelReplies(t, 0) /\ Beside
        \/ \E n \in 1..MaxCalls : Spend("replies") /\ ModelReplies(t, n) /\ Beside
        \/ \E name \in offered.chat : Free /\ RunTool(t, name) /\ Beside
        \/ Free /\ Conclude(t) /\ Beside
        \/ Spend("aborts") /\ TurnEnds(t) /\ Beside

ConversationNext ==
    \E c \in Conversations :
        \/ Spend("edits") /\ delete_conversation(c) /\ Beside
        \/ Spend("edits") /\ create_conversation(c) /\ Beside
        \/ Spend("edits") /\ truncate_from_message(c) /\ Beside

ClickNext ==
    \E k \in Clicks :
        \/ \E f \in Files : Spend("clicks") /\ resolve_deletion(k, f) /\ Beside
        \/ Free /\ ClickActs(k) /\ Beside
        \/ Free /\ update_message_meta(k) /\ Beside
        \/ Spend("aborts") /\ ClickLost(k) /\ Beside

(* The model may suggest any formats, known or not, in any order.          *)
AskNext ==
    \/ \E answers \in Answers : Spend("asks") /\ summarize_file(answers) /\ Beside
    \/ \E source \in DOMAIN Targets, suggested \in SeqOf(DOMAIN Targets, 2), answers \in Answers :
          Spend("asks") /\ recommend(source, suggested, answers) /\ Beside
    \/ Spend("hours") /\ HourRolls /\ Beside

McpNext ==
    \/ \E c \in Calls, name \in offered.mcp : Spend("calls") /\ open_mcp_scope(c, name) /\ BesideMcp
    \/ \E c \in Calls : Free /\ Gate(c) /\ BesideMcp
    \/ \E c \in Calls, f \in Files : Free /\ owned_file_in_scope(c, f) /\ BesideMcp
    \/ \E c \in Calls : Free /\ ToolActs(c) /\ BesideMcp
    \/ \E c \in Calls : Free /\ record_invocation(c) /\ BesideMcp
    \/ Spend("rebinds") /\ Rebind /\ BesideMcp

TelemetryNext ==
    \/ \E k \in offered.keys, ok, attributable \in BOOLEAN, answers \in Answers :
          Spend("requests") /\ api_request(k, ok, answers, attributable) /\ BesideTelemetry
    \/ Spend("ticks") /\ Tick /\ UNCHANGED <<ingestVars, reader>> /\ BesideTelemetry
    \/ Free /\ collect /\ BesideTelemetry
    \/ Free /\ FlushDue /\ BesideTelemetry
    \/ Free /\ drain_available /\ BesideTelemetry
    \/ Free /\ save_events /\ BesideTelemetry
    \/ Free /\ save_invocations /\ BesideTelemetry
    \/ Spend("faults") /\ WriteFails /\ BesideTelemetry
    \/ Spend("stops") /\ stop /\ BesideTelemetry
    \/ Free /\ Cancelled /\ BesideTelemetry
    \/ Spend("purges") /\ delete_before /\ BesideTelemetry
    \/ \E kind \in {"event", "invocation"}, span \in Ranges :
          Spend("reads") /\ OpenLog(kind, span) /\ BesideTelemetry
    \/ Free /\ NextPage /\ BesideTelemetry

OwnerNext ==
    \/ Spend("owner") /\ OwnerActs /\ UNCHANGED <<turn, chatVars>> /\ Beside
    \/ Spend("background") /\ BackgroundActs /\ UNCHANGED <<turn, chatVars>> /\ Beside

LlmNext ==
    \/ Spend("completions") /\ stream /\ BesideLlm
    \/ \E retryable \in BOOLEAN, asked \in {{}} \cup {{wait} : wait \in Waits} :
          Free /\ RequestRefused(retryable, asked) /\ BesideLlm
    \/ Free /\ RequestAccepted /\ BesideLlm
    \/ Free /\ ReadText /\ BesideLlm
    \/ \E i \in DOMAIN reply.calls : Free /\ ReadFragment(i) /\ BesideLlm
    \/ Spend("faults") /\ SkipText /\ BesideLlm
    \/ \E i \in DOMAIN reply.calls : Spend("faults") /\ SkipFragment(i) /\ BesideLlm
    \/ Free /\ ReadDone /\ BesideLlm
    \/ Free /\ StreamBreaks /\ BesideLlm

EventNext ==
    \/ \E j \in WatchedJobs, status \in {"PROCESSING", "COMPLETED", "FAILED"} :
          Spend("events") /\ publish(j, status) /\ BesideEvents
    \/ \E j \in WatchedJobs : Spend("watches") /\ stream_job_events(j) /\ BesideEvents
    \/ Free /\ xread /\ BesideEvents
    \/ Free /\ iter_events /\ BesideEvents
    \/ Free /\ Disconnect /\ BesideEvents

Next ==
    \/ TurnNext \/ ConversationNext \/ ClickNext \/ AskNext \/ McpNext \/ TelemetryNext \/ OwnerNext
    \/ LlmNext \/ EventNext

Spec == Init /\ [][Next]_vars

----------------------------------------------------------------------------

(* Every variable of the parts keeps its type, through every handler of    *)
(* them (the assistant's service and tools, the MCP tool box, the          *)
(* telemetry and the limiter).                                             *)
TypeOK == TypeOKAssistant /\ TypeOKMcp /\ TypeOKTelemetry /\ TypeOKLlm /\ TypeOKEvents

(* The transcript is what happened, and what the model is sent of it is a  *)
(* history a provider accepts: through aborted turns, edits, truncation    *)
(* and racing clicks (AssistantService, build_bounded_history,             *)
(* truncate_from_message, resolve_deletion).                               *)
ConversationTrue == TypeOK /\ HistoryValid /\ QuestionAsked /\ PositionsDense /\ DeletedIsGone

(* Whatever the model or an application asks for, a turn changes no more   *)
(* than the plan allows, the hour admits no more requests than it allows,  *)
(* advice names conversions that exist, and a call of a confined grant     *)
(* stays in its folder (_actions_taken, RedisAssistantQuota, _llm_rank,    *)
(* _resolve_folder).                                                       *)
AgentBounded == ActionBudget /\ TurnMetered /\ AdviceSound /\ InFolder

(* What an agent may never do in a step: replace a decision the user has   *)
(* taken on a deletion, or do more than the tool it called is annotated    *)
(* with (resolve_deletion, register_tools).                                *)
StepsHonest == DecisionKept /\ HintsHonest

(* What an application is served of a file is, page by page, the whole of  *)
(* it as it was stored, sealed or not (MCPToolBox.download_file,           *)
(* DecryptingObjectReader).                                                *)
ServedTruly == PagesWhole /\ PagesTrue

(* Redis admits no more than the limit in any window of its own, nor does  *)
(* the memory after it, which keeps no more keys than its cap.  The memory *)
(* knows nothing of what Redis admitted, so a window in which Redis fails  *)
(* may have twice the limit (RedisRateLimiter, RateLimitMiddleware).       *)
LimiterSound == RateBound /\ StoreBounded

(* While writes fail, the task is stopped, rows arrive late and old ones   *)
(* are deleted, no more rows that were taken into the queue are gone than  *)
(* a batch for each failed write and what the stop interrupts, and none    *)
(* that is stored waits to be stored again but after a failed write; a     *)
(* client that follows the cursor reads each row once; and each is in its  *)
(* place in the chart (TelemetryIngestion, list_events, bucket_starts).    *)
TelemetrySound == Accounted /\ MemoryBounded /\ PagedOnce /\ ChartComplete

(* A completion is heard once: what is passed on is what was sent, less    *)
(* the lines the adapter cannot decode and those after the end of the      *)
(* stream, whatever is retried; and a call of which no line was missed is  *)
(* put together whole, however the fragments interleave                    *)
(* (OpenAiLlmAdapter.stream, _accumulate_tool_calls).                      *)
StreamWhole == HeardOnce /\ CallsWhole
==============================================================================
