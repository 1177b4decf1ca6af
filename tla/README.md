# Verification of the conversion platform

TLA+ models of the file conversion service in this repository, checked with
TLC on small instances and, where it matters most, proved with TLAPS for every
value of the constants.  File names below are relative to the repository; `A` is
`src/infrastructure/adapters`, `R` is `src/presentation/api/routers/v1`, `V` is
`src/application/services` and `W` is `workers/converter_workers`.

## The system

A FastAPI application takes files and conversion requests, stores objects in
S3/MinIO and rows in PostgreSQL, and publishes jobs on Redis streams.  Worker
processes take jobs from the streams, convert, upload the output, charge the
user and publish progress events that clients follow over SSE.  Stripe webhooks
and plan changes write the same credits that the workers spend.  Users keep their
files in folders under a quota; they run programs in container workspaces, talk
to an assistant that uses the same services through tools, and let outside
applications use them over MCP, confined by scopes and folders.

| Component | State | Operations | Talks to | What makes it correct |
|---|---|---|---|---|
| Job queue (`A/queues/redis_stream_job_queue.py`) | tier streams, consumer group, pending entries, a buffer per worker | publish, fetch, acknowledge, dead-letter, reclaim | Redis; API publishes, worker consumes | no job lost, none processed by two workers at once while conversions stay within their budget, everything drains |
| Worker loop (`W/worker.py`) | the entry in hand, the time of the last sweep | fetch/process/ack, failure path, sweep, shutdown | queue, `process_job` | an entry is acknowledged only after it was processed |
| `process_job` (`W/processor.py`) | a job entity built from the message | guard, credit gate, download, convert, upload, charge, persist, publish | job rows, credits, storage, events | completed rows have outputs, charges are backed and not repeated, every job ends |
| Conversion service (`V/conversions/service.py`, `R/upload.py`, `R/guest.py`, `R/conversions.py`) | `conversion_jobs` | create, verify, push, library, batch, retry, delete | job rows, queue | what it publishes ends; stale copies destroy nothing |
| Credits (`W/dependencies.py`, `R/webhooks.py`, `R/subscriptions.py`, repositories) | `monthly_credits`, `user_subscriptions`, `credit_transactions` | consume, purchase, activate, change plan, cancel, preference | Stripe | a purchase is credited once, purchased credits are backed by the ledger (spends may be lost, see below) |
| Wallet policy (`src/domain/subscriptions/policies/credit_wallet.py`) | none | live carryover, total, spend | used by both sides | spends are exact, in the promised order, and never touch expired credits |
| Event stream, SSE (`A/queues/redis_stream_status_queue.py`, `R/events.py`) | one capped stream | publish, replay, tail | workers, clients | a client sees the events of its job in order, once, and the last one |
| Uploads (`V/files/transfer_service.py`) | sessions in Redis, multipart uploads | session, parts, verify, complete, abort | object store | a verified upload is what was stored |
| Files, folders, quota (`V/files/service.py`) | `user_files`, `user_folders` | complete, move, delete, cascade | object store | rows and objects agree, the quota is held, the folders are a tree |
| Guests, cleanup worker (`R/guest.py`, `workers/cleanup_worker`) | guest jobs, tokens | create, verify, sweep | storage, job rows | what a guest leaves is reclaimed, nothing else is |
| Workflows (`V/workflows/service.py`) | saved targets | save, delete, run | conversion service | a run is one job per file |
| Workspaces (`workers/workspace_worker`, `V/workspaces`, `A/runtime`) | workspaces, runtimes, snapshots, executions, a container | create, start, stop, snapshot, submit, cancel, write | Docker, a second Redis stream | a program runs at most once and ends; the rows are true |
| Accounts (`R/users.py`) | `users`, one-time tokens, phone codes | register, sign in, verify, reset, change, delete | e-mail, SMS | what proves something counts once |
| MCP access, API keys (`V/mcp/access_service.py`, `A/security/mcp_oauth_provider.py`, `V/developer/api_key_service.py`) | clients, grants, codes, tokens, keys | consent, exchange, refresh, pause, revoke | accounts | single use, scopes never grow, access ends |
| MCP tools (`V/mcp`, `src/presentation/mcp`) | none of their own | every registered tool | files, jobs, workspaces, telemetry | confinement, honest annotations, whole pages |
| Encryption at rest (`A/security/encryption.py`, `A/storage/decrypting_object_reader.py`) | none | seal, open, open a prefix | object store | a page is what was stored |
| Assistant (`V/assistant`, `R/assistant.py`, `A/ai`) | conversations, messages, an hourly counter | turn, truncate, decide, recommend, summarise | the model, the services | valid histories, bounded actions, true transcripts |
| Telemetry, rate limits (`src/infrastructure/telemetry`, `src/presentation/api/middleware`) | a queue, two tables, windows | record, flush, page, chart, purge, admit | PostgreSQL, Redis | bounded memory, losses bounded by the failed writes, whole listings and charts; each store holds its limit |
| Converters, web client, credit facade | files; a job store in the browser | | | not a concern of these models |

The hard behaviour is in six places: delivery (crashes and failed Redis calls
between two steps of a worker), the job row (every writer writes the whole row
from a copy it read earlier or built from a message), credits (unlocked
read-modify-write from several processes, webhooks that repeat and reorder), the
order of effects at the end of a job (object, charge, row, event,
acknowledgement), two stores that must agree without a common transaction (rows
and objects, rows and containers), and checks whose subject can change before
they are acted on (quotas, folders, codes, grants).  `PROJECT.json` lists the
hazards at their lines.

## Modules

| Module | Models | Uses |
|---|---|---|
| `AtLeastOnceQueue` | what a queue promises its users | |
| `JobStream` | Redis streams, `JobStreamConsumer`, the worker loop | refines `AtLeastOnceQueue` |
| `StaleSweep` | the clock of the stale sweep: how long entries are pending, how long conversions take | extends `JobStream` |
| `ConversionPipeline` | API requests, job rows, `process_job`, effects | instance `Q` of `JobStream` |
| `CreditWallet` | the pure wallet rules | |
| `CreditLedger` | everything that writes a user's credits | extends `CreditWallet` |
| `WorkspaceRuntime` | workspace, runtime row, container, start, stop, configuration | |
| `WorkspaceExecution` | executions, snapshots, the workspace worker and its stream, disk | extends `WorkspaceRuntime` |
| `Account` | registration, sign-in, e-mail links, passwords, phone codes | |
| `AgentAccess` | OAuth clients, grants, codes, tokens; API keys | |
| `Identity` | accounts and access together, deletion of an account | extends both |
| `Uploads` | upload sessions and the object store | |
| `FileLibrary` | file and folder rows, quota, deletions | extends `Uploads` |
| `LibraryJobs` | jobs over library files, guests, workflows, the cleanup worker | extends `FileLibrary` |
| `AgentDrive` | an account as agents see it: files, folders, jobs, workspaces | |
| `AssistantTools`, `Assistant` | the assistant's tools; its turns, transcripts, quota and advice | extend `AgentDrive` |
| `RateLimiter`, `Telemetry` | admission of requests; recording and reading them | |
| `ObjectCipher` | the format of sealed objects and its readers | |
| `McpTools` | the registered MCP tools, from the gate to the record of the call | extends `AgentDrive`, `Telemetry`, `ObjectCipher` |
| `LlmStream` | a completion: retries, lines that are passed over, the end of the stream, fragments of calls | |
| `JobEvents` | the event stream of jobs and a client that follows one | |
| `AgentSurface` | assistant, applications, owner and workers on one account | extends the five above |
| `Ordering` | the order of rows and the first of them, as listings use it | |
| `*Proofs` | theorems: `JobStreamProofs`, `StaleSweepProofs`, `ConversionPipelineProofs`, `CreditLedgerProofs` (the wallet too), `WorkspaceProofs` (`WorkspaceExecution`), `IdentityProofs`, `FilesProofs` (`LibraryJobs`), `AgentProofs` (`AgentSurface`) | |
| `MC*` | instances for TLC | |

Operators whose comment begins with "Mutant of" are deliberately wrong variants
of the definition that follows them.  No specification uses them; replacing the
definition by the variant makes TLC report a property, which is how each
property, and each part of a conjunction, was seen to be able to fail (see
*Parts and variants*).

### JobStream, StaleSweep

A stream is the sequence of messages added to it and an entry is
`<<stream, position>>`, which is the delivery key of the code.  `last` and `pel`
are the group's last delivered id and its pending entries; `cur`, `buffer` and
`claimed` are the local variables of a worker: the entry in hand, `_buffer`, and
the reply of XAUTOCLAIM.  Redis itself is external and is modelled from the
commands the code sends: XREADGROUP with COUNT 1 delivers at most one entry of
*each* stream, so one read may fill the buffer.  A failed call appears in the
outcome the code cannot tell apart: a read whose reply is lost has delivered.
`Autoclaim` may take any entries that no worker holds, and `AutoclaimLive`, counted as
a fault, also such as a live worker has: `JobStream` has no clock, and what it shows
holds whatever the sweep finds.  A worker that stops comes back under a new consumer
name, so what it held is orphaned.

`StaleSweep` adds the clock and restricts both to what is old enough.  `idle` is for how
long an entry has been pending since it was delivered or claimed, in the buffer behind
other entries too; `spent` is for how long a worker has been converting.  A conversion
that times out is tried again up to `Tries` times (3 in the code), as
`W/processor.py:133-150` and `retry.py` do, and `stale_min_idle` is the formula of
`W/worker.py`: one `Timeout` for each entry one read can hand out, and the margin.  Only
conversions take time.  Two histories record what takes two workers to one message:
`late`, the messages a worker held while one of them took it longer than one timeout,
and `doubled`, those whose entry stayed pending although a sweep had queued its copy.

### ConversionPipeline

Between two awaits nothing else runs, so every await is an action.  A job is its status
and whether object key, output and batch id are set.  A request holds the copy of the
row it read (`reqs[r].copy`), a worker the entity `_build_job` made from the message
(`task[w].ent`), and `Save` is the UPDATE of the whole row, a no-op if the row is gone.
`process_job` is a program counter `task[w].at` with an action for each step and one for
each way it can fail; its end is `Finish` or `Raise` of the queue, after which the
worker loop goes on as in `JobStream`. `Guests` are jobs without an owner.  Three
history variables, `excused`, `risk` and `taken` (a sweep took the job's entry from a
worker that still had it), record the failures after which a property below is not
claimed; no guard reads them.  Progress, sizes, encryption and the content of events are
left out; the three attempts of `retry.py` are one outcome.

### CreditWallet, CreditLedger

`CreditWallet` is `credit_wallet.py`.  `CreditLedger` keeps one user's subscription row,
the plan bucket of each period and the references in the purchase ledger.  Every
operation is a sequence of reads and one commit with its local variables in `procs[p]`;
`Abort` is a failure or crash before the commit. Two details of the session matter and
are modelled: a loaded row is written column by column and only where a value changed
(`Written`), and a pending change is flushed, hence locked, before the next query
(`Locked`).  Webhooks are a set of notices that is never consumed: each may be delivered
again, late and in any order.  What two unlocked writers do to each other is part of the
model: a spend overwritten by a later commit, and a bucket of which one wrote one column
and the other the rest, which `get_credit` then refuses to read.  Tiers are FREE, PRO
and PRO_PLUS (GUEST has no credits, PREMIUM is an alias, ENTERPRISE is not
self-service).

### WorkspaceRuntime, WorkspaceExecution

One workspace.  `ws`, `rt` and `revs` are its rows, `box` is the container Docker has,
`exs` the executions, `queue`, `stale` and `dead` the workspace stream: what has not
been delivered, what was delivered and is still pending, and what was dead-lettered.  A
caller, request or worker, is a program counter with the rows it has read; each await on
a repository, on Docker or on Redis is a step, and a repository writes the columns its
statement writes.  The state machines of the entities (`CanMoveRuntime`,
`CanMoveWorkspace`, the execution statuses) guard the writes as the code's transitions
do.  A deletion is read, marked, and then made in separate commits: runtime row,
container, volume, revisions, executions, slot, workspace row; it may end between any
two.  A start restarts a container of the same build, and goes on to create one when the
restarted one is not up.  An execution whose workspace row is gone is failed; when a
handler raises, the dead-letter write may fail too and the message is lost.  A provider
call may fail at most `MaxFaults` times; a worker that dies leaves its message pending,
and a sweep gives it to another worker also while the first one lives.  Programs write
to the disk unseen by any check (`blind`).

### Account, AgentAccess, Identity

An account is a row, the links mailed to it, the code sent to its phone; a request
is the row it has loaded and the step it is at.  `StillStored` is the compare and
swap of the statements that consume a link.  `AgentAccess` keeps grants, and codes
and pairs of tokens as one table of saved things with the scopes each carries;
`consented` and `spent`, `guesses` and `mailed` are histories; `guesses` counts since
the counter of a code was last cleared.  A handler that commits a grant whose row was
deleted under it writes nothing (`Vanished`).  Issuing saves the access token and the
refresh token in two commits, between which it may end, and storing a consent reads the
row back.  `gone` marks the accounts that were deleted,
whose address may be registered again by another.  The number of a phone is looked up before
its request is committed.  `Identity` runs both, with the
deletion of an account in the middle of everything, under a budget of arrivals per
kind.  E-mail, SMS and password hashing are external.

### Uploads, FileLibrary, LibraryJobs

A session is what `UploadSession` stores, the object store is the set of keys with their
sizes and parts.  Requests have the rows they read and the locks they hold; the quota
check holds the lock of the user's row up to the commit, which is what `lock_and_check`
is about.  A deletion collects keys, deletes rows, then objects, as the code does; a
request may die between any two steps and what is then left is `leaked`, as is what a
race loses that the list of divergences names: the key of a verification whose folder
went away, of a file that entered or left a folder while it was being deleted, and of an
object that went away under a repeated verification. A batch of deletions asks for files
that may be gone.  `LibraryJobs` adds jobs that read objects of the library, guest jobs
with their own, workflows, and the sweeps of the cleanup worker, whose selection and
deletion are separate steps; a new job has an id that neither a row nor a request nor a
sweep has had (`Free`), as the code's random ids do; `released` records what a sweep
removed. Any requests overlap.  Two histories say where they get in each other's way:
`doubled`, the keys that two requests (verifications, or one and a deletion) had in hand
at the same time, and `crossed`, set when two moves of folders run at once.

### AgentDrive, AssistantTools, Assistant, McpTools, AgentSurface

`AgentDrive` is an account seen through its services: where a file or folder is
(or `Gone`, or `Fresh`: not made yet), the jobs, workspaces and runs.  A turn of the
assistant is a loop of rounds: read the history, ask the model, run its tool
calls, append; the model may ask for anything registered.  Messages are records
with a position, the calls they request, the call they answer and the proposals
of deletions they carry.  A call of an MCP tool passes the gate (grant, scopes,
folder), looks things up, acts and is recorded, each in a step of its own, so that
the owner may move or delete what it has looked up.  The budget of a scenario,
`left`, bounds the steps of each kind; the scenarios of `MCAgents` say what an
account holds at the start and who acts.

### RateLimiter, Telemetry, ObjectCipher, LlmStream, JobEvents

`RateLimiter` is the window kept in Redis, the one in memory and the change from one to
the other; what it let through is the set `granted`, with the window that did.
`Telemetry` has the bounded queue, the writer with its batch and its retry, the
shutdown, the tables, a client that follows the cursor, and the buckets of the chart. A
failed batch is deferred to the next write, as often as it fails, and cut at the batch
size together with what arrived since; `Lost` are the rows that were taken in and are
nowhere any more.  At shutdown one batch is drained from the queue and the rest stays in
it.  A chart ends with the last of `MaxBuckets` buckets, so `ChartComplete` excuses the
requests after it; one range of the instance is that long.  `ObjectCipher` gives an
object as a header and sealed chunks and defines what each reader gets from it, whole or
cut; `McpTools` reads files page by page through it.  `LlmStream` is
`OpenAiLlmAdapter.stream`: attempts, waits within a budget, no retry once something was
passed on, tool calls put together by index.  A line that does not decode or has no
choice is passed over (`skipped`), the stream is done wherever its lines end, with
`[DONE]` or without, and arguments that do not decode are given up.  `JobEvents` is a
stream of all jobs that keeps its last entries, and a client that replays from its start
and then tails: a read (`xread`) returns several entries, which are passed on one by one
while others are published and trimmed.

## Runs that pass

| Run | Instance | Shows |
|---|---|---|
| `job_stream` | 2 workers, 2 streams, 2 messages, 2 faults | `NoLoss`: a published job is in the group until it has been processed; `AtLeastOnce`: the refinement; `IInv`: the invariant of the proof, types included |
| `stale_sweep` | 2 workers, 2 streams, 2 messages, 1 fault; timeout 1, margin 1, 2 attempts | `HeldOnce`: the threshold leaves a worker within its budget alone, so that no message is processed by two; `Drains`: everything is processed and acknowledged in the end |
| `pipeline` | 1 job, 2 requests, 2 workers, 2 publications, 1 error, 1 fault; upload, library, retry, both deletions | `OutputBacked`, `ChargedOnce`, `NoStuckJob`, `CompletedVisible`, `DownloadKept`, `IInv` |
| `pipeline_mixed` | a batch item and a guest job, 2 workers, 1 fault | `ChargeBacked`: charges are backed and guests are never charged, with two workers on one job |
| `pipeline_fair` | 1 job, 2 requests, 1 worker, 2 publications, 1 error, 1 fault | `Settles`: every pushed job ends; `Announced`: every completed one is announced |
| `credit_ledger` | 2 processes, 2 purchases, 4 operations, 2 instants, every operation | `BoughtBacked`: a purchase counts at most once; `IInv` |
| `workspace` | 1 request, 2 workers, 1 execution, 2 snapshots, 3 containers, 3 operations, 1 fault | `RanOnce`, `CancelledNotClaimed`, `NoStuckExecution`, `RuntimeSound` |
| `identity` | 3 users, of which one may take the address of another, 2 requests, 2 handlers, 1 client, 3 ids of each kind; 6 scenarios | `CodesHonest`, `AddressProven`, `ConsentHonoured`, `AccessEnds` |
| `files` | 3 keys, 3 folders, 2 files, 2 requests, 2 jobs; 10 scenarios | `QuotaHeld`, `StoreAgrees`, `NothingLeftBehind`, `TreeSound` |
| `agents` | 3 files, 3 folders, 2 workspaces, 2 turns, 2 clicks, 2 calls; 18 scenarios, the sizes of a file, and three completions | `ConversationTrue`, `AgentBounded`, `StepsHonest`, `ServedTruly`, `LimiterSound`, `TelemetrySound`, `StreamWhole`, `WatchedInOrder` |

The properties say in their formula when they are not claimed, and the divergences
below say what happens there.  `ChargedOnce` excuses racing requests, a deleted row, and
the failures collected in `risk`: the worker stopped between charge and row, the row
could not be saved or read, the last event could not be published, or a second copy of
the message got into circulation.  A crash anywhere else, a lost acknowledgement and a
lost read are not excused, and with the idempotency guard removed the property fails.
`HeldOnce` excuses the messages of a worker that was `late` and those a sweep `doubled`;
`NoStuckJob` those a sweep has `taken` from their worker; `NoStuckExecution` failures;
`StoreAgrees` the keys two requests had in hand at once, and what a sweep released;
`NothingLeftBehind` what a failure or a lost race leaked; `TreeRooted` is claimed until two
moves run at once.  Of the assistant, conversations with overlapping turns and messages
with racing clicks are excused, and of MCP the call under which something was moved.
`Accounted` excuses no state: it bounds the rows that are gone by the failed writes and
the stop.  `RateBound` is about each of the two stores, `AccessEnds` about the tokens that
were live when the revocation began, `AddressProven` about links mailed to the present
registration of the account.

### Parts and variants

Several properties are conjunctions of named parts.  Each part was also broken on
its own, by the variant named here, with the same instance.

| Property | Part | Definition and its variant |
|---|---|---|
| `RuntimeSound` | `TypeOK` | `SubmitCheck`, `SubmitCheckEarly`: the message before the row |
| | `FingerprintTruthful` | `SameBuild`, `AnyBuild`: a container reused whatever it was built from |
| | `SnapshotsBounded` | `Surplus`, `SurplusLate`: one snapshot too many kept |
| | `QuotaHeld` | `WithinBudget`, `WithinBudgetBefore`: the new file not counted |
| `CodesHonest` | `TypeOK` | (of `AgentAccess`) `set_grant_status`, `set_grant_status_named` |
| | `AcceptedOnce` | `StillStored`, `StillStoredLoose`: the update asks for the expiry only |
| | `GuessBound` | `attempts_exhausted`, `attempts_exhausted_late`: off by one |
| `ConsentHonoured` | `RedeemedOnce` | `take_code`, `take_code_read`: read, and marked used by nobody |
| | `ScopesConsented` | `Narrows`, `NarrowsAny`: a refresh may ask for anything |
| `AccessEnds` | `RevocationComplete` | `revoke_grant`, `revoke_grant_once`: a second try does nothing |
| | `NoOrphanAccess` | `OwnedRowDeletes`, `OwnedRowDeletesKeys`: grants outlive the account |
| `AddressProven` | | `register_user`, `register_user_trusting`: an account starts out verified |
| `StoreAgrees` | `OneRowPerKey`, `RowBacked` | `find_existing`, `find_existing_never`: a repeated verify is a new one |
| `NothingLeftBehind` | `NoOrphanObject` | `delete_many`, `delete_many_asked`: the rows asked for, whether their keys were found or not |
| | `GuestReclaimable` | `input_object_key`, `input_object_key_name`: the display name |
| `TreeSound` | `TypeOK` | `delete_with_descendants`, `delete_with_descendants_ids` |
| | `TreeRooted` | `is_descendant`, `is_descendant_direct`: children only |
| | `NothingInGoneFolder` | `Cascade`, `CascadeFlat`: one level |
| `ConversationTrue` | `TypeOK` | `get_conversation`, `get_conversation_any` |
| | `HistoryValid` | `Complete`, `CompleteAny`: an unanswered request is replayed |
| | `QuestionAsked` | `list_messages`, `list_messages_oldest`: the window at the wrong end |
| | `PositionsDense` | `truncate`, `truncate_one`: only the message named |
| | `DeletedIsGone` | `with_deletion_state`, `with_deletion_state_all`: every proposal of the message |
| `AgentBounded` | `ActionBudget` | `actions_taken`, `actions_taken_jobs`: deletions not counted |
| | `TurnMetered` | `Within`, `WithinBefore`: compared before the increment |
| | `AdviceSound` | `llm_rank`, `llm_rank_raw`: the model's answer unfiltered |
| | `InFolder` | `resolve_folder`, `resolve_folder_widened`: a missing folder is the whole drive |
| `StepsHonest` | `DecisionKept` | `Waiting`, `WaitingAny`: a decided proposal decided again |
| | `HintsHonest` | `mcp_list_workspace_files`, `..._starting`: a read that starts the runtime |
| `ServedTruly` | `PagesWhole` | `read_limit`, `read_limit_exact`: no byte more than the page |
| | `PagesTrue` | `ciphertext_bound`, `ciphertext_bound_tags`: room for the tags and not for the chunk |
| `LimiterSound` | `RateBound` | `redis_allows`, `redis_allows_zero`: the comparison off |
| | `StoreBounded` | `AtCap`, `AtCapLate`: off by one |
| `TelemetrySound` | `Accounted` | `Invocations`, `InvocationsAlone`: one half of a batch forgotten |
| | `MemoryBounded` | `Merged`, `MergedAll`: no cut |
| | `PagedOnce` | `BehindCursor`, `BehindCursorTime`: the time without the id |
| | `ChartComplete` | `bucket_starts`, `bucket_starts_unaligned` |
| `StreamWhole` | `HeardOnce` | `StreamBreaks`, `StreamBreaks_repeated`: retried after something was passed on |
| | `CallsWhole` | `finalise_tool_call`, `finalise_tool_call_raw`: arguments that were cut off are handed over |

### Bounds

`MaxFaults`, `MaxErrors`, `MaxPubs`, `MaxOps`, `MaxUnits` and `MaxTime` bound
counters in the guards.  Two workers are needed for any race between workers and
two streams for a buffer that holds something; two faults allow a crash during
the recovery from a crash; two publications allow a retry or a second verify.
Two operations at a time show every lost update between a pair, and four in total
let an upgrade, a purchase and two spends meet.  The grants 1, 2 and 3 are in the
order of the real ones and small enough for a bucket to run empty.  In `stale_sweep` a
read hands out two entries, a conversion may take one tick within its timeout or two
with a second attempt, and the threshold is three ticks, so that it is reached by what
is orphaned, missed by a worker in its budget and exceeded by one that is late.  Workers,
messages, requests, processes and references are symmetric in the safety runs.

In `workspace`, three containers allow one to be replaced and replaced again, two
snapshots exceed the retention of one, and one execution can be submitted again
with the same key.  In `identity`, one attempt is the smallest limit of guesses
that can be exceeded by a second request, and three ids allow a code, its tokens
and their refresh.  `files` and `agents` start from scenarios that each give a few
actors a few steps of chosen kinds, since all kinds together are out of reach;
the scenarios are small, and every action happens in one of them.  The numbers
(a quota of 3 for files of up to 2, pages of 2 of files of up to 6 in chunks of 2
behind a header of 1, a window of 4, a queue of 2, a history of 4) are the
smallest at which each limit is met exactly, missed by one and exceeded.  The
ledger runs and these four do not check deadlock: they end when their budget is
used up.

### Fairness

A worker that is up keeps taking steps, and so does a request that has begun (weak
fairness); an orphaned entry is idle long enough for some later sweep, whatever the
sweeps before have found (strong fairness of the sweep that takes the orphans).  In
`StaleSweep` an orphan must in addition have become stale: time keeps passing while
workers wait or convert (strong fairness of `Tick`).  The loop of `worker.py` catches
every exception and goes on, and the sweep runs whenever a read comes back empty and a
minute has passed.  Nothing is assumed about clients, faults or errors.  The conversion
itself ends because it runs under `WORKER_CONVERSION_TIMEOUT`.  An endless supply of new
jobs, which would postpone the sweep, is excluded by the bound on publications.

## Where the code does not do what it says

Two runs check what comments of the code state, and TLC finds a behaviour of the code
that violates it.  `dead_letter`: in `FailedJobKept` the dead-letter write fails, the
acknowledgement after it does not, and the job is nowhere, although the comment gives
exactly this as the reason for the order of the two calls.  `double_upgrade`: in
`UpgradedOnce` the second of two clicks passes its check before the first commits, reads
the bucket that the first has reset to the new plan, and carries that over too, although
`R/subscriptions.py:328-331` says that it "then sees the target tier and 400s".

The exceptions in the passing properties come from behaviours of the same kind, found
with TLC or while translating the code.  No run is kept for them; those that a model
contains return as soon as an exception is removed from a property or an operation
added to an instance.

Conversions and credits:

* a worker that dies between the charge and the completed row makes the user pay
  again on redelivery (`risk` in `ChargedOnce`); `W/worker.py:35-36` speaks of
  "never double-charging";
* the worker's entity has no batch id and its first write clears the one stamped,
  although `R/conversions.py:516` says it lets a batch survive a reload; the stamp,
  in turn, writes PENDING over a job a worker has finished, so that with batches
  `NoStuckJob` fails, and if the message is delivered again, which the guard on the
  status then does not notice, `ChargedOnce`; `CompletedVisible` fails alike;
* the threshold of the stale sweep counts one conversion timeout for each entry of a
  read, but a conversion that times out is tried up to three times
  (`W/processor.py:133`), so that a peer may take entries from a worker that is still
  converting; the docstring names as "Known residual limitation" only the phases of the
  object storage (`W/worker.py:38-46`, `late` in `HeldOnce`);
* an upgrade gives expired carryover a new expiry, against `credit_wallet.py:73-74`;
* a repeated verify of an upload publishes its job again, and two workers convert
  and charge it (`Contended` in `ChargedOnce`);
* a request that still holds an old copy of the row writes it over a completed
  one, also just before the COMPLETED event (`Contended` in `CompletedVisible`);
* a COMPLETED event that cannot be published turns a finished and charged job into
  a FAILED one (`risk` in `DownloadKept`);
* a row that is PENDING when its publication fails stays so for ever (`excused` in
  `NoStuckJob`);
* the credit paths read, decide and write without a lock: of two spends at the same time
  one is overwritten, and a spend racing a plan change may write one column of a bucket
  and leave the other, after which the bucket may have more left than its allowance and
  `get_credit` refuses to read it.  No property claims otherwise; `BoughtBacked` bounds
  only purchased credits, and only from above;
* a purchase that found no subscription row sets the tier of a subscription
  activated in the meantime back to FREE;
* a client that connects again after a retry is shown the old FAILED and its
  stream ends there, although `R/events.py` says new events stream in.

Workspaces:

* a cancellation that commits between the worker's second read and its update is
  overwritten, against `workers/workspace_worker/processor.py:9-12`;
* an execution whose worker died stays RUNNING, a snapshot stays BUILDING, a
  runtime whose stop timed out stays STOPPING, an execution whose runtime raised on
  start is dead-lettered and stays QUEUED; a message whose dead-letter write failed
  is acknowledged and lost, although `workers/workspace_worker/consumer.py:149-154` says
  that it stays pending (lines 155-162);
* a snapshot commits whatever container runs under the fingerprint saved when it
  was requested;
* two starts at the same time create two containers
  (`V/workspaces/workspace_service.py:248-251` says they cannot); limits on
  workspaces and executions are checked and then inserted; pruning deletes rows,
  not images; files written to a container that is not up are measured as 0; writers
  that check at the same time overshoot the quota by a file each, although
  `V/workspaces/workspace_service.py:460-466` says that the API cannot grow a workspace
  past it (`QuotaHeld` of `RuntimeSound` counts them).

Accounts and access:

* a pause or resume that read the grant before a revocation committed writes its
  status over REVOKED (`set_grant_status`: "Revocation is terminal"); an exchange
  that has passed its checks saves its tokens after a revocation has killed the
  others, which is of no use while the consent stays revoked; two refreshes of one token
  can both rotate it;
* a phone number requested while another is verified ends up verified, and one
  deleted while a code is requested keeps the code;
* a deletion of the number that loaded the row before a newer code was issued sets
  that code's counter back to 0 without removing the code, so that its guesses start
  again (`GuessBound` counts from there);
* a password change racing a reset overwrites it.

Files:

* two moves at the same time, A into B and B into A, make a cycle, and a later
  deletion of either walks it for ever (`list_subtree_ids`: "which the move path
  prevents"; `crossed`);
* two verifications of one upload at the same time make two rows, or the second
  one, refused for quota, removes the object of the first, although the comment of
  `V/files/service.py:621-622` is about double clicks and retries (`doubled`);
* a verification that is repeated after its file was moved and the first folder
  deleted is refused for the folder, before it looks for its row, and removes the
  object of a file that is still in the library; one repeated while the file is
  deleted can make a row for an object that is gone (`V/files/service.py:604-630`);
* a file added to a folder between the collection of its keys and its deletion
  loses its row and keeps its object, one moved out keeps its row and loses its
  object; a folder deleted under a verification leaves the object;
* deleting job history leaves objects no sweep looks for; an upload a guest is
  refused stays in the store; a sweep that selected a FAILED job deletes it after a
  retry made it active, deletes the row when the object could not be removed, and
  deletes an input that is also a file of the library.

Assistant, MCP, telemetry:

* two turns of one conversation at the same time interleave their messages, number
  them alike (`V/assistant/service.py:708-710`: positions are assigned "without a race")
  and can send a history with results nobody asked for; a proposal of an
  aborted turn cannot be decided; two clicks on two files of one message lose one
  decision; a confirmation racing a cancellation shows a deleted file as cancelled;
* `download_file` cuts a file that is larger than its limit and whose row says it is
  smaller, without a word: its check can never be true;
  `save_workspace_environment` is annotated idempotent and makes a snapshot each
  time; between the check and the effect of a call things can be moved;
* retired master keys are never configured, so that replacing the key makes older
  objects unreadable; an object cut at a chunk boundary is not noticed;
* the docstrings of `list_workspace_files` and `write_workspace_file`
  (`src/presentation/mcp/tools.py:832` and `:889`) say that the runtime is started
  automatically; nothing starts it.  `_runtime_with_handle`
  (`V/workspaces/workspace_service.py:401-414`) asks for a row with a handle, and the
  provider refuses when the container is not up
  (`A/runtime/docker_runtime_provider.py:804`).  The annotation as read-only is right and
  is what `HintsHonest` checks; the text is wrong;
* a completion is reported as done wherever its lines end, with `[DONE]` or without, and
  lines that do not decode or have no choice are passed over
  (`A/ai/openai_llm_adapter.py:231-271`), so that what is heard may be a beginning of the
  answer or miss a part; `StreamWhole` says what holds all the same;
* of telemetry, `src/infrastructure/telemetry/ingestion.py:22-30` and
  `docs/developer-observability.md` (section 4) say that a failed batch is retried once,
  then dropped and counted, that a full queue loses the oldest items, and that a shutdown
  drains.  The code retries a failed batch as often as it fails; what a merge with later
  items cuts off is lost and no counter but that of the failures shows it; a batch of which
  the first table was committed fails for ever; a full queue refuses the newest item and
  swallows the stop; a shutdown loses what was being collected when the stop is seen,
  writes one batch more and leaves the rest.  `Accounted` bounds what is gone;
* the 30 days of a preset are 720 hours and more buckets than `MAX_BUCKETS`, so
  that its chart ends three weeks before now, although a comment says that every
  preset "lands well below this";
* the window in Redis admits one request less than its limit, counts refused
  requests, and once Redis failed the memory is used for good and starts from nothing, so
  that a window in which Redis fails may have twice the limit.

## Proofs

All theorems hold for every number of workers, streams, messages, jobs, requests,
processes, users, clients, files and folders and for every bound.  They assume the named
`ASSUME`s of the modules, which TLC evaluates on every run: the bounds are natural
numbers, the sets of files, folders, keys and ids are finite, a scripted conversation is
a transcript (`IsTranscript`), a queried range is one the endpoint accepts.  Those that
state a property which the code keeps only in some deployments or only for some
operations name this as a hypothesis:

| hypothesis | theorems | why it is needed |
|---|---|---|
| `"batch" \notin Ops` | `ChargedOnceTheorem`, `CompletedVisibleTheorem`, `DownloadKeptTheorem`, `NoStuckJobTheorem` | the batch endpoint writes its copy of the row, PENDING, after the job was published |
| `Measured` | `ServedTrulyTheorem` | a file beyond the limit whose row records a size within it is cut at the limit without a word |
| `Keyed` | `ServedTrulyTheorem` | a service without keys passes the ciphertext on as the file |

They are the settings of the runs that check the same properties.  Without them TLC
finds the property violated, except for `DownloadKept`, which holds on a small
instance with batches: its exception for a job that a request still holds covers the
stamp, and only its proof by way of `Orderly` needs the hypothesis.

`JobStreamProofs`.  `NoLoss` is not inductive: the only entry that keeps a job
alive could be one that a sweep, having queued its copy, is about to acknowledge.
`Recoverable` therefore asks for an entry that is not in this position (the copy
itself is one), and `SettledFirst` says that whoever is about to acknowledge has
processed the message.  With `TypeOK` they form `IInv`; the proof has a lemma per
action, over lemmas on what adding, delivering and acknowledging do to
`Available`.  `Refinement` shows that `JobStream` implements `AtLeastOnceQueue`
with `pool` mapped to the messages that are still live.  Two facts are proved for any
set of messages of which no sweep takes an entry from a live worker, so that others can
use them: `Exclusive` (what a worker holds is pending, held by no other, and in one of
its three places only) and `OneCopy` (at most one live entry that no copy has replaced).

`StaleSweepProofs`.  That no sweep takes such an entry is what the threshold is for, and
is shown from the clock.  `Young` bounds how long an entry can have been pending by what
its worker is at: while the entry of the k-th stream is converted, k - 1 timeouts and
what was spent on it.  The streams order a read, so the last entry has less than
`stale_min_idle` when its turn ends.  It holds of every message that is not `late`,
hence no sweep claims one of them from its worker (`ClaimsFact`), hence they are held
once, hence, but for `doubled`, they have one entry, and `HeldOnce` follows.

`ConversionPipelineProofs`.  A COMPLETED row could be written from a stale copy,
so `OutputBacked` has to be extended to all copies (`CopiesBacked`); a charge is
backed because a worker that is about to charge has completed its job
(`ChargeReady`), which requires the output to be stored.  `Busy` says that
whoever is at work has a job.  `UsesQueue` shows that every step of the pipeline
is a step of `JobStream` or leaves its variables alone, so the queue's theorems
carry over: `JobsNotLost`.

`Sound` ties the two modules together: messages bear the number of their publication
(`Numbered`), a worker works on the job of the entry in its hand (`Tied`), and a job
not at risk is held by one worker.  `Orderly` is the idempotency argument: as long as
a job is calm (no contender, not deleted, none of the named errors) it has one copy in
the queue, and what was charged and what the row says follow from the step its worker
is at (`Owes`): not charged before the charge, COMPLETED after the save, and with no
worker on it either not charged or COMPLETED, which is what the guard of `process_job`
reads.  `ChargedOnce`, `CompletedVisible` and `DownloadKept` follow, whatever a sweep
takes from whom.  `NoStuckJob` needs `Pursued`: the row of an unfinished job has a
request that will publish it or an entry that its holder is not done with (`Spent`),
where exclusive holding is used, which a job has until it is `taken`: the
worker that lost its entry may write PROCESSING after the copy has ended and been
acknowledged.

`CreditLedgerProofs`.  Of the wallet: a spend takes no more than there is and exactly
what was asked for or all there is, leaves expired carryover alone, touches purchased
credits last unless told otherwise, and two spends add up to one.  Of the ledger:
balances never become negative and the wallet holds no more purchased credits than the
ledger records.  The strengthening says the same of the copies in flight: a stale copy
may lose credits, but it was read when the ledger was smaller, so writing it back cannot
create any.

`WorkspaceProofs`.  `Typed` is the type invariant with the control state of every
caller: which rows and messages a caller at a given step has.  On it rest four
inductive invariants.  `Claims` (`RanOnce`): an execution that is QUEUED has not run
and no worker has passed the claim for it, and a claimed one is run by one worker.
`Pursued` (`NoStuckExecution`): while nothing failed, a RUNNING execution has a worker
past its claim, a QUEUED one is in the stream, dead-lettered or in somebody's hands.
`Truthful` (`RuntimeSound`): every copy of the runtime row is true of the container it
names, not only the stored one, and the copy of a start whose container is up becomes
true when it is recorded.  `Budget`: what is on the disk and what the writers past the
check will add stays within the quota, the unseen writes and one file per racing
request.  `CancelledNotClaimed` is an action property and follows from `Typed` and the
condition of the claim's UPDATE.

`IdentityProofs`.  `AccessInv`: saved rows are numbered in order, what a handler has
in its hands was saved before and its scopes were agreed to, and (`Redeemed`) a used
code is either claimed by one call or has one pair; an unused one has neither.
`AccountInv`: a stored link or code is stored in one place and was never accepted
(`Stored`, `Unique`), a request follows a link that was mailed to its account, to
its address and not to its phone (`Proper`, for `AddressProven`), the stored counter counts every guess at the stored code (`Counted`), and
guesses made plus guesses in flight stay below the bound (`Bounded`, an argument about
the cardinality of the set of pending requests).  `OwnedInv`: consents and keys belong
to accounts that exist, and whoever manages a connection loaded a row that was there.

`FilesProofs`.  Nothing here can be shown by induction over data, so what the recursive
walks of the code do is taken from their closures: the folders below a folder
(`_is_descendant`, `list_subtree_ids`) are what every set closed under "parent of"
contains, and sums over rows (`MapThenSumSet`) are handled by lemmas on adding and
removing one element, each proved from a smallest counterexample among the finite sets.
On the type invariant with the control state of every request (`Shape`) rest:
`Tree`, for `TreeSound`: until two moves have run at once, every folder is reached from
the root (`Rooted`) and a move that has passed its check still passes it
(`MovePending`); that nothing is in a folder that is gone needs no such condition.
`Metered`, for `QuotaHeld`: a request about to insert holds the advisory lock,
and with its size the rows it has summed up stay within the quota; since no other
request inserts without the lock, deletions in between only help.  `NoOrphan` with
`Sessions`, for `NothingLeftBehind`: an object of a verified upload is `Covered` by a
row, by a request that will delete it or give it a row, or is in the recorded set
`leaked` of what a failure or a lost race left behind; `FoundFirst` says what a request
has seen before it removes.  `Guests` says the same of guests' jobs.
`Agreement`, for `StoreAgrees`: rows name their own key (`OwnKey`), and of every key that
no two requests had in hand at once, there is at most one row (`OneRow`), a row has its
object (`Backed`), and so does what a request at each step `Relies` on.  None of the four
theorems has a hypothesis on what overlaps.

`AgentProofs`.  One invariant per component, and a lemma that a step of one component
leaves the others' variables alone. `Streaming` (`StreamWhole`): what the caller has
heard, and what has been put together of each call, are pieces that were read, each once
and in their order, and without a skipped line exactly a beginning; so a call whose
arguments are whole is the model's, one that was cut off does not decode and is given
up, and a retry can only start where nothing was heard. `Watching` (`WatchedInOrder`):
what was read is behind the cursor and skips nothing the stream still holds, what the
stream holds of the job up to the cursor was passed on, and only the last event shown
may end the job. `Limiting` (`LimiterSound`), for each store by itself: every recent
grant of Redis is in its sorted set; in memory, no more grants are later than the i-th
time stored than there are times after it, so that dropping the old times and refusing
by their number loses none. `Acting`, `Sober` (`ActionBudget`) and `Metering`
(`TurnMetered`): actions started are paid from the budget, and proposals count.
`Guarded` and `Kept` (`StepsHonest`): the cards of a transcript are settled only through
the row lock, unless clicks race (`raced`); what a tool may do is bounded by its
annotations and by the scopes of the grant.  `Confining` (`InFolder`): what a subtree
tool returned was `InReach` when it was listed; reach is again a closure. `Ingesting`
(`Accounted`): the buffer, the batch and the store share no entry (`Separate`), each
came from a recorded request (`Traced`), and they add up (`Conserved`, `CountedOnce`).
`Accountable` bounds the rows that are `Missing` by `GoneBatches`: a step that loses
nothing keeps them (`MissingKeeps`), a merge loses no more than the batch that was
deferred (`MergedOnce`, `CarriedSplit`), and so does the last drain (`DrainKeeps`).
`Reading` (`PagedOnce`): everything owed to the reader is behind the cursor.  Two facts
are about data alone: `ChartDrawn` (a chart has a bucket for each point of its range,
from the multiples of the bucket size) and `InOrder` (a finite set of ids in order, by
ranks, which form a bijection). `Serving` (`ServedTruly`): what was read of a file are
its first bytes; an offset to go on from lies within the file, the end is its end, and
nothing is read of a file whose key is gone.  It rests on the cipher: a sequence is
divided into pieces of one length, only the last of which may be shorter, in one way
(`DividedOnce`), so that the `CHOOSE`s of the model for cutting and sealing pick what
the code computes (`ChunksAre`, `SealedAre`); a sealed object cut behind a chunk is the
sealed beginning of the file (`StreamCut`), and decrypting skips what is incomplete
(`Decrypts`); and the bound up to which the ciphertext is read reaches past the chunk of
the last byte asked for (`BoundIs`, `ReadsSealed`).  The last needs the slack to have
room for the header and the tags of the largest file and for one chunk, which
`McpAssumption` states and the code's constants satisfy (34 + 25 * 16 bytes in 64 KiB,
and a chunk of 1 MiB).

Proving led to corrections of the models.  `AgentAccess` let a handler whose grant
row had been deleted with the account write it back; the UPDATE of the code finds no
row.  `Account` did not let a late deletion of a phone number clear the counter of a
newer code.  `Telemetry` drained its buffer whole, where `drain_available` takes one
batch, and compared only the total of a chart with the log, which charts past
`MaxBuckets` do not keep.  `JobEvents` passed a read on in one step, where the code
moves its cursor entry by entry.  `FileLibrary` did not record as `leaked` what a
verification leaves that goes on without the object, or repeats one after the folder
went, and `LibraryJobs` reused the ids of jobs that a request still referred to.

Only model-checked: liveness (`Drains`, `Settles`, `Announced`), which the prover
cannot reason about, and `ConversationTrue`, whose invariant would follow a transcript
through the loop of `AssistantService`.

## Not modelled

Converters are pure transformations by third-party libraries, and the web client is
a user interface.  The API-side credit facade (`V/billing/credit_service.py`) has the
shape of the worker's consume path.  E-mail, SMS, password hashing, OAuth metadata
and PKCE, Docker, MinIO, Redis and PostgreSQL themselves are external and appear as
the code uses them.  Within the modelled parts the following is left out: reads
(listing, searching, statistics), texts, names and their renaming, progress numbers,
durations other than those of conversions (`StaleSweep`),
malformed messages, an ambiguous commit of a spend, two sessions inserting the
subscription row at the same time, copying of execution artifacts, and the sweep of
expired files, for which no code sets an expiry.

## Plan

Done: the queue with its stale sweep, the pipeline, the wallet, the ledger, workspaces,
identity, files and agents, with their proofs.  What is left, in this order:

1. `ConversationTrue`: an invariant for the loop of `AssistantService` with the pending
   cards and the transcript it replays.
2. `DownloadKept` with batches, from a weaker form of `Orderly` that a late stamp
   does not disturb.
