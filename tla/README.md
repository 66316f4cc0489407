# TLA+ verification of Ag3ntum

Ag3ntum runs AI agents for many users behind a web API. A session is one
conversation with an agent; a task is one execution of it. This directory holds
TLA+ models of the parts that decide which execution runs when, of what an
execution may see and change, and of what its user is told; the TLC runs that
check them on small instances; and proofs, checked by TLAPS, of what holds for
every instance. Paths below are relative to the repository.

## 1. Inventory

### 1.1 Parts

| Part | Source | State | Operations |
|---|---|---|---|
| Session endpoints | `src/api/routes/sessions.py` | none of its own; a loaded ORM row per request | run, task, cancel, delete, list, answer, events |
| Session service | `src/services/session_service.py`, `src/db/models.py` | SQLite rows `Session`, `UserQuota`, `Event` | create, get, list, update, delete |
| Quota manager | `src/services/quota_manager.py` | `_global_active_count` in memory; `tasks_today` in SQLite | can_start_task, increment/decrement_global, increment_daily_count |
| Task queue | `src/services/task_queue.py` | Redis: sorted set, one key per task, one active set per user | enqueue, dequeue, peek, remove, mark_user_active/inactive |
| Queue processor | `src/services/queue_processor.py` | a loop in the event loop | _process_next, _start_task, _cleanup_timed_out_tasks, on_task_complete |
| Agent runner | `src/services/agent_runner.py` | `_running_tasks`, `_results`, callbacks | start_task, _run_agent, cancel_task, is_running |
| Auto-resume, lifespan | `src/services/auto_resume.py`, `src/api/main.py` | none; `app.state` | recover_on_startup, startup, shutdown |
| Event log and stream | `src/core/tracer.py`, `src/services/redis_event_hub.py`, `event_service.py` | sequence counter in memory, Redis stream, `Event` rows | emit_event, publish, persist, subscribe |
| AskUserQuestion | `tools/ag3ntum/ag3ntum_ask/tool.py` | events question_pending, question_answered | ask, submit_answer, build_resume_context |
| Accounts, authentication | `src/services/user_service.py`, `auth_service.py`, `src/cli/*_user.py` | `User` rows, Linux accounts, homes | create_user, delete_user, cleanup, login, validate_token |
| Session records | `src/services/session_service.py`, checkpoint tracker in `agent_core.py` | directory and row, totals, checkpoints | create, delete, add, clear and rewind checkpoints, update stats |
| Workspace files | `src/api/routes/files.py` | the files of a workspace | upload, delete, download |
| Paths | `src/core/path_validator.py`, `sandbox_path_resolver.py`, `src/services/mount_service.py`, `src/core/sessions.py` | registries by session, links in the workspace | configure, resolve, validate, clean up |
| Shell | `src/core/sandbox.py`, `command_security.py`, `tools/ag3ntum/ag3ntum_bash/tool.py` | the mounts of a run, processes | build and run a command, time limits |
| Permissions | `src/core/permission_profiles.py`, `permission_config.py`, `permissions.py` | profile, rules, counts of denials | begin, end, can_use_tool |
| Run of the agent | `src/core/agent_core.py`, `trace_processor.py`, `tracer.py` | texts being streamed, open tools and subagents, tokens | the messages of the SDK, the ends of a run |
| File tools | `tools/ag3ntum/ag3ntum_{write,edit,multiedit,read,ls,glob,grep}` | none | one call each |
| Document reader | `tools/ag3ntum/ag3ntum_read_document` | cache and its index | read, extract, evict, expire |
| User events | `src/api/routes/auth.py` | what a connection remembers of its last read | connect, poll, fail |
| Skills | `src/core/skills.py`, `skill_tools.py`, `subagent_manager.py`, `src/api/routes/skills.py` | links in a workspace, tools and subagents of a run | set up, call, clean up, list |
| Scan for secrets | `src/security/` | none | scan, redact |
| Web client | `src/web_terminal_client/src/sse.ts`, `App.tsx` | connection, timers, last and seen numbers | connect, back off, poll, upgrade, stop |
| Others | LLM proxy, web fetch, hooks, output formats, scripts | - | see section 5 |

### 1.2 Interaction

The API is one process with one asyncio event loop, so code between two `await`s
is atomic and everything else may run at an `await`.

* A request handler asks the quota manager whether the task may start. If so it
  calls `agent_runner.start_task`, increments the counter, adds the session to
  the user's active set and commits status `running`. If not it enqueues the
  task and commits status `queued`.
* The processor loop looks at the head of the queue, asks the same quotas,
  dequeues, commits `running`, counts, and calls `agent_runner.start_task`.
* The agent's coroutine commits the final status, removes itself from
  `_running_tasks` and calls back `on_task_complete`, which decrements the
  counter and schedules the removal from the active set.
* Three stores change at different moments: memory (`_running_tasks`, counter),
  Redis (queue, active sets) and SQLite (status, attempts, daily count, events).
  No lock and no transaction covers two of them.
* The agent's tracer publishes each event to a Redis stream and then stores it
  in SQLite, in a task per event. Endpoints and the question tool store first
  and publish then. `stream_events` follows the Redis stream for a client, which
  reconnects with the number it received last or polls SQLite.
* An execution reaches the disk by three ways that must agree: tools ask the path
  validator, commands see the mounts of the sandbox, and the file explorer of
  the API asks the path resolver. Mounts, links, skills and profiles may change
  between the moments at which each of them reads its configuration.
* The SDK's messages become events through the trace processor and the eventing
  tracer; when a run has ended, its files are scanned for secrets.
* A question of the agent is nothing but an event; the end of the execution, the
  answer endpoint and the next start each look at the event table for themselves.
* After a crash SQLite and Redis are as they were, memory is empty, and
  `recover_on_startup` queues what was running or queued.

### 1.3 What is hard, and what must hold

| Part | Hard | Must hold |
|---|---|---|
| Task queue | several Redis commands per operation, callers interleave; lost answers; expiring keys | bounded size, no task delivered twice, none lost, order by priority and age |
| Quota manager | checked before awaits, counted after them; changed by four different pieces of code | counter = running tasks; limits exceeded by a known amount at most |
| Queue processor | undo after failure anywhere; a loop that works on rows loaded earlier | undo is exact; every queued session is resolved |
| Agent runner | cancellation at any await, twice | slot given back exactly once; a terminal event |
| Endpoints | late writes of a status loaded earlier; duplicated requests | one execution per request; no session stuck |
| Event stream | events out of order, three sources of numbers, reconnection, polling beside the stream | nothing skipped, nothing twice, the end arrives |
| Questions | an answer while the execution still runs, two answers, answers told by number | an open question keeps the session waiting, the agent is told the last answer |
| Accounts | programs that know nothing of each other, commands that fail half way | one Linux account for a UID, a user who exists can work |
| Session records | requests that write back what they computed from an old copy; calls that are retried | nothing stored twice, no directory left behind |
| Uploads | a name chosen before awaits and used after them | existing files are spared, limits hold |
| Paths, shell | three readers of one path, configured at different times | the same file by the same path, read-only stays read-only, an answered command left nothing |
| Permissions | rules in a manager that reloads a file with every call | a denial holds whatever else changes; a run that is denied too often stops |
| Run of the agent | texts streamed in pieces and repeated as a whole, subagents cut off | every text once, every subagent ends once |
| File tools | several edits in one call, limits among entries that are not shown | all or nothing on refusal, a cut at a limit is announced |
| Document reader | documents overwritten during and between calls, crashes | an answer is current, the cache keeps to its size |
| User events | reads that fail while sessions change | every change is told |
| Skills | links of a cancelled run, skills that come and go | a run finds what the API lists |
| Secrets | secrets inside secrets, files written during the scan | nothing but secrets is masked, what is reported as masked is |
| Recovery | crash at any point, also during recovery | no unpaid execution, nothing stuck |

`PROJECT.json` lists the hazards one by one, each with its line and the
properties that cover it.

## 2. Modules

| Module | What it is |
|---|---|
| `PriorityQueue` | what a task queue promises: Put, Take (one that nobody precedes), HandOver, Withdraw |
| `TaskQueue` | `task_queue.py`, one step per Redis command; implements `PriorityQueue` |
| `TaskQueueProofs` | types of `TaskQueue`, its size, delivery and entries, and that it implements `PriorityQueue` |
| `Scheduler` | endpoints, quotas, processor, agent runner, recovery, one step per await |
| `SchedulerProofs` | the invariants of `Scheduler`, proved |
| `EventStream` | tracer, event log, event hub, `stream_events` and the client's `connectSSE`, for one session |
| `EventStreamProofs` | types of `EventStream`; no number is skipped, no event is shown twice |
| `AskUser` | questions, answers and resumption, as rows of the event table |
| `AskUserProofs` | types, open questions, and what a resumed execution is told |
| `Accounts` | users, Linux accounts, homes, tokens |
| `SessionStore` | one session's directory, row, checkpoints and totals |
| `RecordProofs` | `Accounts` and `SessionStore`: types, shared UIDs, completeness of accounts, row and directory, nothing stored twice |
| `Files` | uploads, deletions and downloads beside the agent's writes |
| `PathResolution` | path validator, path resolver, mounts and links |
| `Sandbox` | extends `PathResolution` by the shell: command filter, mounts of a command, processes |
| `PathProofs` | `PathResolution` and `Sandbox`: the same file for tools, explorer and commands, what is read-only, no process left |
| `Permissions` | profiles, rules, the callback of the SDK, denials |
| `AgentRun` | one run: messages, trace processor, eventing tracer, checkpoints, ends |
| `FileTools` | Write, Edit, MultiEdit, Read, LS, Glob, Grep |
| `Documents` | ReadDocument with its cache |
| `UserEvents` | the stream of a user's sessions |
| `Skills` | skills, links, tools of scripts, subagents |
| `SessionScan` | the scan for secrets |
| `MCTaskQueue`, `MCScheduler` | constants and symmetry for TLC (`EventStream` needs none but numbers and strings) |
| `ServiceProofs` | `UserEvents`, `Skills`, `Files` and `Documents`: what a client was told, the links of a run, uploads, the cache |
| `AgentProofs` | `Permissions`, `FileTools` and `AgentRun`: denials, refused edits, searches, subagents, the texts of the log |
| `MCSystem` | the modules from `AskUser` to `SessionScan`, checked in one run: it extends those with theorems and makes an instance of `SessionScan` |

Operators whose comment begins with "A variant" or "Variant" are what a plausible bug would
make of the definition below them. They are not part of any specification; the
`mutants` of `PROJECT.json` put each in place of the original to confirm that
the property named there notices.

### 2.1 TaskQueue

| TLA+ | Code |
|---|---|
| `pending` | sorted set `task_queue:pending`; an entry is a session and its score |
| `taskData` | keys `task_queue:task:{session_id}`; a task is session, priority, time |
| `caller[c]` | where request handler c is inside `enqueue`: `zcard`, `set`, `zadd`, `zrank` name the next command |
| `worker` | where the processor is inside `dequeue` (`popped`, `got`), `peek` (`ranged`, `orphan`) or `remove` (`removing`) |
| `clock` | `datetime.now()`: calls to enqueue numbered in order, `Task.at` |
| `deliveries` | history: how often dequeue returned each task |
| `EnqueueBegin ... EnqueueFail` | `enqueue`; `EnqueueFail` is QueueUnavailableError at any command, before or after it took effect |
| `DequeuePop, DequeueGet, DequeueDelete` | `dequeue` |
| `PeekRange, PeekGet, PeekDropOrphan` | `peek` |
| `RemoveEntry, RemoveKey` | `remove` |
| `WorkerFail`, `ExpireKey` | a failing command of the processor, the 24 h TTL |

`Score` is the code's formula with the weight of a priority as a constant.
Entries of equal score may come out in any order (Redis uses the member's
bytes). The processor is one loop, so its operations do not overlap.

### 2.2 Scheduler

| TLA+ | Code |
|---|---|
| `status, established, attempts` | `Session.status`, `claude_session_id` set, `resume_attempts` |
| `terminal` | what `get_latest_terminal_status` would answer |
| `tasksToday` | `UserQuota.tasks_today` |
| `queue`, `userActive` | the pending tasks, the active sets |
| `globalActive` | `QuotaManager._global_active_count` |
| `agent[s]` | `_running_tasks[s]` and what its coroutine is doing |
| `inactivating[s]` | `mark_user_inactive` tasks that are scheduled |
| `handler[h]` | a request: where it is, its session, the status it loaded |
| `processor` | the loop; `todo`/`done` in the timeout scan |
| `server, recovery, queueOn` | lifespan (`recovering`, `up`, `stopping`, `cancelling`), `recover_on_startup`, `app.state.task_queue` until the processor is stopped |
| `clock, requests, starts, served, crashes` | time of enqueueing, history and bounds |
| `silenced` | history: sessions whose last agent was cancelled a second time before it had announced the first |

The life of an agent task:

| `agent[s].pc` | Code of `_run_agent` |
|---|---|
| `spawned` | created, not yet inside the `try` (awaits `get_last_sequence`) |
| `running` | inside `execute_agent_task` |
| `finishing` | terminal event emitted, final status not yet committed |
| `committed` | final status committed, the `finally` clause is next |
| `cancelling` | in the CancelledError handler, before the event |
| `dead` | cancelled before the `try`: ended, still in `_running_tasks` |
| `none` | not in `_running_tasks` |

Actions follow the code from await to await. `RunTask, StartTask,
StartTaskAccept, CheckGlobal, CheckUser, CheckDaily, StartNow, MarkUserActive,
Enqueue, CommitRunning, CommitQueued, CommitFailed` are the two endpoints that
start executions; `CancelTask ... CommitCancelled` cancel; `DeleteSession,
CommitDeleted` delete; `ListSessions, ListTerminal, CommitRepair` are the repair
that listing does. `Agent...` actions are `_run_agent`. `Peek ... Undo` are
`_process_next` and `_start_task`; `Timeout...` the timeout scan;
`MarkUserInactive` the task that `on_task_complete` schedules. `Crash`, or
`StopProcessor, CancelAgents, Exit`, are the end of a process, `RecoverSession,
RecoverCommit, RecoverAbort` the lifespan of the next.

An orderly shutdown begins when the requests are served; the processor's task is
cancelled at whatever await it has reached. What comes then is not in the
repository: uvicorn raises the signal again, which ends the process, except where
the process ignores it, as the first process of a container does (the command of
`docker-compose.yml`); there `asyncio.run` cancels the agents and waits for them.
The model has both.

Two details matter more than they look. SQLAlchemy writes a column only if the
value differs from the one *loaded*, not from the one stored (`Flush`), so a
handler that loaded `running` and sets `running` does not overwrite a status
that changed since; the agent's own update reads the row afresh and always
writes. And `Interrupted` says where a `CancelledError` may lead from each point of
`_run_agent`: into its handler, past a handler that has already announced the end of a failed
execution, or out of the coroutine before its `try`. `Interruptions` is that for
all agents at once.

### 2.3 EventStream

| TLA+ | Code |
|---|---|
| `tracerSeq` | `EventingTracer._sequence` |
| `agent` | the session's execution: `starting` until the tracer exists, `running`, `ended` and `complete` when it has announced its end with an error or with completion, `done`; `submitted` between a further message and its execution, `queued` while it waits in the queue, `dequeued` while the processor announces its start |
| `tasks` | events on their way, with the next thing their task does: `publish` then `persist` (tracer), `record` then `announce` (question, queue, user message) |
| `stream`, `table` | `session:{id}:events` in Redis, the rows of `events` |
| `conn` | `event_generator`: `start_sequence`, its position in the stream, `sent_sequences` |
| `wire` | frames sent and not received |
| `source, label, attempts, connects, heartbeat, polling, poll, lastId, seen` | `source`, `connectionState`, `reconnectAttempts`, timers set by `scheduleReconnect`, `heartbeatTimeout`, `pollInterval`, a request in `pollEvents`, `lastEventId`, `seenSequences` |
| `stopped` | `isClosed` or `isTerminal` |
| `shown, repeated` | history: events given to `onEvent`, and given again |

`Emit...`, `Publish`, `Persist` are `emit_event`; `Ask`, `Submit`, `Record`,
`Announce` are events of the question tool and the endpoints, `UpdatePosition`,
`Dequeue`, `TimeoutQueued` those of the queue processor, which all take the last
number of the database; `Open` with `Subscribe`, `Forward` with `NextEntry`, `Heartbeat`,
`BreakStream`, `StopSubscriber` the server's side of a subscription; the actions
from `Receive` to `PollFails` are the closure that `connectSSE` returns. A frame
of a streaming error has the fixed number 9998, larger than any real number
(`ErrorSeq`), and moves `lastEventId` there.

Abstractions of this module:

* A client keeps all numbers it has seen and the generator all it has sent; the
  code prunes them at 1000 and 10000. The Redis stream is not trimmed and does
  not expire, and history queries have no limit.
* At most one poll is under way; its rows are read when it is sent.
* A security scan ends before the next execution of the session starts.
* The user submits a further message when the connection has stopped and no
  poll is under way, and `App.tsx` connects when the request was answered.
* A history query that fails answers with no rows, which changes nothing.
* The processor emits one event at a time; that other sessions leave the queue is
  an event of the position at any time. Submitting again while the session is
  queued is left to `Scheduler`.

### 2.4 Abstractions of Scheduler

* An operation of the queue is one step in `Scheduler`; its commands are
  interleaved in `TaskQueue`. A failing operation takes effect or does not.
* Emitting an event makes it visible to `get_latest_terminal_status` at once. In
  the code a task of its own persists it a little later.
* `list_sessions` is modelled for one session of the page at a time.
* A behaviour stays within one day (`reset_if_needed` never resets), and
  database calls do not fail.
* `ProcessorQuota` and the endpoints' checks read the same three values in the
  same order; the daily check is skipped when its limit is 0.
* A question left open may make the final status `waiting_for_input` whatever
  the outcome.
* `POST /sessions`, which only creates the row, is covered by `RunTask`.
* `LoadSession` always finds the user of a session: users are deleted by programs of
  the command line only, which `Accounts` has, and the branch of a user not found
  (`queue_processor.py:184`) is left out.
* `POST /sessions/{id}/task` names another session to resume from only through
  the refusal that may follow (`NotResumable`).

### 2.5 AskUser

`table` is the session's rows of `events`, in the order of insertion, each with
the number it was given; `status` is `Session.status`; `agent` says where the
execution is and `found` what its end read; `ask` is the call of the tool,
`handler[h]` a request to the answer endpoint, `starter` and `context` a request
to `start_task` and the answers it will tell. `acked` is history: the answers
that were reported as submitted.

`Ask...` are `ask_user_question` (read the last number, record, publish), `Agent...`
the end of `_run_agent`, which looks for open questions and then commits;
`Answer...` the endpoint (load the row, check the table, record, publish);
`Start...`, `BuildResumeContext` are `start_task`. The two readers of the table
take its first `ListLimit` rows, and a call that fails is hidden from the caller
as in the code. Validation of a question's text, which refuses a call before it
has any effect, is left out.

### 2.6 Accounts

`rows` is the table `users`, `passwd` the Linux accounts, `home` the owner of
each home; `admin[a]` is a program that creates or deletes a user, step by step
(`CreateCheck ... CreateCommit`, `DeleteFind ... DeleteUserRow`); `CleanupTestUsers` is
the third program. `Login`, `Authorize`, `LoadUser` are the API's side: a token is
the row it names, and each request looks at the row twice, once before and once
after it looks at the home and the account. `useradd`, `userdel`, `chown` and `rm`
are modelled by their effect on `passwd` and `home`, and any of them may fail
(`mishaps`); `raced` is history.

### 2.7 SessionStore

`row` and `dir` are a session's row and directory; `caller[c]` is a request with
its own copy of the row (`Load`), from which it computes what `Commit` writes.
`made`, `pending` are the checkpoint tracker's. `Commit` may fail before or after
it took effect, and is not repeated with success: the rollback expires the
object, and `with_db_retry` fails when it reads it again. `RewindTarget` is
`checkpoints[-2]`.

### 2.8 Files

`disk` maps names to contents, which are named by a version; `upload[u]` is one
request with several files: `UploadBegin` (the checks before any await),
`UploadName` (a name that cannot be sanitized, that exists and may not be replaced, or
that is a link makes an error of this file; otherwise the name is chosen, then the parts
are awaited), `UploadWrite`
(checks with the real size, redaction, temporary file, rename). Downloads find a
file before the response opens it. A name is its base, the numbers that made it
unique and the number of `.tmp` that end it.

### 2.9 PathResolution and Sandbox

A path is a sequence of names; no name of the model is the beginning of another
one. `allowed` and `present` are the mounts in the configuration and in the
container, `symlinks` the links of the workspace, `validator` and `resolver` the
entries of the two registries. `Followed` walks along the names of a path and through
the links: `Resolve` with those of the workspace, `Lexical` with none. `StartOf`,
`NormalizePath` and `Validate` are the validator, `ToDocker`, `ToSandbox`,
`ResolveFile`, `MayDelete` the resolver and the file explorer, which does not follow
links. `Configure`, `Cleanup`, `CancelSession` are a run, `FileRequest` a request that
finds no resolver and makes one without the user's mounts. A run with skills makes the
directory `.claude/skills` of the workspace again with a link for each skill
(`SkillLinked`), into `/skills` or `/user-skills`, and removes it at its end if it can
(`WithoutSkills`); a run that is cancelled leaves it, and one without skills
touches nothing.

`Sandbox` adds `filter` (the command filter), `boxMounts` (the mounts of the run's
sandbox), `command` (the command the tool waits for, with the mounts that were
bound when it started) and `left` (processes that outlived a command). `TableFor` is
the table that a run builds, `Bound` what bubblewrap binds of it, `Refuses` a source
that is missing, `LinksSeen` the links as the sandbox shows them, `Behind` what a path
means inside. `Survivors` says which processes remain when one ends: none in a
sandbox whose first process ended. A command is `timeout`, below it `sudo bwrap`
(`permissions.yaml:125`) and in the sandbox the shell. `ProcessEnds` is one that ends by
itself or by the signals of `timeout`, `AsyncTimeout` the limit of the tool: it
kills `timeout`, or the shell that runs it, so that what is below goes on.

### 2.10 Permissions

`file`, `base` are the profile on disk and the one that is loaded; `config` and
`workdir` are the rules of the session inside the configuration manager, which
replaces them when it finds a newer `permissions.json` (`legacy`, `SaveLegacy`) in
its working directory. `CanUseTool` is the callback of the SDK: bypass, disabled tools,
`Allows` (deny rules, then allow rules, then the default), and the counts of
denials, which `SumOf` adds up; `Interrupts` is the decision to end the run. `execution`
is the run of the agent and `denialTracker` the tracker that outlives the callback;
`execution.replaced` and `execution.broken` are history: a `permissions.json` took the
place of the rules, and a use was permitted that the profile denies. Paths are a directory, a name
and an extension, commands a program, its paths and a word.

### 2.11 AgentRun

`sdk` is the message that is being received, block by block; `tp` the trace
processor (open tools, subagents, tokens); `et` the eventing tracer (the text being
streamed, its header, the texts to be suppressed); `saves` the checkpoint tracker;
`log` the messages among the events; `hist` what they should be. A text is a
sequence of pieces: long, short, and the two ends of a header. Actions are the
messages of the SDK (`MessageStart ... MessageEnd`, `ToolResults`, `ResultMessage`)
and the ends of a run (`Finish`, `Denied`, `Invalid`, `Fail`).

### 2.12 FileTools

A file is a sequence of letters, one of which is what the scanner redacts.
`call` is the MultiEdit that works, read by read and write by write; `shell` counts
the writes of commands between its steps. `LS`, `Glob`, `Grep` are functions of a
directory's entries, which are cut where the code cuts them. An entry is a directory, a
file, a file that cannot be read (Grep skips it without a word) or one whose `stat()`
fails (LS answers with an error). A scan of Write that fails writes the text unmasked,
and a size that another process changed after the write makes the call fail.

### 2.13 Documents

`documents` maps a path to a document and the time of its last change, `cache` and
`index` are the cache, `reads` what is being extracted, `extracted` the members that
were unpacked, `torn` the entries whose file a crashed process wrote without the
index. `BeginRead` looks into the cache with `Key` (category, first bytes, size, time
and request, not the path), `FinishRead` stores, `StopsWriting` is a crash in between.
`ShowPages`, `ShowRows`, `ShowArchive`, `ShowOffice`, `ShowLines` are the extractors, by
pages, rows or members. `Overwrite`, `DeleteExtracted` and crashes happen at any moment.

### 2.14 UserEvents

`stored` and `recent` are the sessions and their order by `updated_at`; `known`,
`active`, `errors` the generator's variables; `told` what the client has been told.
`Poll` is one read and the events it yields, `PollFails` a read that fails.

### 2.15 Skills

`skills` is what lies in the directories of skills, `links` the links of the
workspace, `skillTools` and `agents` those of a run, `scripts` what is being executed,
`orphans` what still is though nobody waits. `StartRun` and `FinishRun` set up and remove
links, `Cancel` leaves them, `GetSkills` is the API's list. A link that cannot be made is
skipped (`Setup` is a set: any of them may be missing); when the old links cannot be
removed the run ends before it begins (`FailStart`).

### 2.16 SessionScan

`files` are the workspace's, each with a version for every change; `scan` is where
the scan is: the scan of a file is one step, and the write of its masked text
another, between which other processes write. A file is left out when one of its first
bytes (`ChunkSize`) is zero, and `Decoded` is what reading it as text makes of it: bytes
that are not UTF-8 become replacement characters and all ends of lines LF. `Matches`, `Detected`, `Secrets` are what the
scanner finds, `Redacted` how it masks, longest first; `Store` is an event's payload
on its way to the database, which is masked as text of JSON.


## 3. Runs

`tlc -workers 2 -config X.cfg M`. Bounds: two requests of one session are
enough for every duplicate; two users, each with at least one session, and
limits of 1 are the smallest instance in which one user's task can wait behind
another's. `MaxRequests` bounds requests, `MaxCrashes` crashes and
shutdowns, `MaxEnqueues`
enqueues; nothing else is cut. Handlers, and sessions of one user, are
symmetric where `SYMMETRY` is used (no liveness is checked with it). `CHECK_DEADLOCK FALSE` because a
server with nothing to do stops: all requests served, queue empty.

| Run | Question | Instance |
|---|---|---|
| `queue_faults` | `TypeOK`, `QueueBound`, `AtMostOnceDelivery` under resubmission, faults and expiry | 3 sessions, 2 handlers, 3 enqueues, limit 1 |
| `queue_reliable` | `EntryHasTask`; the commands implement `PriorityQueue` | 3 sessions, 2 handlers, 4 enqueues, limit 2 |
| `limit` | `OvershootBound`; `CountExact` and `Repairable` with late writes, timeouts, cancel, list | 3 sessions, 1 handler and the processor, 3 requests |
| `crash` | `PaidStarts`, `Repairable` when sessions are submitted, resubmitted and listed concurrently, with two crashes or shutdowns | 2 sessions, 2 handlers, 2 requests |
| `faults` | `NoOvercount` when any Redis call may fail and sessions are deleted; `TypeOK` with an overflowing queue and an aborted recovery | 2 sessions of one user, 3 requests, limit 1, daily limit 1, 1 crash or shutdown |
| `live` | `QueuedIsResolved` | 2 sessions, 2 handlers, 2 requests |
| `stream` | `TypeOK`, `NothingSkipped`, `ShownOnce` with partial messages, questions and positions in the queue | 4 events, 3 failures, polling after 2 failures in a row |
| `reach` | `TerminalReached`, also of an end in the queue | 4 events, 2 failures, polling after 2 failures in a row |
| `parts` | the 23 properties of section 3.3 | section 3.3 |

Three failures are the least with which polling itself can fail; two are enough
for polling to begin. Four events
leave room, beside the first message, for two messages and an end, for both
kinds of end and an alert, or for an end, a further message and its execution.

Every action and every disjunct of the next-state relations is taken in at
least one of them.

What the properties say:

* `CountExact`: while no session is deleted, the global counter is the number of
  entries of `_running_tasks` plus the task the processor has counted and not
  yet handed over. Four pieces of code change the two sides at different times.
* `NoOvercount`: with deletions and failing Redis calls the counter may be too
  low (see findings), never too high: no slot of the global limit is lost.
* `OvershootBound`: the check and the increment are apart, so the limit is
  exceeded, by at most one task per concurrent request.
* `PaidStarts`: executions of a session never exceed requests plus recorded
  resume attempts, across crashes, resubmission and recovery. It excludes
  queue overflow and Redis failures, because a recovery that is rolled back
  leaves entries in Redis whose attempts were never recorded, and `Aged`
  sessions, which are the ones nobody recovers.
* `Repairable`: a session left as `running` with no agent, because the last
  write was a late one, has a terminal event, so listing repairs it.
  It excludes sessions in `silenced`, whose agent was cancelled twice and left no
  event. (It used to exclude only states in which two cancellations overlap; the
  attempt to prove that showed that their effect outlasts them: a cancellation
  that had loaded `cancelled` writes nothing after the processor wrote `running`.)
* `QueuedIsResolved`: no session stays queued for ever.
* `QueueBound`: ZCARD and ZADD are apart, so the limit of the queue is exceeded,
  by less than the number of concurrent handlers.
* `NothingSkipped`: each number that the generator has gone past, and the client
  did not have when it subscribed, is shown or on the wire, in whatever order
  events were published. With the largest number sent in place of the set of
  numbers it fails. It speaks of numbers: that two events may have the same one
  is the subject of run `missed`.
* `ShownOnce`: no event of the agent is shown twice, although stream and polling
  may run side by side, timers overlap, and a further message starts a new
  connection with an empty set of seen numbers.
* `TerminalReached`: once the end of an execution is in the database the client
  stops or has gone past it. It says nothing of ends that were not stored, see
  3.2.
* `AtMostOnceDelivery`, `EntryHasTask`, `ReliableQueue`: what the sorted set and
  the keys together give although no operation on them is atomic.

### 3.1 Fairness

In `Scheduler`, `FairSpec` is used by `live` and `release`. Weak fairness of a request's
steps, of the agent's steps, of scheduled tasks, of the processor's step, of
recovery and of a shutdown that has begun is the event loop running what is ready; an execution ends because
`ClaudeAgent.run` bounds it by a timeout. There is no fairness for requests,
cancellations, faults, crashes and shutdowns. The timeout scan has strong fairness: the
loop makes one whenever its interval has passed, between two rounds of
`_process_next`, during which it is not enabled; and a session that stays
queued is older than the cutoff in the end. `QueueTimeout = FALSE` models
`task_timeout_minutes = 0`, which turns the scan off.

In `EventStream`, `FairSpec` is used by `reach`: weak fairness of the agent's
course, of the tasks of events, of the server's generator, of the client's
reaction to frames, ends and timers, and of polling. Each is an event loop that
runs what is ready. Messages, submissions and failures have none, nor has the
60 s timer that goes back from polling to the stream.

### 3.2 Where code and documentation differ

Each of these is a run that TLC must find violated; `PROJECT.json` quotes the
line that says otherwise.

| Run | What happens |
|---|---|
| `user` | the processor checks one user's limit and starts another user's task |
| `release` | an agent cancelled very early occupies a slot until a restart |
| `missed` | a question and another event have the same number, and the stream drops one of them |

`release` assumes `FairSpec`; it ends in a state where nothing that could
remove the task is enabled. `missed` needs no failure.

The models contain more disagreements, which have no run of their own. Each
formula below is violated in the configuration named next to it.

| The repository says | Formula | Configuration |
|---|---|---|
| `api.yaml.example:130`, maximum of concurrent tasks across all users | `queueOn => Cardinality(RunningTasks) <= GlobalMax` | `crash` |
| `api.yaml.example:132`, maximum of tasks of a user in a day; only queued tasks are counted | `\A u \in Users : Cardinality({s \in Of(u) : starts[s] > 0}) <= DailyMax` | `faults` |
| `quota_manager.py:199`, number of active tasks; a deletion during `_start_task` makes it lower | `queueOn => globalActive >= Cardinality(RunningTasks)` | `limit` with the endpoints run and delete and 4 requests |
| `sessions.py:621`, only sessions that do not run are deleted | `[][\A s \in Sessions : status[s] = "running" => status'[s] # "deleted"]_vars` | `faults` with 2 handlers |
| `main.py:264`, without the queue tasks start immediately; queued ones wait for ever | `\A s \in Sessions : server = "up" /\ ~queueOn /\ status[s] = "queued" ~> status[s] # "queued"` | `faults` under `FairSpec` with 2 requests and the endpoint list in place of delete |
| `agent_runner.py:240`, always emits a completion or error event; a second cancellation interrupts the handler before it does | `[][\A s \in Sessions : s \in RunningTasks /\ agent'[s] = NoAgent /\ server' = "up" => terminal'[s] # "none"]_vars` | `crash` with `Sessions = {s1}`, `Owner <- Alone`, no symmetry, the endpoints run and cancel, 3 requests and no crash |
| `queue_processor.py:332`, tasks queued too long are failed; a late write makes a running one look queued | `[][processor.pc = "timeout" /\ processor'.pc = "idle" => \A s \in RunningTasks : status'[s] = "failed" => status[s] = "failed"]_vars` | `limit` with `Sessions = {s1, s2}`, `Owner <- TwoUsers`, no symmetry and only the endpoint run |
| `auto_resume.py:5`, interrupted sessions are queued for resumption; the active set of before the crash keeps them from starting | `\A s \in Sessions : attempts[s] > 0 /\ status[s] = "queued" ~> status[s] # "queued"` | `live` with `Sessions = {s1}`, `Users = {u1}`, `Owner <- Alone`, 1 handler, 1 request, 1 crash, `QueueTimeout = FALSE` |
| `agent_runner.py:240`, a completion event so that the frontend knows the end; not if it is neither published nor stored | `agent = "done" ~> stopped` | `reach` with 1 failure |
| `sse.ts:39`, periodic upgrade attempts from polling; a failed attempt leaves a label under which none is made | `polling /\ source = "none" => label # "reconnecting"` | `stream` |
| `sse.ts:284`, the client stops at a terminal event; the answer of a poll is shown after it | `[][stopped /\ stopped' => shown' = shown]_vars` | `stream` with `Messages = {}` and 2 failures |
| `sessions.py:992`, terminal events end the stream of an execution; after an error and a completion the next execution's stream starts with the old completion | `[][~stopped /\ stopped' /\ agent = "running" => StreamingError \in shown' \ shown]_vars` | `stream` with `Messages = {}`, 5 events, no failure |
| `api.yaml.example:125`, maximum of pending tasks; ZCARD and ZADD are apart | `Cardinality(pending) <= MaxQueueSize` | `queue_faults` |

Besides, a queued session that is cancelled stays in the queue and starts later
(`cancel_task` does not call `TaskQueue.remove`, whose documentation names that
use), and a task whose enqueue was reported as unavailable may be executed,
because nothing is undone when the answer of ZADD is lost.

### 3.3 Run `parts`

`MCSystem` extends the eleven modules that have theorems, so that those of section 4
speak of the formulas that are checked, and makes an instance of `SessionScan` with
variables of its own. A behaviour is one of one part (`part`); the variables of the
others keep their initial values, those of the scan have none. The parts do not share state in the
model: what one assumes of another is written at the head of its module (what
paths mean, what becomes of an event). One run therefore asks 23 questions of
twelve small state spaces, about 810 000 states together.

| Part | Instance | Why it is enough |
|---|---|---|
| `ask` | 2 questions, 2 answers, 2 requests, 2 executions, 1 failure; `ListLimit` above the number of events | two answers to one question, and one to a question while another is open; the second start finds questions of the first |
| `accounts` | 2 names of which one is a test user, 2 programs, 1 client, 2 UIDs, 2 rows, 1 failure | both programs want one UID, or each has its own; the account of a deleted user remains |
| `store` | 2 requests, 3 tool calls, 1 run, 1 failure | a stale copy of a list of two or three checkpoints is written back, a rewind has something to cut |
| `files` | 1 upload of 2 files, 1 download, 2 names of which one ends in `.tmp`, redaction that makes a file three times as long | the temporary file meets the other name, the limit is met by a file that grows |
| `sandbox` | 1 mount name of either kind, 21 paths over all areas, hidden names, ways up and out, a link of the agent to a mount or to the directory of the skills, a global skill and one of the user; 3 commands, 2 sets of rules | every branch of both translations of paths is taken, also through the links of a run that was cancelled |
| `permissions` | 2 profiles, a `permissions.json` that denies everything or allows what no rule names, 9 uses of 3 tools, interrupt after 3 denials, 2 runs, 2 changes of files | denials of two tools in every order up to the limit, a profile exchanged between runs |
| `run` | 2 tools of which one is a subagent, 2 texts of the agent and 1 of the subagent, 3 messages, streamed or not | a text with a header, one that begins with a short piece, one text repeated, messages of agent and subagent in turn |
| `tools` | 2 files, lists of up to 2 edits, 4 contents, directories of up to 3 entries of all kinds, limit 2 | two edits of one file, a limit reached among hidden entries or those that cannot be read |
| `documents` | 3 paths, 4 documents (of the archive a member is extracted) of which two have the same first bytes and size, cache for 3 units, 2 callers, clock to 4, age 2 | entries are evicted, expire and are found again, also under another path |
| `events` | 3 sessions, window of 2, 2 failures | a session falls out of the window |
| `skills` | 2 names that become one tool, 3 places, 2 runs | a skill hides another, is removed between runs, a run is cancelled |
| `scan` | 3 files of which one is read-only, limit of 1 file, 3 finders, 3 texts, 2 writes, 2 scans | a secret inside a longer one, a password that is a mask, bytes that are not text and other ends of lines beside it, a write between read and write |

Two requests, callers, administrators or sessions of a user are interchangeable and
are declared symmetric; nothing tells one from the other, and no liveness is checked here.
`CHECK_DEADLOCK FALSE`: every part is bounded and stops.

| Property | What it says |
|---|---|
| `TypeOK` | the variables of the part that takes steps keep their types (`AskTypeOK`, `AccountsTypeOK` and so on) |
| `CompleteHasNoOpenQuestion` | as long as no call fails and `list_events` returns all events (`Whole`), a session is complete only if all its questions were answered |
| `ContextHasAnswers` | an execution that resumes is told an answer to each answered question, and the last one if several were given |
| `SharedUidHasNoAccount` | two users may get one UID, but at most one of them has the Linux account |
| `AccountIsComplete` | a user whom nobody is changing owns his home and can log in |
| `RowHasDirectory` | no row without a directory; a directory without a row only in between or after a failure |
| `StoredOnce` | no checkpoint and no run is stored twice, checkpoints stay in order, whatever overlaps, fails or rewinds |
| `UploadsKeepRules` | an upload without overwriting leaves other files alone; the limit for all files holds up to what redaction adds |
| `SameFile` | tools and file explorer mean the same file by the same path |
| `ReadOnlyIsKept` | tools write outside read-only mounts, the explorer deletes nothing that it lists as read-only |
| `BashSeesSameFile` | a command that finds a file under a path finds the one that the tools mean, and cannot write it where it is in a mount that is read-only for them (the workspace itself is bound for writing as a whole); what the tools take for the skills of the user is apart, see 3.4 |
| `NothingIsLeft` | a command whose output ended, and was answered for, has left no process in the sandbox; one that was cancelled or ran into the limit may, see 3.4 |
| `DenyRulesHold` | what a rule of the profile denies is not permitted in the run that began with it, unless a `permissions.json` that somebody wrote meanwhile has taken the place of the rules |
| `StopsInTime` | a run that goes on has been denied less than twice the limit |
| `TextOnce` | between messages the log has every text once, in order, without its header and with the outcome of the tools before it; except for the texts of section 5 that can be taken for another |
| `SubagentsEnd` | when a run is reported as complete each of its subagents was reported as ended, once |
| `RejectedChangesNothing` | a refused call has changed no file |
| `CutIsAnnounced` | a search that shows something and leaves out an entry because of its limit says so; what Grep cannot read it skips silently |
| `CachedIsCurrent` | an answer from the cache is what the document would give now, or what one of another path gave that has the same key: the key has the category, the first bytes, size, time and request, but not the path |
| `CacheFits` | the cache keeps to its size, over crashes, except for files no index knows |
| `StatusIsTold` | after a read the client knows the status of each session that stayed in the window, whatever failed before |
| `LinksAreListed` | the links of a run are the skills the API lists, but for a link that could not be made, whatever earlier runs left |
| `OnlySecretsGo` | a scan that no other process interferes with changes nothing of what it decoded but the secrets, also where one is part of another |

Fairness is not needed: all of these are safety properties.

### 3.4 What the code does not keep

Formulas of the modules that the code violates, in the instance of `parts`
unless another is named. They stand at the end of their modules.

| The repository says | Formula |
|---|---|
| `ag3ntum_ask/tool.py:302`, `"latest"` is the most recent open question; the first one of the table is taken | `AskUser!LatestIsLast` |
| `ag3ntum_ask/tool.py:75`, "When resumed, you will receive the user's answers in the context"; an answer that arrives before the execution has ended is told to nobody | `AskUser!AnswerReachesAgent` |
| `agent_runner.py:446`, an open question makes the session wait; not one after the first 1000 events | `AskUser!OpenQuestionWaits`, with `ListLimit = 2` |
| `user_service.py:198`, "Next available UID in the valid range"; `delete_user.py:58` keeps the Linux account of the highest UID, and every later creation fails | `Accounts!NextUidIsAvailable` |
| `auto_resume.py:4`, sessions that were running when the container restarts are queued again; an agent that an orderly shutdown cancels stores `cancelled`, which nobody resumes | `Scheduler!RunningIsResumed`, instance of `crash` |
| `sessions.py:1002`, an error of the stream is an event with the id 9998; the client asks for later ones only, and does not see the end of the execution | `EventStream!TerminalShown`, instance of `reach` |
| `permissions.yaml:251`, commands reach the persistent directory by a link of the workspace; the link leads to its path in the container (`sessions.py:352`), and the sandbox mounts it at `/persistent` only | `Sandbox!PersistentLinkLeads` |
| `permission_profiles.py:653`, "Set _last_modified to prevent reload from file"; a `permissions.json` written after that time replaces the rules, also by laxer ones | `Permissions!ProfileDecides` |
| `ag3ntum_multiedit/tool.py:41`, all edits are applied; of two edits of one file the second starts from what was read before the first | `FileTools!EditsAreApplied` |
| `trace_processor.py:1092`, tokens of a message; what is shown while it streams may be more than what was used | `AgentRun!ShownIsSpent` |
| `read_document/tool.py:99`, "extract"; the answer from the cache names a file that may have been removed | `Documents!ExtractedIsThere` |
| `read_document`, "Last 50 rows"; the range counts the rows that were loaded (`tabular.py:133`) | `Documents!TailIsLast` |
| `auth.py:107`, queue position updates; a place that changes alone makes no event | `UserEvents!PlaceIsTold`, with `MaxPlace = 2` |
| `agent_core.py:461`, user skills are the same mount for the tools and for commands; only the sandbox has it, `docker-compose.yml` mounts `./skills` alone | `Sandbox!UserSkillsAreSame` |
| `ag3ntum_bash/tool.py:291`, "forcibly killed"; `process.kill()` reaches `timeout` or the shell, and what is below `sudo` goes on | `Sandbox!TimeoutKills` |
| `sensitive-data-scanner.yaml:15`, an alert is dismissed once; the pattern for passwords finds its own asterisks in the next scan | `SessionScan!ReportedOnce` |
| `session_scanner.py:284`, masking in place; what was not UTF-8 and the ends of lines are written back as they were decoded | `SessionScan!RestStays` |
| `session_scanner.py`, masking in place; what another process writes between the scanner's read and write is lost | `SessionScan!WritesSurvive` |
| `scanner_config.py:58`, "Content has been redacted"; also when the write failed | `SessionScan!AlertsAreTrue` |
| `event_service.py:208`, payloads are masked as text; a value that ends in an escaped quote takes the escape with it and the row is read as `{}` | `SessionScan!StoredIsReadable` |


## 4. Proofs

`tlapm` on `TaskQueueProofs`, `SchedulerProofs`, `EventStreamProofs`,
`AskUserProofs`, `RecordProofs`, `ServiceProofs`, `AgentProofs` and `PathProofs`.
Assumptions are those on the constants, which the modules name
(`TaskQueueAssumption`, `SchedulerAssumption`, `SwitchAssumption`,
`StreamAssumption`, `AskAssumption`, `AccountsAssumption`, `StoreAssumption`,
`FilesAssumption`, `UserEventsAssumption`, `SkillsAssumption`,
`PermissionsAssumption`, `AgentAssumption`, `FileToolsAssumption`,
`DocumentsAssumption`, `PathAssumption` within `SandboxAssumption`) and which TLC
evaluates in every run that uses them, and those the table names. Sessions and
handlers of the scheduler, callers of the record, the uses of tools in
`Permissions` and the names of mounts are finite sets of any size; all other sets are
any sets, limits any naturals. `AgentAssumption` says that no text of a subagent
equals a text of the agent, for the reason given in section 5. `PathAssumption`
says that the names which the code gives to directories are among the names, and
that a link of the agent leads to a path without `..` which is not the root and leads
through no link of the workspace again: it is not below `external`, the agent's own
link or the directory of the skills, though it may be one above that. `Followed` does
not follow a chain of links.

| Theorem | Statement |
|---|---|
| `TaskQueueProofs!TypeCorrect` | `Spec => []TypeOK` |
| `TaskQueueProofs!QueueBounded` | `Spec => []QueueBound`, for finitely many handlers |
| `TaskQueueProofs!DeliveredOnce` | `Spec => []AtMostOnceDelivery` |
| `TaskQueueProofs!EntriesHaveTasks` | `Spec => []EntryHasTask`, under `NoDisturbance` |
| `TaskQueueProofs!ImplementsReliableQueue` | `Spec => ReliableQueue`, under `NoDisturbance` |
| `SchedulerProofs!TypeCorrect` | `Spec => []TypeOK` |
| `SchedulerProofs!RowInvariant` | `Spec => []RowInv` |
| `SchedulerProofs!NeverOvercounts` | `Spec => []NoOvercount` |
| `SchedulerProofs!CountsExactly` | `Spec => []CountExact` |
| `SchedulerProofs!RoomInvariant` | `Spec => []Room` |
| `SchedulerProofs!OvershootBounded` | `Spec => []OvershootBound` |
| `SchedulerProofs!RepairInvariant` | `Spec => []RepairInv` |
| `SchedulerProofs!RunningIsRepairable` | `Spec => []Repairable` |
| `SchedulerProofs!PaidInvariant` | `Spec => []PaidInv` |
| `SchedulerProofs!StartsArePaid` | `Spec => []PaidStarts` |
| `EventStreamProofs!TypeCorrect` | `Spec => []TypeOK` |
| `EventStreamProofs!SkipsNothing` | `Spec => []NothingSkipped` |
| `EventStreamProofs!ShowsOnce` | `Spec => []ShownOnce` |
| `AskUserProofs!AskTypesAreKept` | `AskSpec => []AskTypes` |
| `AskUserProofs!AskTypeCorrect` | `AskSpec => []AskTypeOK` |
| `AskUserProofs!NothingAskedIsLeftOpen` | `AskSpec => []CompleteHasNoOpenQuestion` |
| `AskUserProofs!ContextTellsAnswers` | `AskSpec => ContextHasAnswers` |
| `RecordProofs!AccountsTypes` | `AccountsSpec => []AccountsTypeOK` |
| `RecordProofs!SharedUidIsHarmless` | `AccountsSpec => []SharedUidHasNoAccount` |
| `RecordProofs!AccountsAreComplete` | `AccountsSpec => []AccountIsComplete` |
| `RecordProofs!StoreTypesHold` | `StoreSpec => []StoreTypeOK` |
| `RecordProofs!RowsHaveDirectories` | `StoreSpec => []RowHasDirectory` |
| `RecordProofs!NothingStoredTwice` | `StoreSpec => []StoredOnce` |
| `ServiceProofs!StatusesAreTold` | `EventsSpec => []StatusIsTold` |
| `ServiceProofs!LinksFollowTheList` | `SkillsSpec => []LinksAreListed` |
| `ServiceProofs!UploadsAreRuled` | `FilesSpec => UploadsKeepRules` |
| `ServiceProofs!CachedAnswersAreCurrent` | `DocumentsSpec => []CachedIsCurrent` |
| `ServiceProofs!CacheKeepsItsLimit` | `DocumentsSpec => []CacheFits` |
| `AgentProofs!DenyRulesAreKept` | `PermissionsSpec => []DenyRulesHold` |
| `AgentProofs!DenialsStopTheRun` | `PermissionsSpec => []StopsInTime` |
| `AgentProofs!RejectedCallsChangeNothing` | `ToolsSpec => []RejectedChangesNothing` |
| `AgentProofs!SubagentsHaveEnded` | `RunSpec => []SubagentsEnd` |
| `AgentProofs!TextsAreToldOnce` | `RunSpec => []TextOnce` |
| `AgentProofs!CutsAreAnnounced` | `ToolsSpec => []CutIsAnnounced` |
| `PathProofs!SandboxImplementsPaths` | `SandboxSpec => PathSpec` |
| `PathProofs!ToolsAndExplorerAgree` | `SandboxSpec => []SameFile` |
| `PathProofs!ReadOnlyIsOneThing` | `SandboxSpec => []ReadOnlyIsKept` |
| `PathProofs!CommandsSeeTheSameFile` | `SandboxSpec => []BashSeesSameFile` |
| `PathProofs!NothingOfACommandIsLeft` | `SandboxSpec => []NothingIsLeft` |

The argument. Type correctness is proved with one lemma per group of actions. It
is inductive by itself in `TaskQueue` and `Scheduler`; the others need what a
program has chosen when it is where it is (`Working`), that no copy of a row counts
too many turns, or `Bounded`.

`CountExact` is not inductive: if the commit in `StartQueued` failed because the
row is gone, the except clause would decrement what was never incremented.
`RowInv` excludes that: without the delete endpoint a row that exists keeps
existing, so the processor, which has seen the row in `LoadSession`, finds it in
`StartQueued`. Its other parts say that no handler, agent or recovery ever
writes a status that would make a row appear deleted, and that nobody is at work
during recovery. With `RowInv` each action changes `globalActive` and
`Cardinality(RunningTasks) + Claimed` by the same amount; lemmas on the
cardinality of `RunningTasks` after a spawn, a cleanup and an interruption carry
the counting. `NoOvercount` needs no `RowInv`, since a superfluous decrement
only makes the left side smaller.

`OvershootBound` follows from `CountExact` and `Room`: `globalActive` plus the
handlers that have passed the check of the limit plus the processor if it has
passed it, is at most the limit plus the number of handlers. A handler that
passes the check finds `globalActive < GlobalMax`; itself, the other handlers
and the processor make up the rest.

`Repairable` needs to know who will still write. `RunningIsHeld` says of a
session stored as `running` that it has an agent, or is `Settled` (a terminal
event, deleted, or in `silenced`), or that the processor is between its commit and
the start (`Launching`), and during recovery that it is still to be taken or was.
A late write can only come from a handler that has started the session: it is in
`RunningTasks` or settled until that handler has committed (`EndsAreSettled`),
because the agent announces its end before its task ends. `NothingElseRuns`
excludes every other write of `running`, `RowWasThere` makes writes to a missing
row impossible.

`PaidStarts` is an account with four sides. `Claims(s)` counts what was started
of `s`, the requests that may still start it or put it into the queue, its
entry in the queue and the processor that has taken it, less what was requested;
`Owed(s)` is the attempt that a recovery records at its end for what it put into
the queue. `Balance` says `Claims(s) <= attempts[s] + Owed(s)` and that starts
less requests never exceed attempts. It needs that a session has one entry
(`OneEntry`) and that what a recovery has staged is still running or queued in
the database, so that one that starts again takes it too (`Recoverable`).

`NothingSkipped` is split in two (`SkipInv`): what the generator has gone past is
in `conn.sent`, unless the client had its number at the start; and the numbers
of `conn.sent` are shown or on the wire. Both are inductive with a third part,
that the client marks a number as seen only when it shows it, without which a
frame might be taken from the wire and dropped. The stream only grows, so what
lies behind the generator stays as it is. `EventStream!TypeOK` needs `Bounded`,
that no number runs ahead of the events created.

`ShownOnce` needs `OnceInv`. When its user writes again the client forgets the
numbers it has seen, and everything that could then be shown twice (`Again`) must
lie behind the client: at or below `lastId` and the start of the open
subscription, below every frame and every polled row (`PastInv`). That holds when
the connection begins, since it starts at the greatest number shown; it stays so
because the user's message is alone on its way while the client has stopped
(`SubmitInv`, `StopInv`), and because the only number above all events is the one
of a streaming error, which never stands for an event of the agent (`RealInv`).

`QueueBound` follows from `SizeInv`: the sorted set together with the handlers
that have passed the check of the size, and not yet added, has fewer members
than the limit and the handlers together. `AtMostOnceDelivery` needs `TicketInv`,
which says where an enqueue can be: with a handler that has not written it, in
one task key, or delivered; the key that the worker has read and not yet deleted
is the only overlap.

`EntryHasTask` is not true in general: after an enqueue of a session that is
still in the queue, a failed command or an expired key, an entry may be left
without its task (that is what `DequeueGet` drops). `NoDisturbance` is the
absence of these three, `~Resubmit /\ ~Faults /\ ~Expiry`. Under it `EntryInv`
is inductive: a session is with at most one handler, or in the queue, or with the
worker, and its key holds what the entry says. The refinement maps the tasks
that have an entry to `waiting` and the task of the session the worker holds to
`hand`; SET is no step of the priority queue, ZADD puts, ZPOPMIN takes, DEL hands
over, `remove` withdraws. `EntryInv` makes the mapped task unique.

In `AskUser`, `CompleteHasNoOpenQuestion` is inductive once it also covers the
execution that has looked for open questions and found none, and says that nobody
asks when no execution runs (`NothingOpen`). `ContextHasAnswers` needs `ToldInv`:
every answer reported as submitted has its row, after the rows of the answers it
knew of (`AnswersAreStored`). A row gets the largest number plus one at a moment
when those rows are there, and numbers are not given back, so it comes later in
the list; two rows of one number are told apart by their place. That needs in
turn that an answer to be recorded is nobody else's (`AnswersAreOwn`).

In `Accounts`, that useradd refuses a UID in use carries
`SharedUidHasNoAccount`. `AccountIsComplete` needs to know what a program has
done when it is where it is: `Alone` says it of one name, its home, its rows and
the one program that works on it; a second program on the name puts the name
into `raced`, for which nothing is claimed.

`RowHasDirectory` needs `DirectoryInv`: who creates a session is alone with it,
because its name is new, and a row that was deleted does not come back, since a
commit writes only to a row that is there. `StoredOnce` needs the same order for
the list of every copy as for the row: a copy may be stale, and a commit may put
the stale list back, but no list ever holds what was not taken or in another
order; and `row.turns <= runs` for every copy.

`StatusIsTold` is inductive with `ToldIsKnown`: the client was told of nothing but
sessions of the last read, and of every session of the last list. `LinksAreListed`
compares two things that are computed at different times from the directories, so
`SkillsInv` says of each that it is what would be computed now: the list as long as
no skill came or went since, the links as long as `changed` is false.

`UploadsKeepRules` needs to know what a request in progress has found.
`LaterThanSeen` says that a file under the name that was found free was written
after the request looked, so that `UploadWrite` replaces nothing older. The limit
is checked with the size before redaction and counted with the size after it: a
file that passes the check leaves the total at most `(Growth - 1) * MaxFile` above the
limit, and then no further file passes, because a total above the limit fits no file.

`DenyRulesHold` follows from `RulesArePromised`: until a newer `permissions.json` is
read, the rules of the manager are those with which the run began. `StopsInTime`
needs `CountsAgree`: the denials of the tracker are the sum of the counts of the
callback. The sum is the cardinality of the pairs of a tool and a number up to its
count (`Each`), so that one denial more adds one pair (`OneMore`) and no
induction over tools is needed.

`RejectedChangesNothing` needs that a MultiEdit has changed nothing while it
checks (`CallChangesNothing`), and that a call that applies its edits can no longer be
rejected. `SubagentsEnd` needs `SubagentsAreKnown`: the trace processor's
subagents are those whose calls are running, and of the others those that have
begun were reported once; then whoever is left when the run completes is
reported in that step.

`TextOnce` is the most involved. `Told` holds while no text so far was ambiguous,
and relates the tracer to the message that is received: `StreamIsRead` says that
the stream is what `Consume` makes of the pieces received (`HasRead`), piece by
piece; `RepetitionIsKnown` that a text whose stream has ended is remembered until its
block arrives, and that nothing else will be taken for a repetition;
`ParentIsKnown` that a message of a subagent is received only while it runs, so
that its pieces are not taken for the agent's. `HeaderIsFollowed` is the lemma on
data behind it: whichever way a text is cut into pieces, what `Extract` releases,
followed by the pieces that come later, is what follows the header of the whole
(`AfterHeader`). It takes the first end of a header as the least index of one
(`HeadersEnd`), by well-foundedness of the naturals and not by induction. The attempt
showed that two guards of `Consume` overlapped, and that a text which is nothing but
a header is one of the ambiguous ones.

`CachedIsCurrent` needs to know which document an entry is of. `CurrentInv` says that
a time of change is given once (`StampsTell`), that a call in progress has the key of
its document as it was when the call began (`CallsFit`), and that an entry shows what
the document would show that has its key now, if any has, or what a document of another
path with that key did (`EntriesFit`). A document
that was overwritten while it was read has another time, so that what was extracted
is found under no key again. Two requests of one key show the same, because the key
has every argument that an extractor uses (`SameKeyShowsSame`, by category). `CacheFits`
counts: what the entries take is a set of units, so that the sum of sizes is one
cardinality (`UseIsCounted`), and evicting the oldest entries of the index until
enough is freed leaves at most the limit, or no entry that the index knows
(`EnoughIsEvicted`). No fold over the entries is needed.

`CutIsAnnounced` rests on `FirstOfFew`: of places in order the first ones are all of
them, if there are at most as many. `SearchAnnounces` has a case for each of the three
tools, which announce by different numbers: LS and Glob by that of all entries, Grep
by that of the lines found.

For the paths, `Followed` is a recursive function over the names of a path, and what it
computes for every path would need an induction. The proofs take the least index
at which a walk differs from what is claimed (`WellFoundedInduction` on the naturals),
and get from its step a contradiction. `PathInv` is inductive: types, links of the
workspace that lie below `external`, are the agent's own or those of skills, and lead
below no other link (`LinksAreOurs`), and a running agent whose validator and resolver have the
mounts of one reading (`RunIsConfigured`). `SameFile` then compares, area by area, where
the validator's walk starts (`StartOf`) with what the longest mapping of the resolver
gives. `ReadOnlyIsKept` has two halves. A path that a walk has reached is no longer
changed by another (`FollowedIsFree`), so that what the validator has permitted is
what is written, and the resolver shows every writable root as writable
(`WrittenIsWritable`, root by root). What the explorer lists as read-only has a
read-only type for the resolver, or no place in the container (`ListedStays`).

`BashSeesSameFile` adds a third reader. `ShellInv` says besides where every link of the
workspace leads (`LinksLead`), and that each mount of a run's table is of one of four
kinds, of which only the workspace and three places have another path inside than
outside (`Placed`). The order in which the user's mounts stand in the table is any one
(`SetToSeq`): whichever mount is the last that covers a path, the path behind it is
the same. A path of the workspace meets the agent's own link, which may lead to the
links of skills, then the link of a skill, of a mount, or of the persistent directory,
and no other after that; `LedOn` says that the walk goes on from
where that link leads, outside and inside alike (`ThroughLink`), and what is read-only
for the tools is bound read-only by the kind of its mount. The claim is
false for the skills of the user, which runs link themselves: what the tools take for a
path below `/user-skills` is set apart, and `UserSkillsAreSame` (3.4) says what a comment
claims of it. `NothingIsLeft` follows from each way in which a command can end, and says
nothing of one that was cancelled or ran into the limit of the tool; `SandboxImplementsPaths` from the shell's steps, which
leave the paths alone or are steps of them.

Model-checked only:

* `OnlySecretsGo`: what is masked is a fold over the secrets, longest first, whose
  result depends on the order; and `SessionScan` has no theorems for that reason.
* `TypeOK` of `MCSystem`, except for the parts proved in the modules of proofs.
* Liveness (`QueuedIsResolved`, `TerminalReached`), which is out of the prover's
  reach, as is ENABLED.

## 5. Not modelled

Of modelled parts:

* Scheduler: a change of the day. `auto_resume.enabled = false` is the case of
  `Aged` in which nothing is recovered; the proofs cover it, the runs do not.
* EventStream: pruning of the sets of numbers, trimming of the Redis stream, limits
  of history queries, two polls at once.
* PathResolution: Unicode, null bytes, and `lstrip("./")`, which makes the relative
  name `.h` the name `h` (the model has it as a table of hidden names);
  the entries that cancelled runs leave in the registries are kept, as in the code.
* Sandbox: environment variables, seccomp profiles, network rules. A command
  survives the limit of the tool and the cancellation of a run, in the sandbox and
  outside (`left`); how long it lives on is not said. Of two links in a chain the second is
  not followed. The host paths of mounts that the container sees (`Reachable`) do not
  change while the process runs.
* AgentRun: thinking previews, console output. A headed text that is repeated
  after its stream is logged twice, a text of less than three characters is doubled,
  of a text that is nothing but a header no event is left when it is streamed, and a
  subagent's text that equals the last one of the agent is dropped:
  `TextOnce` counts with these four. An exception or a cancellation neither ends
  subagents nor announces completion.
* FileTools: sizes, encodings, line numbers. Grep and Edit redact nothing, and a
  write that fails leaves a truncated file. Grep skips files that it cannot read and
  does not say so; `CutIsAnnounced` counts with that.
* Documents: 7z, images, audio, columns, sheets, metadata, patterns of members. A
  copy that keeps its time, and is overwritten while it is extracted, gives an
  entry with a key of the old and an answer of the new document; the model's clock
  excludes it. A page whose OCR took too long is cached like the others.
* UserEvents: heartbeats. A session that leaves the window while it runs, or ends
  while nobody is connected, is not reported.
* Skills: texts of prompts, and execution outside a run, which nothing calls. A
  script that takes too long goes on; two skills whose names become one tool hide
  one another.
* SessionScan: a file that another process writes between read and write loses that write
  (`WritesSurvive`), and decoding changes what is no secret (`RestStays`); both are in
  3.4, and `OnlySecretsGo` speaks of neither. What a regular expression may say; a finder is a prefix and a
  class of characters. `excluded_paths` of the configuration is never used, and a
  read-only area is whatever begins with its name.

Other parts:

* LLM proxy (`src/api/routes/llm_proxy.py`): translates one request at a time and
  keeps nothing. Its streaming branch awaits `client.stream(...)`, which is no
  awaitable in httpx, and never works.
* Web fetch: one request under a list of rules, nothing kept.
* Hooks, `Conversation` and the older permission manager: no caller in the agent.
* Output formats, schemas, prompts, templates: text.
* `scripts/`, health and configuration endpoints: they read and report.
* `ConnectionManager.ts`: the logic of `connectSSE` in a class that `App.tsx` does
  not use. The views of the web client draw what its connection keeps.

Left to do: an abstract specification that `EventStream` implements (each number
once), and the composition of `TaskQueue` and `Scheduler` for the active sets.
