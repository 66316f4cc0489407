----------------------------- MODULE Scheduler -----------------------------
(***************************************************************************)
(* How Ag3ntum decides which agent runs when: the session endpoints of     *)
(* api/routes/sessions.py, QuotaManager, QueueProcessor, AgentRunner and   *)
(* AutoResumeService, one API process over a SQLite database and Redis.    *)
(*                                                                         *)
(* The process is one asyncio event loop.  A step is the code between two  *)
(* awaits, or the one database or Redis call awaited there: everything     *)
(* else may run between two steps of one handler.  The commands inside one *)
(* operation of the task queue are interleaved in module TaskQueue; here   *)
(* an operation of the queue is one step.                                  *)
(***************************************************************************)
EXTENDS Integers, FiniteSets

CONSTANTS
    Sessions, Users, Handlers,  \* session ids, users, concurrent requests
    Owner,              \* the user of each session
    Priority,           \* User.queue_priority of each user
    PriorityWeight,     \* the 1_000_000 of the queue's score
    GlobalMax,          \* quotas.global_max_concurrent
    UserMax,            \* quotas.per_user_max_concurrent
    DailyMax,           \* quotas.per_user_daily_limit, 0 = unlimited
    MaxQueueSize,       \* queue.max_queue_size, 0 = unlimited
    MaxAttempts,        \* auto_resume.max_resume_attempts
    Endpoints,          \* the endpoints that clients call
    Outcomes,           \* how executions end: "complete", "failed"
    QueueTimeout,       \* may a queued task outlive task_timeout_minutes?
    RedisFaults,        \* may a Redis call fail?
    Aged,               \* may a session be older than max_session_age_hours
                        \* when the server restarts, or auto_resume be disabled?
    MaxRequests,        \* bound: requests in one behaviour
    MaxCrashes,         \* bound: crashes and shutdowns in one behaviour
    NoSession

ASSUME SchedulerAssumption ==
    /\ IsFiniteSet(Sessions) /\ IsFiniteSet(Handlers)
    /\ Owner \in [Sessions -> Users]
    /\ Priority \in [Users -> Nat]
    /\ PriorityWeight \in Nat
    /\ GlobalMax \in Nat /\ UserMax \in Nat /\ DailyMax \in Nat
    /\ MaxQueueSize \in Nat /\ MaxAttempts \in Nat
    /\ Endpoints \subseteq {"run", "task", "cancel", "delete", "list"}
    /\ Outcomes \subseteq {"complete", "failed"}
    /\ MaxRequests \in Nat /\ MaxCrashes \in Nat
    /\ NoSession \notin Sessions

ASSUME SwitchAssumption ==
    QueueTimeout \in BOOLEAN /\ RedisFaults \in BOOLEAN /\ Aged \in BOOLEAN

VARIABLES
    \* SQLite
    status,       \* Session.status, "none" before creation, "deleted" after
    established,  \* Session.claude_session_id is set
    attempts,     \* Session.resume_attempts
    terminal,     \* status of the latest terminal event, or "none"
    tasksToday,   \* UserQuota.tasks_today
    \* Redis
    queue,        \* the pending tasks, as a set of [session, score]
    userActive,   \* task_queue:user:{user_id}:active
    \* memory of the API process
    globalActive, \* QuotaManager._global_active_count
    agent,        \* AgentRunner._running_tasks: what each agent task does
    inactivating, \* scheduled mark_user_inactive tasks, per session
    handler,      \* requests being served
    processor,    \* the QueueProcessor loop
    server,       \* "up", in the lifespan's "recovering" or, at its end, "stopping"
                  \* and "cancelling" what still runs
    recovery,     \* AutoResumeService: sessions to do, changes not committed
    queueOn,      \* app.state holds the task queue and the quota manager, and the
                  \* processor was not stopped
    \* bounds and history
    clock,        \* datetime.now() as seen by queued_at
    requests,     \* history: executions a user asked for, per session
    starts,       \* history: agent tasks created, per session
    silenced,     \* history: sessions whose last agent was cancelled a second time
                  \* before it had announced the first
    served, crashes

dbVars == <<status, established, attempts, terminal, tasksToday>>
redisVars == <<queue, userActive>>
lifeVars == <<server, recovery, queueOn, crashes>>
histVars == <<clock, requests, starts, served, silenced>>
vars == <<dbVars, redisVars, globalActive, agent, inactivating, handler,
          processor, lifeVars, histVars>>

Statuses == {"none", "deleted", "pending", "queued", "running", "complete",
             "failed", "cancelled", "waiting_for_input"}
Exists(s) == status[s] \notin {"none", "deleted"}

NoAgent == [pc |-> "none", final |-> "none"]
Idle == [pc |-> "idle", session |-> NoSession, loaded |-> "none", verdict |-> "none"]
IdleProcessor == [pc |-> "idle", session |-> NoSession, loaded |-> "none",
                  todo |-> {}, done |-> {}]
NoRecovery == [todo |-> {}, staged |-> [s \in Sessions |-> "none"]]

\* AgentRunner._running_tasks and is_running.
RunningTasks == {s \in Sessions : agent[s].pc # "none"}

\* The queue: scores, ZADD, and the entries ZRANGE 0 0 and ZPOPMIN may answer.
PriorityAutoResume == 100
PriorityQueuedRecovery == 50
Entry(s, priority) ==
    [session |-> s, score |-> clock - priority * PriorityWeight]
Without(s) == {e \in queue : e.session # s}
Minimal == {e \in queue : \A f \in queue : e.score <= f.score}
QueueFull == MaxQueueSize > 0 /\ Cardinality(queue) >= MaxQueueSize

\* SQLAlchemy writes a column only when the new value differs from the one
\* the ORM object was loaded with; a deleted row is not written.
Flush(s, loaded, new) ==
    status' = IF Exists(s) /\ loaded # new
              THEN [status EXCEPT ![s] = new] ELSE status

Init ==
    /\ status = [s \in Sessions |-> "none"]
    /\ established = [s \in Sessions |-> FALSE]
    /\ attempts = [s \in Sessions |-> 0]
    /\ terminal = [s \in Sessions |-> "none"]
    /\ tasksToday = [u \in Users |-> 0]
    /\ queue = {}
    /\ userActive = [u \in Users |-> {}]
    /\ globalActive = 0
    /\ agent = [s \in Sessions |-> NoAgent]
    /\ inactivating = [s \in Sessions |-> 0]
    /\ handler = [h \in Handlers |-> Idle]
    /\ processor = IdleProcessor
    /\ server = "up" /\ queueOn = TRUE
    /\ recovery = NoRecovery
    /\ clock = 0
    /\ requests = [s \in Sessions |-> 0]
    /\ starts = [s \in Sessions |-> 0] /\ silenced = {}
    /\ served = 0 /\ crashes = 0

-----------------------------------------------------------------------------
(* POST /sessions/run and POST /sessions/{id}/task                         *)

At(h, pc) == server = "up" /\ handler[h].pc = pc
Goto(h, pc) == handler' = [handler EXCEPT ![h].pc = pc]
Done(h) == handler' = [handler EXCEPT ![h] = Idle]
Session(h) == handler[h].session
User(h) == Owner[handler[h].session]

\* A request on session s arrives; its first await loads the session's row.
Arrive(h, s, endpoint, pc, loaded) ==
    /\ At(h, "idle")
    /\ endpoint \in Endpoints
    /\ served < MaxRequests /\ served' = served + 1
    /\ handler' = [handler EXCEPT ![h] =
                     [pc |-> pc, session |-> s, loaded |-> loaded,
                      verdict |-> "none"]]

\* run_task creates the session row.
RunTask(h, s) ==
    /\ status[s] = "none"
    /\ status' = [status EXCEPT ![s] = "pending"]
    /\ Arrive(h, s, "run", "quota", "pending")
    /\ requests' = [requests EXCEPT ![s] = @ + 1]
    /\ UNCHANGED <<established, attempts, terminal, tasksToday, redisVars,
                   globalActive, agent, inactivating, processor, lifeVars,
                   clock, starts, silenced>>

StartTask(h, s) ==
    /\ Exists(s)
    /\ Arrive(h, s, "task", "is_running", status[s])
    /\ UNCHANGED <<dbVars, redisVars, globalActive, agent, inactivating,
                   processor, lifeVars, clock, requests, starts, silenced>>

\* The client may name a session to resume from; build_resume_context refuses it
\* if this session was cancelled, or waits, and Claude never started for it.
NotResumable(h) ==
    /\ handler[h].loaded \in {"cancelled", "waiting_for_input"}
    /\ ~established[Session(h)]

\* start_task answers 409 if the agent runs, or 400.  Whether the session is
\* queued is not looked at.  The user's message is recorded before the quota
\* is checked.
StartTaskAccept(h) ==
    /\ At(h, "is_running")
    /\ \/ /\ Session(h) \notin RunningTasks
          /\ Goto(h, "quota")
          /\ requests' = [requests EXCEPT ![Session(h)] = @ + 1]
       \/ /\ Session(h) \in RunningTasks \/ NotResumable(h)
          /\ Done(h)
          /\ UNCHANGED requests
    /\ UNCHANGED <<dbVars, redisVars, globalActive, agent, inactivating,
                   processor, lifeVars, clock, starts, served, silenced>>

\* A variant that leaves out the global limit.
CheckGlobalSkipped(h) ==
    /\ At(h, "quota")
    /\ Goto(h, IF queueOn THEN "scard" ELSE "start")
    /\ UNCHANGED <<dbVars, redisVars, globalActive, agent, inactivating,
                   processor, lifeVars, histVars>>

\* QuotaManager.can_start_task: the global limit is checked before an await...
CheckGlobal(h) ==
    /\ At(h, "quota")
    /\ Goto(h, IF ~queueOn THEN "start"
               ELSE IF globalActive >= GlobalMax THEN "zadd" ELSE "scard")
    /\ UNCHANGED <<dbVars, redisVars, globalActive, agent, inactivating,
                   processor, lifeVars, histVars>>

\* ... then the size of the user's active set is read from Redis ...
CheckUser(h) ==
    /\ At(h, "scard")
    /\ Goto(h, IF Cardinality(userActive[User(h)]) >= UserMax THEN "zadd"
               ELSE IF DailyMax > 0 THEN "daily" ELSE "start")
    /\ UNCHANGED <<dbVars, redisVars, globalActive, agent, inactivating,
                   processor, lifeVars, histVars>>

\* ... and the user's daily count from the database.
CheckDaily(h) ==
    /\ At(h, "daily")
    /\ Goto(h, IF tasksToday[User(h)] >= DailyMax THEN "zadd" ELSE "start")
    /\ UNCHANGED <<dbVars, redisVars, globalActive, agent, inactivating,
                   processor, lifeVars, histVars>>

\* AgentRunner.start_task creates the agent's task.
Spawn(s) ==
    /\ agent' = [agent EXCEPT ![s] = [pc |-> "spawned", final |-> "none"]]
    /\ starts' = [starts EXCEPT ![s] = @ + 1]
    /\ silenced' = silenced \ {s}

\* A variant in which start_task ignores a second start instead of raising.
StartNowIgnored(h) ==
    /\ At(h, "start")
    /\ IF Session(h) \in RunningTasks THEN UNCHANGED <<agent, starts, silenced>>
                                     ELSE Spawn(Session(h))
    /\ globalActive' = IF queueOn THEN globalActive + 1 ELSE globalActive
    /\ Goto(h, IF queueOn THEN "sadd" ELSE "commit_running")
    /\ UNCHANGED <<dbVars, redisVars, inactivating, processor, lifeVars, clock,
                   requests, served>>

\* start_task does not suspend once Redis was reached, so the global counter
\* is incremented in the same step.  A second start of the session raises
\* RuntimeError and the request ends with an error.
StartNow(h) ==
    /\ At(h, "start")
    /\ IF Session(h) \in RunningTasks
         THEN Done(h) /\ UNCHANGED <<agent, starts, silenced, globalActive>>
         ELSE /\ Spawn(Session(h))
              /\ globalActive' = IF queueOn THEN globalActive + 1 ELSE globalActive
              /\ Goto(h, IF queueOn THEN "sadd" ELSE "commit_running")
    /\ UNCHANGED <<dbVars, redisVars, inactivating, processor, lifeVars, clock,
                   requests, served>>

MarkUserActive(h) ==
    /\ At(h, "sadd")
    /\ userActive' = [userActive EXCEPT ![User(h)] = @ \cup {Session(h)}]
    /\ Goto(h, "commit_running")
    /\ UNCHANGED <<dbVars, queue, globalActive, agent, inactivating, processor,
                   lifeVars, histVars>>

\* TaskQueue.enqueue: QueueOverflowError, or the entry is added.
Enqueue(h) ==
    /\ At(h, "zadd")
    /\ IF QueueFull
         THEN Goto(h, "commit_failed") /\ UNCHANGED <<queue, clock>>
         ELSE /\ queue' = Without(Session(h)) \cup
                            {Entry(Session(h), Priority[User(h)])}
              /\ clock' = clock + 1
              /\ Goto(h, "commit_queued")
    /\ UNCHANGED <<dbVars, userActive, globalActive, agent, inactivating,
                   processor, lifeVars, requests, starts, served, silenced>>

\* The request's last database commit.
Commit(h, pc, new) ==
    /\ At(h, pc)
    /\ Flush(Session(h), handler[h].loaded, new)
    /\ Done(h)
    /\ UNCHANGED <<established, attempts, terminal, tasksToday, redisVars,
                   globalActive, agent, inactivating, processor, lifeVars, histVars>>
CommitRunning(h) == Commit(h, "commit_running", "running")
CommitQueued(h) == Commit(h, "commit_queued", "queued")
CommitFailed(h) == Commit(h, "commit_failed", "failed")

-----------------------------------------------------------------------------
(* POST /sessions/{id}/cancel                                              *)

CancelTask(h, s) ==
    /\ Exists(s)
    /\ Arrive(h, s, "cancel", "cancel", status[s])
    /\ UNCHANGED <<dbVars, redisVars, globalActive, agent, inactivating,
                   processor, lifeVars, clock, requests, starts, silenced>>

\* task.cancel().  A task that has not entered the try of _run_agent ends there
\* and then, and its finally clause never runs.  Inside the try, control moves
\* to the CancelledError handler, even if the result was just committed; a
\* cancellation in that handler, or in the one that handles an exception, leaves
\* it for the finally clause.
Interrupted(a) ==
    CASE a.pc \in {"spawned", "dead"} -> {[a EXCEPT !.pc = "dead"]}
      [] a.pc = "cancelling" -> {[pc |-> "committed", final |-> "cancelled"]}
      [] a.pc = "committed" /\ a.final = "cancelled" -> {a}
      [] a.pc \in {"finishing", "committed"} /\ a.final = "failed" ->
            {[a EXCEPT !.pc = "cancelling"], [a EXCEPT !.pc = "committed"]}
      [] OTHER -> {[a EXCEPT !.pc = "cancelling"]}
Cancelling == {s \in Sessions : agent[s].pc = "cancelling"}
Interrupt(s) ==
    /\ \E a \in Interrupted(agent[s]) : agent' = [agent EXCEPT ![s] = a]
    /\ silenced' = silenced \cup ({s} \cap Cancelling)

CancelDecide(h) ==
    /\ At(h, "cancel")
    /\ IF Session(h) \in RunningTasks
         THEN Interrupt(Session(h)) /\ Goto(h, "cancel_wait")
         ELSE /\ UNCHANGED <<agent, silenced>>
              /\ IF handler[h].loaded = "running"
                   THEN Goto(h, "commit_cancelled") ELSE Done(h)
    /\ UNCHANGED <<dbVars, redisVars, globalActive, inactivating, processor,
                   lifeVars, clock, requests, starts, served>>

\* wait_for(task) returns when the agent's task has ended.
CancelWait(h) ==
    /\ At(h, "cancel_wait") \/ At(h, "cancel_end")
    /\ agent[Session(h)].pc \in {"none", "dead"}
    /\ Goto(h, "commit_cancelled")
    /\ UNCHANGED <<dbVars, redisVars, globalActive, agent, inactivating,
                   processor, lifeVars, histVars>>

\* After five seconds wait_for cancels the task again and waits on.
CancelAgain(h) ==
    /\ At(h, "cancel_wait")
    /\ Session(h) \in RunningTasks
    /\ Interrupt(Session(h))
    /\ Goto(h, "cancel_end")
    /\ UNCHANGED <<dbVars, redisVars, globalActive, inactivating, processor,
                   lifeVars, clock, requests, starts, served>>

CommitCancelled(h) == Commit(h, "commit_cancelled", "cancelled")

-----------------------------------------------------------------------------
(* DELETE /sessions/{id} and GET /sessions                                 *)

\* delete_session refuses a session that it loads as running.
DeleteSession(h, s) ==
    /\ Exists(s)
    /\ status[s] # "running"
    /\ Arrive(h, s, "delete", "commit_deleted", status[s])
    /\ UNCHANGED <<dbVars, redisVars, globalActive, agent, inactivating,
                   processor, lifeVars, clock, requests, starts, silenced>>

\* The row and its events go; the queue and the agent are not touched.
CommitDeleted(h) ==
    /\ At(h, "commit_deleted")
    /\ status' = [status EXCEPT ![Session(h)] = "deleted"]
    /\ terminal' = [terminal EXCEPT ![Session(h)] = "none"]
    /\ Done(h)
    /\ UNCHANGED <<established, attempts, tasksToday, redisVars, globalActive,
                   agent, inactivating, processor, lifeVars, histVars>>

\* list_sessions repairs the sessions it loads as running that have no agent,
\* one after the other.
ListSessions(h, s) ==
    /\ status[s] = "running"
    /\ Arrive(h, s, "list", "list", status[s])
    /\ UNCHANGED <<dbVars, redisVars, globalActive, agent, inactivating,
                   processor, lifeVars, clock, requests, starts, silenced>>

\* get_latest_terminal_status, for a session without an agent.
ListTerminal(h) ==
    /\ At(h, "list")
    /\ IF Session(h) \notin RunningTasks /\ terminal[Session(h)] # "none"
         THEN handler' = [handler EXCEPT ![h].pc = "commit_repair",
                                         ![h].verdict = terminal[Session(h)]]
         ELSE Done(h)
    /\ UNCHANGED <<dbVars, redisVars, globalActive, agent, inactivating,
                   processor, lifeVars, histVars>>

CommitRepair(h) == Commit(h, "commit_repair", handler[h].verdict)

-----------------------------------------------------------------------------
(* AgentRunner._run_agent                                                  *)

\* Agents run until the process ends.
Alive(s, pc) == server # "recovering" /\ agent[s].pc = pc
Move(s, pc, final) == agent' = [agent EXCEPT ![s] = [pc |-> pc, final |-> final]]

\* get_last_sequence has answered: the coroutine enters its try block.
AgentEnter(s) ==
    /\ Alive(s, "spawned")
    /\ Move(s, "running", "none")
    /\ UNCHANGED <<dbVars, redisVars, globalActive, inactivating, handler,
                   processor, lifeVars, histVars>>

\* The tracer has scheduled a task that stores claude_session_id.
AgentEstablish(s) ==
    /\ server # "recovering" /\ ~established[s]
    /\ agent[s].pc \in {"running", "finishing", "committed", "cancelling"}
    /\ established' = [established EXCEPT ![s] = TRUE]
    /\ UNCHANGED <<status, attempts, terminal, tasksToday, redisVars, globalActive,
                   agent, inactivating, handler, processor, lifeVars, histVars>>

\* A variant that emits no terminal event.
AgentFinishSilent(s, outcome, final) ==
    /\ Alive(s, "running")
    /\ outcome \in Outcomes
    /\ final \in {outcome, "waiting_for_input"}
    /\ Move(s, "finishing", final)
    /\ UNCHANGED <<dbVars, redisVars, globalActive, inactivating, handler,
                   processor, lifeVars, histVars>>

\* The execution ends, with a result or with an exception: a terminal event
\* (agent_complete or error) is emitted.  That a task of its own persists it,
\* a little later, is abstracted from.  A question that is still open makes the
\* final status waiting_for_input.
AgentFinish(s, outcome, final) ==
    /\ Alive(s, "running")
    /\ outcome \in Outcomes
    /\ final \in {outcome, "waiting_for_input"}
    /\ terminal' = [terminal EXCEPT ![s] = outcome]
    /\ Move(s, "finishing", final)
    /\ UNCHANGED <<status, established, attempts, tasksToday, redisVars,
                   globalActive, inactivating, handler, processor, lifeVars, histVars>>

\* _update_session_status reads the row again and always writes it.
AgentCommit(s) ==
    /\ Alive(s, "finishing")
    /\ status' = IF Exists(s) THEN [status EXCEPT ![s] = agent[s].final] ELSE status
    /\ Move(s, "committed", agent[s].final)
    /\ UNCHANGED <<established, attempts, terminal, tasksToday, redisVars,
                   globalActive, inactivating, handler, processor, lifeVars, histVars>>

\* The CancelledError handler: the cancelled event and the status.
AgentCancelled(s) ==
    /\ Alive(s, "cancelling")
    /\ status' = IF Exists(s) THEN [status EXCEPT ![s] = "cancelled"] ELSE status
    /\ terminal' = IF Exists(s) THEN [terminal EXCEPT ![s] = "cancelled"] ELSE terminal
    /\ Move(s, "committed", "cancelled")
    /\ UNCHANGED <<established, attempts, tasksToday, redisVars, globalActive,
                   inactivating, handler, processor, lifeVars, histVars>>

\* A variant without the max(0, ...).
DecrementUnclamped == globalActive' = globalActive - 1

\* QuotaManager.decrement_global
Decrement == globalActive' = IF globalActive > 0 THEN globalActive - 1 ELSE 0

\* A variant that calls on_task_complete only for tasks that ran to their end.
AgentCleanupUncounted(s) ==
    /\ Alive(s, "committed")
    /\ agent' = [agent EXCEPT ![s] = NoAgent]
    /\ IF agent[s].final = "cancelled"
         THEN UNCHANGED <<globalActive, inactivating>>
         ELSE /\ Decrement
              /\ inactivating' = [inactivating EXCEPT ![s] = @ + 1]
    /\ UNCHANGED <<dbVars, redisVars, handler, processor, lifeVars, histVars>>

\* The finally clause forgets the task and calls on_task_complete, which
\* decrements at once and schedules mark_user_inactive.
AgentCleanup(s) ==
    /\ Alive(s, "committed")
    /\ agent' = [agent EXCEPT ![s] = NoAgent]
    /\ Decrement
    /\ inactivating' = [inactivating EXCEPT ![s] = @ + 1]
    /\ UNCHANGED <<dbVars, redisVars, handler, processor, lifeVars, histVars>>

\* A scheduled mark_user_inactive runs; if Redis fails nobody notices.
MarkUserInactive(s) ==
    /\ server # "recovering" /\ inactivating[s] > 0
    /\ inactivating' = [inactivating EXCEPT ![s] = @ - 1]
    /\ \/ userActive' = [userActive EXCEPT ![Owner[s]] = @ \ {s}]
       \/ RedisFaults /\ UNCHANGED userActive
    /\ UNCHANGED <<dbVars, queue, globalActive, agent, handler, processor,
                   lifeVars, histVars>>

-----------------------------------------------------------------------------
(* QueueProcessor                                                          *)

ProcessorAt(pc) == server = "up" /\ queueOn /\ processor.pc = pc
ProcessorGoto(pc) == processor' = [processor EXCEPT !.pc = pc]
ProcessorUser == Owner[processor.session]

\* _process_next looks at the head of the queue ...
Peek ==
    /\ ProcessorAt("idle")
    /\ \E e \in Minimal :
        processor' = [IdleProcessor EXCEPT !.pc = "quota", !.session = e.session]
    /\ UNCHANGED <<dbVars, redisVars, globalActive, agent, inactivating, handler,
                   lifeVars, histVars>>

\* ... checks the quotas of that task's user as the endpoints do ...
ProcessorQuota ==
    /\ \/ /\ ProcessorAt("quota")
          /\ IF globalActive >= GlobalMax
               THEN processor' = IdleProcessor ELSE ProcessorGoto("scard")
       \/ /\ ProcessorAt("scard")
          /\ IF Cardinality(userActive[ProcessorUser]) >= UserMax
               THEN processor' = IdleProcessor
               ELSE ProcessorGoto(IF DailyMax > 0 THEN "daily" ELSE "dequeue")
       \/ /\ ProcessorAt("daily")
          /\ IF tasksToday[ProcessorUser] >= DailyMax
               THEN processor' = IdleProcessor ELSE ProcessorGoto("dequeue")
    /\ UNCHANGED <<dbVars, redisVars, globalActive, agent, inactivating, handler,
                   lifeVars, histVars>>

\* ... and dequeues whatever task is at the head by then.
Dequeue ==
    /\ ProcessorAt("dequeue")
    /\ \/ \E e \in Minimal :
            /\ queue' = queue \ {e}
            /\ processor' = [processor EXCEPT !.pc = "load", !.session = e.session]
       \/ queue = {} /\ processor' = IdleProcessor /\ UNCHANGED queue
    /\ UNCHANGED <<dbVars, userActive, globalActive, agent, inactivating, handler,
                   lifeVars, histVars>>

\* _start_task drops the task of a session that is gone.  The status of the
\* session is not looked at.
LoadSession ==
    /\ ProcessorAt("load")
    /\ processor' = IF Exists(processor.session)
                    THEN [processor EXCEPT !.pc = "commit",
                                           !.loaded = status[processor.session]]
                    ELSE IdleProcessor
    /\ UNCHANGED <<dbVars, redisVars, globalActive, agent, inactivating, handler,
                   lifeVars, histVars>>

\* The commit of status running fails if the row was deleted since.
StartQueued ==
    /\ ProcessorAt("commit")
    /\ Flush(processor.session, processor.loaded, "running")
    /\ ProcessorGoto(IF Exists(processor.session) THEN "increment" ELSE "undo")
    /\ UNCHANGED <<established, attempts, terminal, tasksToday, redisVars,
                   globalActive, agent, inactivating, handler, lifeVars, histVars>>

IncrementGlobal ==
    /\ ProcessorAt("increment")
    /\ globalActive' = globalActive + 1
    /\ ProcessorGoto("sadd")
    /\ UNCHANGED <<dbVars, redisVars, agent, inactivating, handler, lifeVars,
                   histVars>>

ProcessorMarkActive ==
    /\ ProcessorAt("sadd")
    /\ userActive' = [userActive EXCEPT ![ProcessorUser] = @ \cup {processor.session}]
    /\ ProcessorGoto(IF DailyMax > 0 THEN "count" ELSE "start")
    /\ UNCHANGED <<dbVars, queue, globalActive, agent, inactivating, handler,
                   lifeVars, histVars>>

IncrementDaily ==
    /\ ProcessorAt("count")
    /\ tasksToday' = [tasksToday EXCEPT ![ProcessorUser] = @ + 1]
    /\ ProcessorGoto("start")
    /\ UNCHANGED <<status, established, attempts, terminal, redisVars, globalActive,
                   agent, inactivating, handler, lifeVars, histVars>>

\* agent_runner.start_task, which raises if the session's agent runs already.
ProcessorSpawn ==
    /\ ProcessorAt("start")
    /\ IF processor.session \in RunningTasks
         THEN ProcessorGoto("undo") /\ UNCHANGED <<agent, starts, silenced>>
         ELSE Spawn(processor.session) /\ processor' = IdleProcessor
    /\ UNCHANGED <<dbVars, redisVars, globalActive, inactivating, handler, lifeVars,
                   clock, requests, served>>

\* A variant of the except clause that gives nothing back.
UndoNothing ==
    /\ ProcessorAt("undo")
    /\ Flush(processor.session, "none", "failed")
    /\ processor' = IdleProcessor
    /\ UNCHANGED <<established, attempts, terminal, tasksToday, redisVars,
                   globalActive, agent, inactivating, handler, lifeVars, histVars>>

\* The except clause of _start_task, whatever raised: decrement, mark the user
\* inactive, and set the session to failed if it is still there.
Undo ==
    /\ \/ /\ ProcessorAt("undo")
          /\ Decrement
          /\ ProcessorGoto("undo_srem")
          /\ UNCHANGED <<status, userActive>>
       \/ /\ ProcessorAt("undo_srem")
          /\ userActive' = [userActive EXCEPT ![ProcessorUser] =
                                                    @ \ {processor.session}]
          /\ ProcessorGoto("undo_status")
          /\ UNCHANGED <<status, globalActive>>
       \/ /\ ProcessorAt("undo_status")
          /\ Flush(processor.session, "none", "failed")
          /\ processor' = IdleProcessor
          /\ UNCHANGED <<userActive, globalActive>>
    /\ UNCHANGED <<established, attempts, terminal, tasksToday, queue, agent,
                   inactivating, handler, lifeVars, histVars>>

\* A variant that looks for late tasks in the queue instead of the database.
TimeoutScanQueue(late) ==
    /\ QueueTimeout
    /\ ProcessorAt("idle")
    /\ late # {} /\ late \subseteq {e.session : e \in queue}
    /\ \A s \in late : status[s] = "queued"
    /\ processor' = [IdleProcessor EXCEPT !.pc = "timeout", !.todo = late]
    /\ UNCHANGED <<dbVars, redisVars, globalActive, agent, inactivating, handler,
                   lifeVars, histVars>>

\* _cleanup_timed_out_tasks loads the sessions that were queued too long ...
TimeoutScan(late) ==
    /\ QueueTimeout
    /\ ProcessorAt("idle")
    /\ late # {} /\ \A s \in late : status[s] = "queued"
    /\ processor' = [IdleProcessor EXCEPT !.pc = "timeout", !.todo = late]
    /\ UNCHANGED <<dbVars, redisVars, globalActive, agent, inactivating, handler,
                   lifeVars, histVars>>

\* ... takes each out of the queue and emits an error event ...
TimeoutRemove(s) ==
    /\ ProcessorAt("timeout") /\ s \in processor.todo
    /\ queue' = Without(s)
    /\ terminal' = IF Exists(s) THEN [terminal EXCEPT ![s] = "failed"] ELSE terminal
    /\ processor' = [processor EXCEPT !.todo = @ \ {s}, !.done = @ \cup {s}]
    /\ UNCHANGED <<status, established, attempts, tasksToday, userActive,
                   globalActive, agent, inactivating, handler, lifeVars, histVars>>

\* ... and sets all of them to failed in one commit, which fails as a whole if
\* one of the rows is gone.
TimeoutCommit ==
    /\ ProcessorAt("timeout") /\ processor.todo = {}
    /\ status' = IF \A s \in processor.done : Exists(s)
                 THEN [s \in Sessions |->
                          IF s \in processor.done THEN "failed" ELSE status[s]]
                 ELSE status
    /\ processor' = IdleProcessor
    /\ UNCHANGED <<established, attempts, terminal, tasksToday, redisVars,
                   globalActive, agent, inactivating, handler, lifeVars, histVars>>

-----------------------------------------------------------------------------
(* Failures of Redis.  A command that failed may have been executed: that is *)
(* the command's own step followed by a failure of the next one.             *)

\* can_start_task or mark_user_active raises and the request ends with an
\* error; enqueue raises QueueUnavailableError, before or after ZADD.
HandlerRedisFault(h) ==
    /\ RedisFaults
    /\ \/ At(h, "scard") /\ Done(h)
       \/ At(h, "sadd") /\ Done(h)
       \/ At(h, "zadd") /\ Goto(h, "commit_failed")
       \/ At(h, "commit_queued") /\ Goto(h, "commit_failed")
    /\ UNCHANGED <<dbVars, redisVars, globalActive, agent, inactivating,
                   processor, lifeVars, histVars>>

\* can_start_task raises into the loop, dequeue answers None after ZPOPMIN,
\* mark_user_active raises into the except clause of _start_task, and
\* mark_user_inactive or remove raise out of it.
ProcessorRedisFault ==
    /\ RedisFaults
    /\ \/ \E pc \in {"scard", "load", "undo_srem", "timeout"} :
            ProcessorAt(pc) /\ processor' = IdleProcessor
       \/ ProcessorAt("sadd") /\ ProcessorGoto("undo")
    /\ UNCHANGED <<dbVars, redisVars, globalActive, agent, inactivating,
                   handler, lifeVars, histVars>>

-----------------------------------------------------------------------------
(* The end of a process, and the lifespan of the next one                  *)

\* The memory of the process is gone, the database and Redis stay.  The next one
\* recovers what is running or queued and not too old, or nothing if auto_resume
\* is disabled.
EndProcess ==
    /\ server' = "recovering" /\ queueOn' = FALSE
    /\ globalActive' = 0
    /\ agent' = [s \in Sessions |-> NoAgent]
    /\ inactivating' = [s \in Sessions |-> 0]
    /\ handler' = [h \in Handlers |-> Idle]
    /\ processor' = IdleProcessor
    /\ \E todo \in SUBSET {s \in Sessions : status[s] \in {"running", "queued"}} :
        /\ Aged \/ \A s \in Sessions : status[s] \in {"running", "queued"} => s \in todo
        /\ recovery' = [NoRecovery EXCEPT !.todo = todo]
    /\ UNCHANGED <<dbVars, redisVars, histVars>>

Crash ==
    /\ crashes < MaxCrashes /\ crashes' = crashes + 1
    /\ EndProcess

\* An orderly shutdown: the requests under way have been served, and the lifespan
\* cancels the task of the processor wherever it is.
StopProcessor ==
    /\ server = "up" /\ \A h \in Handlers : handler[h] = Idle
    /\ crashes < MaxCrashes /\ crashes' = crashes + 1
    /\ server' = "stopping" /\ queueOn' = FALSE
    /\ processor' = IdleProcessor
    /\ UNCHANGED <<dbVars, redisVars, globalActive, agent, inactivating, handler,
                   recovery, histVars>>

\* Then uvicorn raises the signal again that it has caught.  The process ends of
\* it, or, where it ignores the signal as the first process of a container does,
\* asyncio.run cancels all that still runs and waits for it.
Interruptions ==
    LET After(s) == IF s \in RunningTasks THEN Interrupted(agent[s]) ELSE {agent[s]}
    IN  {f \in [Sessions -> UNION {After(s) : s \in Sessions}] :
            \A s \in Sessions : f[s] \in After(s)}
CancelAgents ==
    /\ server = "stopping"
    /\ server' = "cancelling"
    /\ agent' \in Interruptions
    /\ silenced' = silenced \cup Cancelling
    /\ inactivating' = [s \in Sessions |-> 0]
    /\ UNCHANGED <<dbVars, redisVars, globalActive, handler, processor, recovery,
                   queueOn, crashes, clock, requests, starts, served>>

Exit ==
    /\ \/ server = "stopping"
       \/ server = "cancelling" /\ \A s \in Sessions : agent[s].pc \in {"none", "dead"}
    /\ UNCHANGED crashes
    /\ EndProcess

\* recover_on_startup: a session is given up after max_resume_attempts, or if it
\* was running and never got a Claude session; any other is queued again.
GiveUp(s) == attempts[s] >= MaxAttempts \/ (status[s] = "running" /\ ~established[s])
RecoverSession(s) ==
    /\ server = "recovering" /\ s \in recovery.todo
    /\ IF GiveUp(s)
         THEN /\ recovery' = [todo |-> recovery.todo \ {s},
                              staged |-> [recovery.staged EXCEPT ![s] = "failed"]]
              /\ UNCHANGED <<queue, clock>>
         ELSE /\ ~QueueFull
              /\ queue' = Without(s) \cup
                    {Entry(s, IF status[s] = "running" THEN PriorityAutoResume
                              ELSE PriorityQueuedRecovery)}
              /\ clock' = clock + 1
              /\ recovery' = [todo |-> recovery.todo \ {s},
                              staged |-> [recovery.staged EXCEPT ![s] = "queued"]]
    /\ UNCHANGED <<dbVars, userActive, globalActive, agent, inactivating, handler,
                   processor, server, queueOn, crashes, requests, starts, served, silenced>>

\* A variant that does not record the attempt.
RecoverCommitUncounted ==
    /\ server = "recovering" /\ recovery.todo = {}
    /\ status' = [s \in Sessions |-> IF recovery.staged[s] = "none"
                                     THEN status[s] ELSE recovery.staged[s]]
    /\ server' = "up" /\ queueOn' = TRUE /\ recovery' = NoRecovery
    /\ UNCHANGED <<established, attempts, terminal, tasksToday, redisVars,
                   globalActive, agent, inactivating, handler, processor, crashes,
                   histVars>>

\* A variant that forgets the sessions it gives up.
RecoverCommitForgets ==
    /\ server = "recovering" /\ recovery.todo = {}
    /\ status' = [s \in Sessions |-> IF recovery.staged[s] = "queued"
                                     THEN "queued" ELSE status[s]]
    /\ attempts' = [s \in Sessions |-> IF recovery.staged[s] = "queued"
                                       THEN attempts[s] + 1 ELSE attempts[s]]
    /\ server' = "up" /\ queueOn' = TRUE /\ recovery' = NoRecovery
    /\ UNCHANGED <<established, terminal, tasksToday, redisVars, globalActive, agent,
                   inactivating, handler, processor, crashes, histVars>>

\* All changes are committed, the processor starts, app.state is set.
RecoverCommit ==
    /\ server = "recovering" /\ recovery.todo = {}
    /\ status' = [s \in Sessions |-> IF recovery.staged[s] = "none"
                                     THEN status[s] ELSE recovery.staged[s]]
    /\ attempts' = [s \in Sessions |-> IF recovery.staged[s] = "queued"
                                       THEN attempts[s] + 1 ELSE attempts[s]]
    /\ server' = "up" /\ queueOn' = TRUE /\ recovery' = NoRecovery
    /\ UNCHANGED <<established, terminal, tasksToday, redisVars, globalActive, agent,
                   inactivating, handler, processor, crashes, histVars>>

\* enqueue raised QueueOverflowError or QueueUnavailableError: the changes are
\* rolled back and the server runs without queue and quotas.
RecoverAbort ==
    /\ server = "recovering" /\ \E s \in recovery.todo : ~GiveUp(s)
    /\ QueueFull \/ RedisFaults
    /\ server' = "up" /\ recovery' = NoRecovery
    /\ UNCHANGED <<dbVars, redisVars, globalActive, agent, inactivating, handler,
                   processor, queueOn, crashes, histVars>>
-----------------------------------------------------------------------------
Request(h) == \E s \in Sessions :
    \/ RunTask(h, s) \/ StartTask(h, s) \/ CancelTask(h, s)
    \/ DeleteSession(h, s) \/ ListSessions(h, s)

Serve(h) ==
    \/ StartTaskAccept(h) \/ CheckGlobal(h) \/ CheckUser(h) \/ CheckDaily(h)
    \/ StartNow(h) \/ MarkUserActive(h) \/ Enqueue(h)
    \/ CommitRunning(h) \/ CommitQueued(h) \/ CommitFailed(h)
    \/ CancelDecide(h) \/ CancelWait(h) \/ CommitCancelled(h)
    \/ CommitDeleted(h) \/ ListTerminal(h) \/ CommitRepair(h)

AgentStep(s) ==
    \/ AgentEnter(s)
    \/ \E outcome, final \in Statuses : AgentFinish(s, outcome, final)
    \/ AgentCommit(s) \/ AgentCancelled(s) \/ AgentCleanup(s)

ProcessorStep ==
    \/ Peek \/ ProcessorQuota \/ Dequeue \/ LoadSession \/ StartQueued
    \/ IncrementGlobal \/ ProcessorMarkActive \/ IncrementDaily
    \/ ProcessorSpawn \/ Undo
    \/ \E s \in Sessions : TimeoutRemove(s)
    \/ TimeoutCommit

RecoverStep == (\E s \in Sessions : RecoverSession(s)) \/ RecoverCommit

Next ==
    \/ \E h \in Handlers : Request(h) \/ Serve(h) \/ CancelAgain(h)
                           \/ HandlerRedisFault(h)
    \/ \E s \in Sessions : AgentStep(s) \/ AgentEstablish(s) \/ MarkUserInactive(s)
    \/ ProcessorStep
    \/ \E late \in SUBSET Sessions : TimeoutScan(late)
    \/ ProcessorRedisFault
    \/ Crash \/ StopProcessor \/ CancelAgents \/ Exit
    \/ RecoverStep \/ RecoverAbort

Spec == Init /\ [][Next]_vars

\* Requests that were taken are served, agents end (ClaudeAgent.run bounds
\* every execution by a timeout), scheduled tasks run, the processor loops,
\* the lifespan finishes what it began.  The loop looks for timed-out tasks
\* between two rounds of _process_next, and a session that stays queued is late
\* at last.  Nobody has to send a request and nothing has to fail.
Fairness ==
    /\ \A h \in Handlers : WF_vars(Serve(h))
    /\ \A s \in Sessions :
        /\ WF_vars(AgentStep(s))
        /\ WF_vars(MarkUserInactive(s))
        /\ SF_vars(\E late \in SUBSET Sessions : s \in late /\ TimeoutScan(late))
    /\ WF_vars(ProcessorStep)
    /\ WF_vars(RecoverStep \/ RecoverAbort) /\ WF_vars(CancelAgents \/ Exit)

FairSpec == Spec /\ Fairness

-----------------------------------------------------------------------------
(* Properties *)

HandlerPC == {"idle", "is_running", "quota", "scard", "daily", "start", "sadd",
              "zadd", "commit_running", "commit_queued", "commit_failed", "cancel",
              "cancel_wait", "cancel_end", "commit_cancelled", "commit_deleted", "list",
              "commit_repair"}
AgentPC == {"none", "spawned", "running", "finishing", "committed", "cancelling",
            "dead"}
ProcessorPC == {"idle", "quota", "scard", "daily", "dequeue", "load", "commit",
                "increment", "sadd", "count", "start", "undo", "undo_srem",
                "undo_status", "timeout"}

DbTypes ==
    /\ status \in [Sessions -> Statuses]
    /\ established \in [Sessions -> BOOLEAN]
    /\ attempts \in [Sessions -> Nat]
    /\ terminal \in [Sessions -> Statuses]
    /\ tasksToday \in [Users -> Nat]
RedisTypes ==
    /\ queue \in SUBSET [session: Sessions, score: Int]
    /\ userActive \in [Users -> SUBSET Sessions]
AgentTypes ==
    /\ globalActive \in Nat
    /\ agent \in [Sessions -> [pc: AgentPC, final: Statuses]]
    /\ inactivating \in [Sessions -> Nat]
HandlerTypes ==
    /\ handler \in [Handlers -> [pc: HandlerPC, session: Sessions \cup {NoSession},
                                 loaded: Statuses, verdict: Statuses]]
    /\ \A h \in Handlers : handler[h].pc # "idle" => handler[h].session \in Sessions
ProcessorTypes ==
    /\ processor \in [pc: ProcessorPC, session: Sessions \cup {NoSession},
                      loaded: Statuses, todo: SUBSET Sessions, done: SUBSET Sessions]
    /\ processor.pc \notin {"idle", "timeout"} => processor.session \in Sessions
LifeTypes ==
    /\ server \in {"up", "recovering", "stopping", "cancelling"}
    /\ recovery \in [todo: SUBSET Sessions, staged: [Sessions -> Statuses]]
    /\ queueOn \in BOOLEAN
    /\ crashes \in Nat
HistTypes ==
    /\ clock \in Nat /\ served \in Nat
    /\ requests \in [Sessions -> Nat]
    /\ starts \in [Sessions -> Nat]
    /\ silenced \subseteq Sessions

\* Every variable stays in its domain, and whoever is inside an operation
\* holds a session.
TypeOK == /\ DbTypes /\ RedisTypes /\ AgentTypes /\ HandlerTypes
          /\ ProcessorTypes /\ LifeTypes /\ HistTypes

\* The processor has counted a task that has no agent yet.
Claimed == IF processor.pc \in {"sadd", "count", "start", "undo"} THEN 1 ELSE 0

\* QuotaManager's counter and AgentRunner's tasks are updated by different
\* code at different times.  As long as no session is deleted they agree: no
\* task is counted twice or not at all, and the max(0, ...) of decrement_global
\* hides nothing.
CountExact ==
    queueOn /\ "delete" \notin Endpoints =>
        globalActive = Cardinality(RunningTasks) + Claimed

\* Whatever fails or is deleted meanwhile, the counter never exceeds the tasks
\* that exist: a slot of the global limit is not lost for good.
NoOvercount == queueOn => globalActive <= Cardinality(RunningTasks) + Claimed

\* can_start_task is followed by awaits before the counter goes up.  However
\* the requests and the processor interleave, the limit is exceeded by at most
\* one task per concurrent request.
OvershootBound ==
    queueOn /\ "delete" \notin Endpoints =>
        Cardinality(RunningTasks) <= GlobalMax + Cardinality(Handlers)

\* Every execution was paid for by a request or by a resume attempt that is
\* on record: no interleaving of requests, processor, crashes and recovery
\* runs a task once more than somebody asked for.
PaidStarts ==
    MaxQueueSize = 0 /\ ~RedisFaults /\ ~Aged /\ server = "up" =>
        \A s \in Sessions : starts[s] <= requests[s] + attempts[s]

\* Somebody is about to change the status of s.
InHands(s) ==
    \/ s \in RunningTasks
    \/ \E h \in Handlers : handler[h].pc # "idle" /\ handler[h].session = s
    \/ processor.pc \notin {"idle", "timeout", "quota", "scard", "daily", "dequeue"}
          /\ processor.session = s

\* A session that is shown as running without an agent, because the last
\* write of its status was a late one, has a terminal event, so that
\* list_sessions repairs it; but for one whose agent was cancelled again before
\* it had announced the first cancellation.
Repairable ==
    server = "up" /\ queueOn /\ ~RedisFaults /\ ~Aged =>
        \A s \in Sessions \ silenced :
            status[s] = "running" /\ ~InHands(s) => terminal[s] # "none"

\* No session stays queued for ever.
QueuedIsResolved == \A s \in Sessions : status[s] = "queued" ~> status[s] # "queued"

-----------------------------------------------------------------------------
(* What the repository says and the code does not keep *)

Of(u) == {s \in Sessions : Owner[s] = u}

\* api.yaml: per_user_max_concurrent is the maximum of concurrent tasks of a
\* user.
UserLimit ==
    queueOn => \A u \in Users : Cardinality(RunningTasks \cap Of(u)) <= UserMax

\* on_task_complete is called when a task completes, also when it was
\* cancelled: its place in the quotas becomes free.
TaskIsReleased == \A s \in Sessions : s \in RunningTasks ~> s \notin RunningTasks

\* auto_resume.py: when the container restarts, sessions that were actively running
\* are queued for resumption.  One whose agent a shutdown cancelled is stored as
\* cancelled, though nobody cancelled it.
RunningIsResumed ==
    "cancel" \notin Endpoints => \A s \in Sessions : status[s] # "cancelled"
=============================================================================
