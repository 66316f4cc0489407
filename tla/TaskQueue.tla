----------------------------- MODULE TaskQueue -----------------------------
(***************************************************************************)
(* The Redis task queue of src/src/services/task_queue.py.                 *)
(*                                                                         *)
(* One queue operation is several Redis commands, each awaited: between    *)
(* two commands of one operation, any command of another caller may run.   *)
(* A step of this module is one Redis command.                             *)
(*                                                                         *)
(* Callers are request handlers, each inside TaskQueue.enqueue.  The       *)
(* worker is the one QueueProcessor loop, which runs peek, dequeue and     *)
(* remove strictly one after the other.                                    *)
(***************************************************************************)
EXTENDS Integers, FiniteSets

CONSTANTS
    Sessions,       \* session ids
    Callers,        \* request handlers that may be inside enqueue at once
    Priorities,     \* user.queue_priority values in use
    PriorityWeight, \* the 1_000_000 of the score formula
    MaxQueueSize,   \* QueueSettings.max_queue_size, 0 = unlimited
    MaxEnqueues,    \* bound: enqueue calls in one behaviour
    Resubmit,       \* may a session be enqueued while it is still queued?
    Faults,         \* may a Redis command fail or its answer be lost?
    Expiry,         \* may a task key outlive its 24 h TTL?
    NoSession,
    NoTask

Tickets == 1..MaxEnqueues

\* QueuedTask: queued_at is the ticket number of the enqueue call, so that
\* two calls never share it and later calls have later timestamps.
Task == [session: Sessions, priority: Priorities, at: Tickets]

ASSUME TaskQueueAssumption ==
    /\ Priorities \subseteq Nat
    /\ PriorityWeight \in Nat
    /\ MaxQueueSize \in Nat
    /\ MaxEnqueues \in Nat
    /\ Resubmit \in BOOLEAN /\ Faults \in BOOLEAN /\ Expiry \in BOOLEAN
    /\ NoSession \notin Sessions
    /\ NoTask \notin Task

VARIABLES
    pending,    \* sorted set task_queue:pending, as {[session, score]}
    taskData,   \* the keys task_queue:task:{session_id}, as a set of tasks
    caller,     \* where each handler is inside enqueue, and with which task
    worker,     \* where the processor is inside dequeue, peek or remove
    clock,      \* tickets issued so far
    deliveries  \* history: how often dequeue returned each ticket

vars == <<pending, taskData, caller, worker, clock, deliveries>>

Score(t) == t.at - t.priority * PriorityWeight

\* The sorted set after ZADD and ZREM, the key space after SET and DEL.
ZAdd(s, sc) == {e \in pending : e.session # s} \cup {[session |-> s, score |-> sc]}
ZRem(s) == {e \in pending : e.session # s}
SetKey(t) == {d \in taskData : d.session # t.session} \cup {t}
DelKey(s) == {d \in taskData : d.session # s}
Get(s) == {d \in taskData : d.session = s}

\* A variant of Minimal: the highest score first.
Maximal == {e \in pending : \A f \in pending : e.score >= f.score}

\* Entries ZPOPMIN and ZRANGE 0 0 may answer with.
Minimal == {e \in pending : \A f \in pending : e.score <= f.score}

IdleCaller == [pc |-> "idle", task |-> NoTask]
IdleWorker == [pc |-> "idle", session |-> NoSession, task |-> NoTask]

\* Someone is still busy with session s, or an entry of it is queued.
InUse(s) ==
    \/ \E e \in pending : e.session = s
    \/ \E c \in Callers : caller[c].pc # "idle" /\ caller[c].task.session = s
    \/ worker.session = s

Init ==
    /\ pending = {}
    /\ taskData = {}
    /\ caller = [c \in Callers |-> IdleCaller]
    /\ worker = IdleWorker
    /\ clock = 0
    /\ deliveries = [n \in Tickets |-> 0]

-----------------------------------------------------------------------------
(* TaskQueue.enqueue *)

\* A route builds the QueuedTask and calls enqueue.  Without Resubmit the
\* client never submits a session that is still on its way through the queue.
EnqueueBegin(c, s, p) ==
    /\ caller[c].pc = "idle"
    /\ clock < MaxEnqueues
    /\ Resubmit \/ ~InUse(s)
    /\ clock' = clock + 1
    /\ caller' = [caller EXCEPT ![c] =
                    [pc   |-> IF MaxQueueSize > 0 THEN "zcard" ELSE "set",
                     task |-> [session |-> s, priority |-> p, at |-> clock + 1]]]
    /\ UNCHANGED <<pending, taskData, worker, deliveries>>

\* A variant of EnqueueCheckSize: accepts one task too many.
EnqueueCheckSizeOffByOne(c) ==
    /\ caller[c].pc = "zcard"
    /\ Cardinality(pending) <= MaxQueueSize
    /\ caller' = [caller EXCEPT ![c].pc = "set"]
    /\ UNCHANGED <<pending, taskData, worker, clock, deliveries>>

\* ZCARD: below the limit, go on.
EnqueueCheckSize(c) ==
    /\ caller[c].pc = "zcard"
    /\ Cardinality(pending) < MaxQueueSize
    /\ caller' = [caller EXCEPT ![c].pc = "set"]
    /\ UNCHANGED <<pending, taskData, worker, clock, deliveries>>

\* ZCARD: at the limit, raise QueueOverflowError.
EnqueueOverflow(c) ==
    /\ caller[c].pc = "zcard"
    /\ Cardinality(pending) >= MaxQueueSize
    /\ caller' = [caller EXCEPT ![c] = IdleCaller]
    /\ UNCHANGED <<pending, taskData, worker, clock, deliveries>>

EnqueueSet(c) ==
    /\ caller[c].pc = "set"
    /\ taskData' = SetKey(caller[c].task)
    /\ caller' = [caller EXCEPT ![c].pc = "zadd"]
    /\ UNCHANGED <<pending, worker, clock, deliveries>>

EnqueueAdd(c) ==
    /\ caller[c].pc = "zadd"
    /\ pending' = ZAdd(caller[c].task.session, Score(caller[c].task))
    /\ caller' = [caller EXCEPT ![c].pc = "zrank"]
    /\ UNCHANGED <<taskData, worker, clock, deliveries>>

\* ZRANK answers and enqueue returns the position, whatever it is.
EnqueueReturn(c) ==
    /\ caller[c].pc = "zrank"
    /\ caller' = [caller EXCEPT ![c] = IdleCaller]
    /\ UNCHANGED <<pending, taskData, worker, clock, deliveries>>

\* The pending command fails, or its predecessor ran and its answer was lost:
\* QueueUnavailableError, nothing is undone.
EnqueueFail(c) ==
    /\ Faults
    /\ caller[c].pc # "idle"
    /\ caller' = [caller EXCEPT ![c] = IdleCaller]
    /\ UNCHANGED <<pending, taskData, worker, clock, deliveries>>

-----------------------------------------------------------------------------
(* TaskQueue.dequeue *)

DequeuePop ==
    /\ worker.pc = "idle"
    /\ \E e \in Minimal :
        /\ pending' = pending \ {e}
        /\ worker' = [pc |-> "popped", session |-> e.session, task |-> NoTask]
    /\ UNCHANGED <<taskData, caller, clock, deliveries>>

\* A variant of DequeueGet: the answer of GET is not tested.
DequeueGetUnchecked ==
    /\ worker.pc = "popped"
    /\ \/ \E t \in Get(worker.session) :
            worker' = [worker EXCEPT !.pc = "got", !.task = t]
       \/ Get(worker.session) = {} /\ worker' = [worker EXCEPT !.pc = "got"]
    /\ UNCHANGED <<pending, taskData, caller, clock, deliveries>>

DequeueGet ==
    /\ worker.pc = "popped"
    /\ \/ \E t \in Get(worker.session) :
            worker' = [worker EXCEPT !.pc = "got", !.task = t]
       \/ Get(worker.session) = {} /\ worker' = IdleWorker
    /\ UNCHANGED <<pending, taskData, caller, clock, deliveries>>

\* A variant of DequeueDelete: the task key is left behind.
DequeueKeepKey ==
    /\ worker.pc = "got"
    /\ deliveries' = [deliveries EXCEPT ![worker.task.at] = @ + 1]
    /\ worker' = IdleWorker
    /\ UNCHANGED <<pending, taskData, caller, clock>>

DequeueDelete ==
    /\ worker.pc = "got"
    /\ taskData' = DelKey(worker.session)
    /\ deliveries' = [deliveries EXCEPT ![worker.task.at] = @ + 1]
    /\ worker' = IdleWorker
    /\ UNCHANGED <<pending, caller, clock>>

-----------------------------------------------------------------------------
(* TaskQueue.peek *)

PeekRange ==
    /\ worker.pc = "idle"
    /\ \E e \in Minimal :
        worker' = [pc |-> "ranged", session |-> e.session, task |-> NoTask]
    /\ UNCHANGED <<pending, taskData, caller, clock, deliveries>>

\* The task is returned to the processor, or the entry is an orphan.
PeekGet ==
    /\ worker.pc = "ranged"
    /\ IF Get(worker.session) = {}
         THEN worker' = [worker EXCEPT !.pc = "orphan"]
         ELSE worker' = IdleWorker
    /\ UNCHANGED <<pending, taskData, caller, clock, deliveries>>

PeekDropOrphan ==
    /\ worker.pc = "orphan"
    /\ pending' = ZRem(worker.session)
    /\ worker' = IdleWorker
    /\ UNCHANGED <<taskData, caller, clock, deliveries>>

-----------------------------------------------------------------------------
(* TaskQueue.remove, called for a queued session that timed out *)

\* A variant of RemoveEntry: the entry stays in the sorted set.
RemoveKeyOnly(s) ==
    /\ worker.pc = "idle"
    /\ \/ Resubmit
       \/ \A c \in Callers : caller[c].pc # "idle" => caller[c].task.session # s
    /\ worker' = [pc |-> "removing", session |-> s, task |-> NoTask]
    /\ UNCHANGED <<pending, taskData, caller, clock, deliveries>>

\* A session is marked queued only after its enqueue has returned, so
\* without Resubmit no handler is inside enqueue with it.
RemoveEntry(s) ==
    /\ worker.pc = "idle"
    /\ \/ Resubmit
       \/ \A c \in Callers : caller[c].pc # "idle" => caller[c].task.session # s
    /\ pending' = ZRem(s)
    /\ worker' = [pc |-> "removing", session |-> s, task |-> NoTask]
    /\ UNCHANGED <<taskData, caller, clock, deliveries>>

RemoveKey ==
    /\ worker.pc = "removing"
    /\ taskData' = DelKey(worker.session)
    /\ worker' = IdleWorker
    /\ UNCHANGED <<pending, caller, clock, deliveries>>

-----------------------------------------------------------------------------
(* Redis *)

\* dequeue and peek answer None, remove raises; nothing is undone.
WorkerFail ==
    /\ Faults
    /\ worker.pc # "idle"
    /\ worker' = IdleWorker
    /\ UNCHANGED <<pending, taskData, caller, clock, deliveries>>

\* The TTL of a task key runs out; the sorted set has none.
ExpireKey(s) ==
    /\ Expiry
    /\ Get(s) # {}
    /\ taskData' = DelKey(s)
    /\ UNCHANGED <<pending, caller, worker, clock, deliveries>>

CallerStep(c) ==
    \/ \E s \in Sessions, p \in Priorities : EnqueueBegin(c, s, p)
    \/ EnqueueCheckSize(c)
    \/ EnqueueOverflow(c)
    \/ EnqueueSet(c)
    \/ EnqueueAdd(c)
    \/ EnqueueReturn(c)
    \/ EnqueueFail(c)

WorkerStep ==
    \/ DequeuePop \/ DequeueGet \/ DequeueDelete
    \/ PeekRange \/ PeekGet \/ PeekDropOrphan
    \/ \E s \in Sessions : RemoveEntry(s)
    \/ RemoveKey
    \/ WorkerFail

Next ==
    \/ \E c \in Callers : CallerStep(c)
    \/ WorkerStep
    \/ \E s \in Sessions : ExpireKey(s)

Spec == Init /\ [][Next]_vars

-----------------------------------------------------------------------------
(* Properties *)

CallerPC == {"idle", "zcard", "set", "zadd", "zrank"}
WorkerPC == {"idle", "popped", "got", "ranged", "orphan", "removing"}

\* Every variable stays in its domain, and a handler or the worker holds a
\* task or a session exactly when it is inside an operation.
TypeOK ==
    /\ pending \in SUBSET [session: Sessions, score: Int]
    /\ taskData \in SUBSET Task
    /\ caller \in [Callers -> [pc: CallerPC, task: Task \cup {NoTask}]]
    /\ \A c \in Callers : caller[c].pc # "idle" => caller[c].task \in Task
    /\ worker \in [pc: WorkerPC, session: Sessions \cup {NoSession},
                   task: Task \cup {NoTask}]
    /\ worker.pc # "idle" => worker.session \in Sessions
    /\ worker.pc = "got" => worker.task \in Task /\ worker.task.session = worker.session
    /\ clock \in 0..MaxEnqueues
    /\ deliveries \in [Tickets -> Nat]

\* Handlers that have passed the ZCARD check and not yet run ZADD.
Passed == {c \in Callers : caller[c].pc \in {"set", "zadd"}}

\* task_queue.py checks the size and adds in separate commands.  However the
\* handlers interleave, the queue exceeds max_queue_size by less than the
\* number of handlers that are inside enqueue at the same time.
QueueBound ==
    MaxQueueSize > 0 => Cardinality(pending) < MaxQueueSize + Cardinality(Callers)

\* However enqueues of one session, dequeues, failures and expiries
\* interleave, dequeue hands one QueuedTask to the processor at most once.
AtMostOnceDelivery == \A n \in Tickets : deliveries[n] <= 1

\* The sorted set and the task keys agree: an entry in the sorted set has its
\* task, and its score is the one of that task.  (No resubmission of a queued
\* session, no Redis failure, no expiry.)
EntryHasTask ==
    \A e \in pending : \E t \in taskData : t.session = e.session /\ Score(t) = e.score

\* Without resubmission, failures and expiry the interleaved commands
\* implement the reliable priority queue: ZADD puts, ZPOPMIN takes the first
\* in order, and an entry leaves in no other way than ZPOPMIN or remove.
Waiting == {t \in taskData : \E e \in pending : e.session = t.session}
Hand ==
    IF worker.pc \in {"popped", "got"}
    THEN CHOOSE t \in taskData : t.session = worker.session
    ELSE NoTask

Reliable == INSTANCE PriorityQueue WITH waiting <- Waiting, hand <- Hand
ReliableQueue == Reliable!Spec
=============================================================================
