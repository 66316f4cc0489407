-------------------------- MODULE TaskQueueProofs --------------------------
(***************************************************************************)
(* Theorems about TaskQueue, for every value of its constants.             *)
(***************************************************************************)
EXTENDS TaskQueue, FiniteSetTheorems, TLAPS

LEMMA NoTaskNotTask == NoTask \notin Task
BY TaskQueueAssumption

LEMMA NatTimes == ASSUME NEW i \in Nat, NEW j \in Nat PROVE i * j \in Int
OBVIOUS

LEMMA ScoreIsInt == ASSUME NEW t \in Task PROVE Score(t) \in Int
<1>1. t.at \in Int
  <2>1. t.at \in Tickets
    BY DEF Task
  <2>2. QED
    BY <2>1, TaskQueueAssumption DEF Tickets
<1>2. t.priority \in Nat /\ PriorityWeight \in Nat
  BY TaskQueueAssumption, Zenon DEF Task
<1>3. t.priority * PriorityWeight \in Int
  BY <1>2, NatTimes
<1>4. QED
  BY <1>1, <1>3 DEF Score

\* Every variable stays in its domain and every operation in progress holds
\* the session or task it works on.
THEOREM TypeCorrect == Spec => []TypeOK
<1> USE DEF TypeOK, CallerPC, WorkerPC
<1>1. Init => TypeOK
  BY TaskQueueAssumption DEF Init, IdleCaller, IdleWorker, Tickets
<1>2. TypeOK /\ [Next]_vars => TypeOK'
  <2> SUFFICES ASSUME TypeOK, [Next]_vars PROVE TypeOK'
    OBVIOUS
  <2>1. ASSUME NEW c \in Callers, NEW s \in Sessions, NEW p \in Priorities,
               EnqueueBegin(c, s, p)
        PROVE  TypeOK'
    <3>1. clock + 1 \in Tickets /\ clock' \in 0..MaxEnqueues
      BY <2>1, TaskQueueAssumption DEF EnqueueBegin, Tickets
    <3>2. [session |-> s, priority |-> p, at |-> clock + 1] \in Task
      BY <3>1 DEF Task
    <3>3. QED
      BY <2>1, <3>1, <3>2 DEF EnqueueBegin
  <2>2. ASSUME NEW c \in Callers, EnqueueCheckSize(c) PROVE TypeOK'
    BY <2>2 DEF EnqueueCheckSize
  <2>3. ASSUME NEW c \in Callers, EnqueueOverflow(c) PROVE TypeOK'
    BY <2>3 DEF EnqueueOverflow, IdleCaller
  <2>4. ASSUME NEW c \in Callers, EnqueueSet(c) PROVE TypeOK'
    BY <2>4 DEF EnqueueSet, SetKey
  <2>5. ASSUME NEW c \in Callers, EnqueueAdd(c) PROVE TypeOK'
    <3>1. caller[c].task \in Task /\ caller[c].task.session \in Sessions
      BY <2>5 DEF EnqueueAdd, Task
    <3>2. pending' \in SUBSET [session: Sessions, score: Int]
      BY <2>5, <3>1, ScoreIsInt DEF EnqueueAdd, ZAdd
    <3>3. QED
      BY <2>5, <3>2 DEF EnqueueAdd
  <2>6. ASSUME NEW c \in Callers, EnqueueReturn(c) PROVE TypeOK'
    BY <2>6 DEF EnqueueReturn, IdleCaller, Task
  <2>7. ASSUME NEW c \in Callers, EnqueueFail(c) PROVE TypeOK'
    BY <2>7 DEF EnqueueFail, IdleCaller, Task
  <2>8. CASE DequeuePop
    BY <2>8 DEF DequeuePop, Minimal
  <2>9. CASE DequeueGet
    <3>1. CASE \E t \in Get(worker.session) :
                 worker' = [worker EXCEPT !.pc = "got", !.task = t]
      <4>1. PICK t \in taskData :
              /\ t.session = worker.session
              /\ worker' = [pc |-> "got", session |-> worker.session, task |-> t]
        BY <2>9, <3>1 DEF DequeueGet, Get
      <4>2. QED
        BY <2>9, <4>1 DEF DequeueGet
    <3>2. CASE worker' = IdleWorker
      BY <2>9, <3>2 DEF DequeueGet, IdleWorker
    <3>3. QED
      BY <2>9, <3>1, <3>2 DEF DequeueGet
  <2>10. CASE DequeueDelete
    <3>1. worker.task.at \in Tickets
      BY <2>10 DEF DequeueDelete, Task
    <3>2. QED
      BY <2>10, <3>1 DEF DequeueDelete, DelKey, IdleWorker
  <2>11. CASE PeekRange
    BY <2>11 DEF PeekRange, Minimal
  <2>12. CASE PeekGet
    BY <2>12 DEF PeekGet, IdleWorker
  <2>13. CASE PeekDropOrphan
    BY <2>13 DEF PeekDropOrphan, ZRem, IdleWorker
  <2>14. ASSUME NEW s \in Sessions, RemoveEntry(s) PROVE TypeOK'
    BY <2>14 DEF RemoveEntry, ZRem
  <2>15. CASE RemoveKey
    BY <2>15 DEF RemoveKey, DelKey, IdleWorker
  <2>16. CASE WorkerFail
    BY <2>16 DEF WorkerFail, IdleWorker
  <2>17. ASSUME NEW s \in Sessions, ExpireKey(s) PROVE TypeOK'
    BY <2>17 DEF ExpireKey, DelKey
  <2>18. CASE UNCHANGED vars
    BY <2>18 DEF vars
  <2>19. QED
    BY <2>1, <2>2, <2>3, <2>4, <2>5, <2>6, <2>7, <2>8, <2>9, <2>10, <2>11,
       <2>12, <2>13, <2>14, <2>15, <2>16, <2>17, <2>18
       DEF Next, CallerStep, WorkerStep
<1>3. QED
  BY <1>1, <1>2, PTL DEF Spec

-----------------------------------------------------------------------------
(* The size of the queue.                                                  *)

(* Every handler that has passed the check may add one entry.              *)
SizeInv ==
    /\ IsFiniteSet(pending)
    /\ MaxQueueSize > 0 =>
          Cardinality(pending) + Cardinality(Passed) <= MaxQueueSize - 1 + Cardinality(Callers)

LEMMA PassedIsFinite ==
    ASSUME IsFiniteSet(Callers)
    PROVE  IsFiniteSet(Passed) /\ Cardinality(Passed) \in Nat
           /\ Cardinality(Passed) <= Cardinality(Callers) /\ Cardinality(Callers) \in Nat
<1>1. Passed \in SUBSET Callers
  BY DEF Passed
<1>2. QED
  BY <1>1, FS_Subset, FS_CardinalityType

(* A step that adds no entry and lets no handler pass.                     *)
LEMMA Shrinks ==
    ASSUME IsFiniteSet(Callers), SizeInv, pending' \subseteq pending, Passed' \subseteq Passed
    PROVE  SizeInv'
<1>1. /\ IsFiniteSet(pending') /\ Cardinality(pending') <= Cardinality(pending)
      /\ Cardinality(pending') \in Nat /\ Cardinality(pending) \in Nat
  BY FS_Subset, FS_CardinalityType DEF SizeInv
<1>2. Cardinality(Passed') <= Cardinality(Passed) /\ Cardinality(Passed') \in Nat /\ Cardinality(Passed) \in Nat
  BY PassedIsFinite, FS_Subset, FS_CardinalityType
<1>3. Cardinality(Callers) \in Nat /\ MaxQueueSize \in Nat
  BY PassedIsFinite, TaskQueueAssumption
<1>4. QED
  BY <1>1, <1>2, <1>3 DEF SizeInv

LEMMA CheckSizeStep ==
    ASSUME IsFiniteSet(Callers), TypeOK, SizeInv, NEW c \in Callers, EnqueueCheckSize(c)
    PROVE  SizeInv'
<1>1. pending' = pending /\ Cardinality(pending) < MaxQueueSize
  BY DEF EnqueueCheckSize
<1>2. Passed' \in SUBSET Callers
  BY DEF Passed
<1>3. Cardinality(Passed') <= Cardinality(Callers) /\ Cardinality(Passed') \in Nat
  BY <1>2, FS_Subset, FS_CardinalityType
<1>4. Cardinality(pending) \in Nat /\ Cardinality(Callers) \in Nat /\ MaxQueueSize \in Nat
  BY FS_CardinalityType, PassedIsFinite, TaskQueueAssumption DEF SizeInv
<1>5. QED
  BY <1>1, <1>3, <1>4 DEF SizeInv

LEMMA AddStep ==
    ASSUME IsFiniteSet(Callers), TypeOK, SizeInv, NEW c \in Callers, EnqueueAdd(c)
    PROVE  SizeInv'
<1> DEFINE rest == {e \in pending : e.session # caller[c].task.session}
           new == [session |-> caller[c].task.session, score |-> Score(caller[c].task)]
<1>1. pending' = rest \cup {new}
  BY DEF EnqueueAdd, ZAdd
<1>2. rest \in SUBSET pending
  OBVIOUS
<1>3. IsFiniteSet(rest) /\ Cardinality(rest) <= Cardinality(pending)
      /\ Cardinality(rest) \in Nat /\ Cardinality(pending) \in Nat
  BY <1>2, FS_Subset, FS_CardinalityType DEF SizeInv
<1>4. /\ IsFiniteSet(pending') /\ Cardinality(pending') \in Nat
      /\ Cardinality(pending') <= Cardinality(pending) + 1
  <2> HIDE DEF rest, new
  <2>1. QED
    BY <1>1, <1>3, FS_AddElement
<1>5. Passed' = Passed \ {c} /\ c \in Passed
  BY DEF EnqueueAdd, Passed, TypeOK
<1>6. Cardinality(Passed') = Cardinality(Passed) - 1 /\ Cardinality(Passed) \in Nat
  BY <1>5, PassedIsFinite, FS_RemoveElement
<1>7. Cardinality(Callers) \in Nat /\ MaxQueueSize \in Nat
  BY PassedIsFinite, TaskQueueAssumption
<1>8. QED
  BY <1>3, <1>4, <1>6, <1>7 DEF SizeInv

LEMMA SizeStep ==
    ASSUME IsFiniteSet(Callers), TypeOK, SizeInv, [Next]_vars
    PROVE  SizeInv'
<1>1. ASSUME NEW c \in Callers, NEW s \in Sessions, NEW p \in Priorities, EnqueueBegin(c, s, p)
      PROVE  SizeInv'
  <2>1. CASE MaxQueueSize > 0
    <3>1. Passed' \subseteq Passed
      BY <1>1, <2>1 DEF EnqueueBegin, Passed, TypeOK
    <3>2. QED
      BY <1>1, <3>1, Shrinks DEF EnqueueBegin
  <2>2. CASE ~(MaxQueueSize > 0)
    BY <1>1, <2>2 DEF EnqueueBegin, SizeInv
  <2>3. QED
    BY <2>1, <2>2
<1>2. ASSUME NEW c \in Callers,
             EnqueueOverflow(c) \/ EnqueueSet(c) \/ EnqueueReturn(c) \/ EnqueueFail(c)
      PROVE  SizeInv'
  <2>1. Passed' \subseteq Passed
    BY <1>2 DEF EnqueueOverflow, EnqueueSet, EnqueueReturn, EnqueueFail, Passed, IdleCaller, TypeOK
  <2>2. QED
    BY <1>2, <2>1, Shrinks DEF EnqueueOverflow, EnqueueSet, EnqueueReturn, EnqueueFail
<1>3. ASSUME WorkerStep \/ (\E s \in Sessions : ExpireKey(s)) \/ UNCHANGED vars
      PROVE  SizeInv'
  <2>1. UNCHANGED caller /\ pending' \subseteq pending
    BY <1>3 DEF WorkerStep, DequeuePop, DequeueGet, DequeueDelete, PeekRange, PeekGet, PeekDropOrphan,
       RemoveEntry, RemoveKey, WorkerFail, ExpireKey, ZRem, vars
  <2>2. QED
    BY <2>1, Shrinks DEF Passed
<1>4. QED
  BY <1>1, <1>2, <1>3, CheckSizeStep, AddStep DEF Next, CallerStep

(* enqueue compares the size and adds the entry in separate commands: the  *)
(* queue exceeds max_queue_size by less than the number of handlers, for   *)
(* any number of handlers and sessions, with failing commands, answers     *)
(* that are lost and keys that expire.                                     *)
THEOREM QueueBounded == ASSUME IsFiniteSet(Callers) PROVE Spec => []QueueBound
<1>1. Init => SizeInv
  <2>1. SUFFICES ASSUME Init PROVE SizeInv
    OBVIOUS
  <2>2. pending = {} /\ Passed = {}
    BY <2>1 DEF Init, Passed, IdleCaller
  <2>3. Cardinality(Callers) \in Nat /\ MaxQueueSize \in Nat
    BY PassedIsFinite, TaskQueueAssumption
  <2>4. QED
    BY <2>2, <2>3, FS_EmptySet DEF SizeInv
<1>2. TypeOK /\ SizeInv /\ [Next]_vars => SizeInv'
  BY SizeStep
<1>3. SizeInv => QueueBound
  <2>1. SUFFICES ASSUME SizeInv, MaxQueueSize > 0 PROVE Cardinality(pending) < MaxQueueSize + Cardinality(Callers)
    BY DEF QueueBound
  <2>2. Cardinality(pending) \in Nat /\ Cardinality(Passed) \in Nat /\ Cardinality(Callers) \in Nat /\ MaxQueueSize \in Nat
    BY <2>1, PassedIsFinite, FS_CardinalityType, TaskQueueAssumption DEF SizeInv
  <2>3. QED
    BY <2>1, <2>2 DEF SizeInv
<1>4. QED
  BY <1>1, <1>2, <1>3, TypeCorrect, PTL DEF Spec

-----------------------------------------------------------------------------
(* Delivery.                                                               *)

(* The handler has a ticket that it has not written yet.                   *)
Fresh(c) == caller[c].pc \in {"zcard", "set"}
Got == worker.pc = "got"

(* A ticket is with one handler, or in one task key, or was delivered; the *)
(* worker may have read the key that it is about to delete.                *)
TicketInv ==
    /\ \A c \in Callers : Fresh(c) =>
          /\ caller[c].task.at <= clock
          /\ deliveries[caller[c].task.at] = 0
          /\ \A t \in taskData : t.at # caller[c].task.at
          /\ Got => worker.task.at # caller[c].task.at
          /\ \A d \in Callers : Fresh(d) /\ caller[d].task.at = caller[c].task.at => c = d
    /\ \A t \in taskData :
          /\ t.at <= clock
          /\ deliveries[t.at] = 0
          /\ \A u \in taskData : u.at = t.at => u = t
          /\ Got /\ worker.task.at = t.at => t.session = worker.session
    /\ Got => worker.task.at <= clock /\ deliveries[worker.task.at] = 0
    /\ \A n \in Tickets : clock < n => deliveries[n] = 0
    /\ AtMostOnceDelivery

(* A step that writes no task and delivers none.                           *)
LEMMA TicketsKept ==
    ASSUME TicketInv, UNCHANGED <<clock, deliveries>>, taskData' \subseteq taskData,
           \A c \in Callers : Fresh(c)' => Fresh(c) /\ caller'[c].task.at = caller[c].task.at,
           Got' => Got /\ worker'.task = worker.task /\ worker'.session = worker.session
    PROVE  TicketInv'
BY DEF TicketInv, AtMostOnceDelivery

LEMMA BeginTickets ==
    ASSUME TypeOK, TicketInv, NEW c \in Callers, NEW s \in Sessions, NEW p \in Priorities,
           EnqueueBegin(c, s, p)
    PROVE  TicketInv'
<1>1. clock \in Nat /\ clock' = clock + 1 /\ clock + 1 \in Tickets
  BY TaskQueueAssumption DEF TypeOK, EnqueueBegin, Tickets
<1>2. /\ taskData' = taskData /\ worker' = worker /\ deliveries' = deliveries
      /\ caller'[c].task.at = clock + 1
      /\ \A d \in Callers \ {c} : caller'[d] = caller[d]
  BY DEF EnqueueBegin, TypeOK
<1>3. \A d \in Callers \ {c} : Fresh(d) => caller[d].task.at \in Nat /\ caller[d].task.at <= clock
  BY DEF TicketInv, TypeOK, Fresh, Task, Tickets
<1>4. \A t \in taskData : t.at \in Nat /\ t.at <= clock
  BY DEF TicketInv, TypeOK, Task, Tickets
<1>5. Got => worker.task.at \in Nat /\ worker.task.at <= clock
  BY DEF TicketInv, TypeOK, Got, Task, Tickets
<1>6. deliveries[clock + 1] = 0
  BY <1>1 DEF TicketInv
<1>7. \A n \in Tickets : clock + 1 < n => deliveries[n] = 0
  BY <1>1 DEF TicketInv, Tickets
<1>8. \A d \in Callers \ {c} : Fresh(d)' <=> Fresh(d)
  BY <1>2 DEF Fresh
<1>9. ASSUME NEW d \in Callers, Fresh(d)'
      PROVE  /\ caller'[d].task.at <= clock'
             /\ deliveries'[caller'[d].task.at] = 0
             /\ \A t \in taskData' : t.at # caller'[d].task.at
             /\ Got' => worker'.task.at # caller'[d].task.at
             /\ \A e \in Callers : Fresh(e)' /\ caller'[e].task.at = caller'[d].task.at => d = e
  <2>1. CASE d = c
    <3>1. \A e \in Callers : Fresh(e)' /\ caller'[e].task.at = clock + 1 => c = e
      BY <1>1, <1>2, <1>3, <1>8
    <3>2. QED
      BY <1>1, <1>2, <1>4, <1>5, <1>6, <2>1, <3>1 DEF Got
  <2>2. CASE d # c
    <3>1. Fresh(d) /\ caller'[d] = caller[d] /\ caller[d].task.at \in Nat /\ caller[d].task.at <= clock
      BY <1>2, <1>3, <1>8, <1>9, <2>2
    <3>2. \A e \in Callers : Fresh(e)' /\ caller'[e].task.at = caller'[d].task.at => d = e
      BY <1>1, <1>2, <1>8, <3>1 DEF TicketInv
    <3>3. QED
      BY <1>1, <1>2, <3>1, <3>2 DEF TicketInv, Got
  <2>3. QED
    BY <2>1, <2>2
<1>10. QED
  BY <1>1, <1>2, <1>4, <1>5, <1>7, <1>9 DEF TicketInv, AtMostOnceDelivery, Got

LEMMA SetTickets ==
    ASSUME TypeOK, TicketInv, NEW c \in Callers, EnqueueSet(c)
    PROVE  TicketInv'
<1> DEFINE new == caller[c].task
<1>1. /\ taskData' \subseteq taskData \cup {new} /\ UNCHANGED <<worker, clock, deliveries>>
      /\ ~Fresh(c)' /\ Fresh(c)
      /\ \A d \in Callers \ {c} : caller'[d] = caller[d]
  BY DEF EnqueueSet, SetKey, TypeOK, Fresh
<1>2. new.at <= clock /\ deliveries[new.at] = 0 /\ (\A t \in taskData : t.at # new.at)
      /\ (Got => worker.task.at # new.at)
      /\ \A d \in Callers \ {c} : Fresh(d) => caller[d].task.at # new.at
  BY <1>1 DEF TicketInv
<1>3. QED
  BY <1>1, <1>2 DEF TicketInv, AtMostOnceDelivery, Fresh, Got

LEMMA GetTickets ==
    ASSUME TypeOK, TicketInv, DequeueGet
    PROVE  TicketInv'
<1>1. UNCHANGED <<taskData, caller, clock, deliveries>>
  BY DEF DequeueGet
<1>2. CASE worker' = IdleWorker
  <2>1. ~Got'
    BY <1>2 DEF Got, IdleWorker
  <2>2. QED
    BY <1>1, <2>1, TicketsKept DEF Fresh
<1>3. CASE \E t \in Get(worker.session) : worker' = [worker EXCEPT !.pc = "got", !.task = t]
  <2>1. PICK t \in Get(worker.session) : worker' = [worker EXCEPT !.pc = "got", !.task = t]
    BY <1>3
  <2>2. worker'.task = t /\ worker'.session = worker.session /\ t \in taskData /\ t.session = worker.session
    BY <2>1 DEF TypeOK, Get
  <2>3. QED
    BY <1>1, <2>2 DEF TicketInv, AtMostOnceDelivery, Fresh
<1>4. QED
  BY <1>2, <1>3 DEF DequeueGet

LEMMA DeleteTickets ==
    ASSUME TypeOK, TicketInv, DequeueDelete
    PROVE  TicketInv'
<1> DEFINE n == worker.task.at
<1>1. Got /\ n \in Tickets /\ deliveries[n] = 0 /\ n <= clock
  BY DEF DequeueDelete, TicketInv, Got, TypeOK, Task
<1>2. /\ taskData' \subseteq taskData /\ UNCHANGED <<caller, clock>> /\ ~Got'
      /\ deliveries' = [deliveries EXCEPT ![n] = 1]
  BY <1>1 DEF DequeueDelete, DelKey, Got, IdleWorker, TypeOK
<1>3. \A t \in taskData' : t.at # n
  BY <1>1 DEF DequeueDelete, DelKey, TicketInv
<1>4. \A c \in Callers : Fresh(c) => caller[c].task.at # n
  BY <1>1 DEF TicketInv
<1>5. \A m \in Tickets : deliveries'[m] = IF m = n THEN 1 ELSE deliveries[m]
  BY <1>2 DEF TypeOK
<1>6. \A m \in Tickets : clock < m => m # n
  BY <1>1, TaskQueueAssumption DEF TypeOK, Tickets
<1>7. (\A t \in taskData' : t.at \in Tickets) /\ (\A c \in Callers : Fresh(c) => caller[c].task.at \in Tickets)
  BY <1>2 DEF TypeOK, Task, Fresh
<1>8. (\A m \in Tickets : clock < m => deliveries'[m] = 0) /\ AtMostOnceDelivery'
  BY <1>5, <1>6 DEF TicketInv, AtMostOnceDelivery
<1>9. QED
  BY <1>2, <1>3, <1>4, <1>5, <1>7, <1>8 DEF TicketInv, Fresh

LEMMA TicketStep ==
    ASSUME TypeOK, TicketInv, [Next]_vars
    PROVE  TicketInv'
<1>1. ASSUME NEW c \in Callers,
             \/ EnqueueCheckSize(c) \/ EnqueueOverflow(c) \/ EnqueueAdd(c)
             \/ EnqueueReturn(c) \/ EnqueueFail(c)
      PROVE  TicketInv'
  <2>1. /\ UNCHANGED <<taskData, worker, clock, deliveries>>
        /\ \A d \in Callers : Fresh(d)' => Fresh(d) /\ caller'[d].task.at = caller[d].task.at
    BY <1>1 DEF EnqueueCheckSize, EnqueueOverflow, EnqueueAdd, EnqueueReturn, EnqueueFail,
       IdleCaller, Fresh, TypeOK
  <2>2. QED
    BY <2>1, TicketsKept DEF Got
<1>2. ASSUME \/ DequeuePop \/ PeekRange \/ PeekGet \/ PeekDropOrphan \/ RemoveKey \/ WorkerFail
             \/ \E s \in Sessions : RemoveEntry(s) \/ ExpireKey(s)
             \/ UNCHANGED vars
      PROVE  TicketInv'
  <2>1. /\ UNCHANGED <<caller, clock, deliveries>> /\ taskData' \subseteq taskData
        /\ ~Got' \/ UNCHANGED worker
    BY <1>2 DEF DequeuePop, PeekRange, PeekGet, PeekDropOrphan, RemoveKey, WorkerFail, RemoveEntry,
       ExpireKey, DelKey, vars, Got, IdleWorker, TypeOK
  <2>2. QED
    BY <2>1, TicketsKept DEF Got, Fresh
<1>3. QED
  BY <1>1, <1>2, BeginTickets, SetTickets, GetTickets, DeleteTickets DEF Next, CallerStep, WorkerStep

(* dequeue hands a task to the processor at most once, for any number of   *)
(* handlers that enqueue the same and other sessions, with failing         *)
(* commands, lost answers and keys that expire between GET and DEL.        *)
THEOREM DeliveredOnce == Spec => []AtMostOnceDelivery
<1>1. Init => TicketInv
  BY DEF Init, TicketInv, AtMostOnceDelivery, Fresh, Got, IdleCaller, IdleWorker
<1>2. TypeOK /\ TicketInv /\ [Next]_vars => TicketInv'
  BY TicketStep
<1>3. TicketInv => AtMostOnceDelivery
  BY DEF TicketInv
<1>4. QED
  BY <1>1, <1>2, <1>3, TypeCorrect, PTL DEF Spec

-----------------------------------------------------------------------------
(* Without resubmission, failing commands and expiry.                      *)

NoDisturbance == ~Resubmit /\ ~Faults /\ ~Expiry

Entered(s) == \E e \in pending : e.session = s
Busy(c) == caller[c].pc # "idle"

(* A handler that has not added its entry is the only one that works on    *)
(* the session, and so is the worker once it has taken the entry away.     *)
EntryInv ==
    /\ EntryHasTask
    /\ \A e, f \in pending : e.session = f.session => e = f
    /\ \A t, u \in taskData : t.session = u.session => t = u
    /\ \A c \in Callers : caller[c].pc \in {"zcard", "set", "zadd"} => ~Entered(caller[c].task.session)
    /\ \A c \in Callers : caller[c].pc = "zadd" => caller[c].task \in taskData
    /\ \A c, d \in Callers : Busy(c) /\ Busy(d) /\ caller[c].task.session = caller[d].task.session => c = d
    /\ worker.pc \in {"popped", "got", "removing"} =>
          /\ ~Entered(worker.session)
          /\ \A c \in Callers : Busy(c) /\ caller[c].task.session = worker.session => caller[c].pc = "zrank"
    /\ worker.pc \in {"popped", "got"} => \E t \in taskData : t.session = worker.session

LEMMA BeginEntries ==
    ASSUME NoDisturbance, TypeOK, EntryInv,
           NEW c \in Callers, NEW s \in Sessions, NEW p \in Priorities, EnqueueBegin(c, s, p)
    PROVE  EntryInv'
<1>1. /\ UNCHANGED <<pending, taskData, worker>>
      /\ caller'[c].task.session = s /\ caller'[c].pc \in {"zcard", "set"}
      /\ \A d \in Callers \ {c} : caller'[d] = caller[d]
  BY DEF EnqueueBegin, TypeOK
<1>2. ~Entered(s) /\ worker.session # s
      /\ \A d \in Callers : Busy(d) => caller[d].task.session # s
  BY DEF EnqueueBegin, NoDisturbance, InUse, Entered, Busy
<1>3. \A r : Entered(r)' = Entered(r)
  BY <1>1 DEF Entered
<1>4. \A d \in Callers \ {c} : Busy(d)' = Busy(d)
  BY <1>1 DEF Busy
<1>5. \A d \in Callers : caller'[d].pc \in {"zcard", "set", "zadd"} => ~Entered(caller'[d].task.session)
  BY <1>1, <1>2 DEF EntryInv
<1>6. \A d \in Callers : caller'[d].pc = "zadd" => caller'[d].task \in taskData'
  BY <1>1 DEF EntryInv
<1>7. \A d, e \in Callers : Busy(d)' /\ Busy(e)' /\ caller'[d].task.session = caller'[e].task.session => d = e
  BY <1>1, <1>2, <1>4 DEF EntryInv
<1>8. worker.pc \in {"popped", "got", "removing"} =>
          \A d \in Callers : Busy(d)' /\ caller'[d].task.session = worker.session => caller'[d].pc = "zrank"
  BY <1>1, <1>2, <1>4 DEF EntryInv
<1>9. QED
  BY <1>1, <1>3, <1>5, <1>6, <1>7, <1>8 DEF EntryInv, EntryHasTask

(* A handler that goes on without writing.                                 *)
LEMMA GoesOn ==
    ASSUME EntryInv, NEW c \in Callers, UNCHANGED <<pending, taskData, worker>>, Busy(c),
           \A d \in Callers \ {c} : caller'[d] = caller[d],
           \/ caller'[c].pc = "idle"
           \/ caller[c].pc = "zcard" /\ caller'[c].pc = "set" /\ caller'[c].task = caller[c].task
    PROVE  EntryInv'
<1>1. \A r : Entered(r)' = Entered(r)
  BY DEF Entered
<1>2. \A d \in Callers : Busy(d)' => Busy(d) /\ caller'[d].task = caller[d].task
        /\ (caller'[d].pc = caller[d].pc \/ (caller[d].pc = "zcard" /\ caller'[d].pc = "set"))
  BY DEF Busy
<1>3. QED
  BY <1>1, <1>2 DEF EntryInv, EntryHasTask, Busy

LEMMA SetEntries ==
    ASSUME TypeOK, EntryInv, NEW c \in Callers, EnqueueSet(c)
    PROVE  EntryInv'
<1> DEFINE new == caller[c].task
<1>1. /\ UNCHANGED <<pending, worker>> /\ caller[c].pc = "set" /\ Busy(c)
      /\ caller'[c].pc = "zadd" /\ caller'[c].task = new
      /\ \A d \in Callers \ {c} : caller'[d] = caller[d]
      /\ taskData' = {d \in taskData : d.session # new.session} \cup {new}
  BY DEF EnqueueSet, SetKey, TypeOK, Busy
<1>2. \A r : Entered(r)' = Entered(r)
  BY <1>1 DEF Entered
<1>3. \A d \in Callers : (Busy(d)' <=> Busy(d)) /\ caller'[d].task = caller[d].task
  BY <1>1 DEF Busy
<1>4. ~Entered(new.session) /\ (worker.pc \in {"popped", "got", "removing"} => worker.session # new.session)
  BY <1>1 DEF EntryInv
<1>5. EntryHasTask'
  BY <1>1, <1>4 DEF EntryInv, EntryHasTask, Entered
<1>6. \A d \in Callers : caller'[d].pc = "zadd" => caller'[d].task \in taskData'
  <2>1. \A d \in Callers \ {c} : caller[d].pc = "zadd" => caller[d].task \in taskData /\ caller[d].task.session # new.session
    BY <1>1 DEF EntryInv, Busy
  <2>2. QED
    BY <1>1, <2>1
<1>7. \A t, u \in taskData' : t.session = u.session => t = u
  BY <1>1 DEF EntryInv
<1>8. worker.pc \in {"popped", "got"} => \E t \in taskData' : t.session = worker.session
  BY <1>1, <1>4 DEF EntryInv
<1>9. \A d \in Callers : caller'[d].pc \in {"zcard", "set", "zadd"} => ~Entered(caller'[d].task.session)
  BY <1>1, <1>3, <1>4 DEF EntryInv
<1>10. worker.pc \in {"popped", "got", "removing"} =>
          /\ ~Entered(worker.session)
          /\ \A d \in Callers : Busy(d)' /\ caller'[d].task.session = worker.session => caller'[d].pc = "zrank"
  BY <1>1, <1>3, <1>4 DEF EntryInv
<1>11. QED
  BY <1>1, <1>2, <1>3, <1>5, <1>6, <1>7, <1>8, <1>9, <1>10 DEF EntryInv

LEMMA AddEntries ==
    ASSUME TypeOK, EntryInv, NEW c \in Callers, EnqueueAdd(c)
    PROVE  EntryInv'
<1> DEFINE new == caller[c].task
           entry == [session |-> new.session, score |-> Score(new)]
<1>1. /\ UNCHANGED <<taskData, worker>> /\ caller[c].pc = "zadd" /\ Busy(c)
      /\ caller'[c].pc = "zrank" /\ caller'[c].task = new
      /\ \A d \in Callers \ {c} : caller'[d] = caller[d]
      /\ pending' = {e \in pending : e.session # new.session} \cup {entry}
  BY DEF EnqueueAdd, ZAdd, TypeOK, Busy
<1>2. \A r : Entered(r)' => Entered(r) \/ r = new.session
  BY <1>1 DEF Entered
<1>3. \A d \in Callers : (Busy(d)' <=> Busy(d)) /\ caller'[d].task = caller[d].task
  BY <1>1 DEF Busy
<1>4. new \in taskData /\ (worker.pc \in {"popped", "got", "removing"} => worker.session # new.session)
  BY <1>1 DEF EntryInv
<1>5. EntryHasTask'
  BY <1>1, <1>4 DEF EntryInv, EntryHasTask
<1>6. \A e, f \in pending' : e.session = f.session => e = f
  BY <1>1 DEF EntryInv
<1>7. \A d \in Callers : caller'[d].pc \in {"zcard", "set", "zadd"} =>
          \A e \in pending' : e.session # caller'[d].task.session
  <2>1. \A d \in Callers \ {c} : caller[d].pc \in {"zcard", "set", "zadd"} =>
            caller[d].task.session # new.session /\ ~Entered(caller[d].task.session)
    BY <1>1 DEF EntryInv, Busy
  <2>2. SUFFICES ASSUME NEW d \in Callers, caller'[d].pc \in {"zcard", "set", "zadd"},
                        NEW e \in pending', e.session = caller'[d].task.session
                 PROVE  FALSE
    OBVIOUS
  <2>3. QED
    BY <1>1, <2>1, <2>2 DEF Entered
<1>8. worker.pc \in {"popped", "got", "removing"} => \A e \in pending' : e.session # worker.session
  BY <1>1, <1>4 DEF EntryInv, Entered
<1>9. \A d \in Callers : caller'[d].pc = "zadd" => caller'[d].task \in taskData
  BY <1>1 DEF EntryInv
<1>10. worker.pc \in {"popped", "got", "removing"} =>
          \A d \in Callers : Busy(d)' /\ caller'[d].task.session = worker.session => caller'[d].pc = "zrank"
  BY <1>1, <1>3 DEF EntryInv
<1>11. QED
  BY <1>1, <1>3, <1>5, <1>6, <1>7, <1>8, <1>9, <1>10 DEF EntryInv, Entered

(* A step of the worker, which takes entries away and, once it has, keys   *)
(* of sessions that have none.                                             *)
LEMMA WorkerEntries ==
    ASSUME EntryInv, UNCHANGED caller, pending' \subseteq pending,
           taskData' = taskData \/ (\E s : taskData' = DelKey(s) /\ ~Entered(s)
                                          /\ \A c \in Callers : caller[c].pc = "zadd" => caller[c].task.session # s),
           worker'.pc \in {"popped", "got", "removing"} =>
              /\ \A e \in pending' : e.session # worker'.session
              /\ \A c \in Callers : Busy(c) /\ caller[c].task.session = worker'.session => caller[c].pc = "zrank",
           worker'.pc \in {"popped", "got"} => \E t \in taskData' : t.session = worker'.session
    PROVE  EntryInv'
<1>1. \A r : Entered(r)' => Entered(r)
  BY DEF Entered
<1>2. taskData' \subseteq taskData
  BY DEF DelKey
<1>3. EntryHasTask'
  BY DEF EntryInv, EntryHasTask, DelKey, Entered
<1>4. \A c \in Callers : caller[c].pc = "zadd" => caller[c].task \in taskData'
  BY DEF EntryInv, DelKey
<1>5. \A c \in Callers : caller[c].pc \in {"zcard", "set", "zadd"} => \A e \in pending' : e.session # caller[c].task.session
  BY DEF EntryInv, Entered
<1>6. QED
  BY <1>2, <1>3, <1>4, <1>5 DEF EntryInv, Busy, Entered

LEMMA PopEntries ==
    ASSUME TypeOK, EntryInv, NEW e \in Minimal, pending' = pending \ {e},
           worker' = [pc |-> "popped", session |-> e.session, task |-> NoTask],
           UNCHANGED <<taskData, caller>>
    PROVE  EntryInv'
<1>1. e \in pending /\ Entered(e.session)
  BY DEF Minimal, Entered
<1>2. \A f \in pending' : f.session # e.session
  BY <1>1 DEF EntryInv
<1>3. \A c \in Callers : Busy(c) /\ caller[c].task.session = e.session => caller[c].pc = "zrank"
  BY <1>1 DEF EntryInv, Busy, TypeOK, CallerPC
<1>4. \E t \in taskData : t.session = e.session
  BY <1>1 DEF EntryInv, EntryHasTask
<1>5. QED
  BY <1>2, <1>3, <1>4, WorkerEntries

LEMMA EntryStep ==
    ASSUME NoDisturbance, TypeOK, EntryInv, [Next]_vars
    PROVE  EntryInv'
<1>1. ASSUME NEW c \in Callers, EnqueueCheckSize(c) \/ EnqueueOverflow(c) \/ EnqueueReturn(c)
      PROVE  EntryInv'
  <2>1. /\ UNCHANGED <<pending, taskData, worker>> /\ Busy(c)
        /\ \A d \in Callers \ {c} : caller'[d] = caller[d]
        /\ \/ caller'[c].pc = "idle"
           \/ caller[c].pc = "zcard" /\ caller'[c].pc = "set" /\ caller'[c].task = caller[c].task
    BY <1>1 DEF EnqueueCheckSize, EnqueueOverflow, EnqueueReturn, IdleCaller, Busy, TypeOK
  <2>2. QED
    BY <2>1, GoesOn
<1>2. ASSUME NEW c \in Callers, CallerStep(c) PROVE EntryInv'
  BY <1>1, <1>2, BeginEntries, SetEntries, AddEntries DEF CallerStep, EnqueueFail, NoDisturbance
<1>3. CASE DequeuePop
  BY <1>3, PopEntries DEF DequeuePop
<1>4. CASE DequeueGet
  <2>1. UNCHANGED <<pending, taskData, caller>> /\ worker.pc = "popped" /\ Get(worker.session) # {}
    BY <1>4 DEF DequeueGet, EntryInv, Get
  <2>2. PICK t : worker' = [worker EXCEPT !.pc = "got", !.task = t]
    BY <1>4, <2>1 DEF DequeueGet
  <2>3. worker'.pc = "got" /\ worker'.session = worker.session
    BY <2>2 DEF TypeOK
  <2>4. QED
    BY <2>1, <2>3 DEF EntryInv, EntryHasTask, Entered, Busy
<1>5. CASE DequeueDelete \/ RemoveKey
  <2>1. /\ UNCHANGED <<pending, caller>> /\ worker.pc \in {"got", "removing"} /\ worker'.pc = "idle"
        /\ taskData' = DelKey(worker.session)
    BY <1>5 DEF DequeueDelete, RemoveKey, IdleWorker
  <2>2. ~Entered(worker.session) /\ \A c \in Callers : caller[c].pc = "zadd" => caller[c].task.session # worker.session
    BY <2>1 DEF EntryInv, Busy
  <2>3. QED
    BY <2>1, <2>2, WorkerEntries
<1>6. CASE PeekRange \/ PeekGet \/ PeekDropOrphan
  <2>1. /\ UNCHANGED <<caller, taskData>> /\ pending' \subseteq pending
        /\ worker'.pc \in {"idle", "ranged", "orphan"}
    BY <1>6 DEF PeekRange, PeekGet, PeekDropOrphan, ZRem, IdleWorker, TypeOK
  <2>2. QED
    BY <2>1, WorkerEntries
<1>7. ASSUME NEW s \in Sessions, RemoveEntry(s) PROVE EntryInv'
  <2>1. /\ UNCHANGED <<caller, taskData>> /\ pending' = ZRem(s)
        /\ worker'.pc = "removing" /\ worker'.session = s
    BY <1>7 DEF RemoveEntry
  <2>2. \A c \in Callers : Busy(c) => caller[c].task.session # s
    BY <1>7 DEF RemoveEntry, NoDisturbance, Busy
  <2>3. \A e \in pending' : e.session # worker'.session
    BY <2>1 DEF ZRem
  <2>4. QED
    BY <2>1, <2>2, <2>3, WorkerEntries DEF ZRem
<1>8. CASE UNCHANGED vars
  BY <1>8 DEF vars, EntryInv, EntryHasTask, Entered, Busy
<1>9. QED
  BY <1>2, <1>3, <1>4, <1>5, <1>6, <1>7, <1>8 DEF Next, WorkerStep, WorkerFail, ExpireKey, NoDisturbance

(* Every entry of the sorted set has its task, with the score that is in   *)
(* the set, as long as no command fails, no key expires and no session is  *)
(* enqueued while it is still in the queue: the order SET, ZADD in enqueue *)
(* and ZPOPMIN, GET, DEL in dequeue is enough, without any transaction.    *)
THEOREM EntriesHaveTasks == ASSUME NoDisturbance PROVE Spec => []EntryHasTask
<1>1. Init => EntryInv
  BY DEF Init, EntryInv, EntryHasTask, Entered, Busy, IdleCaller, IdleWorker
<1>2. TypeOK /\ EntryInv /\ [Next]_vars => EntryInv'
  BY EntryStep
<1>3. EntryInv => EntryHasTask
  BY DEF EntryInv
<1>4. QED
  BY <1>1, <1>2, <1>3, TypeCorrect, PTL DEF Spec

-----------------------------------------------------------------------------
(* The commands implement the priority queue.                              *)

Holding == worker.pc \in {"popped", "got"}

(* The mapped hand is the one task of the session the worker holds.        *)
LEMMA HandIs ==
    ASSUME EntryInv, Holding, NEW t \in taskData, t.session = worker.session
    PROVE  Hand = t
<1>1. \A u \in taskData : u.session = worker.session <=> u = t
  BY DEF EntryInv
<1>2. Hand = CHOOSE u \in taskData : u.session = worker.session
  BY DEF Hand, Holding
<1>3. PICK u \in taskData : u = (CHOOSE v \in taskData : v.session = worker.session) /\ u.session = worker.session
  OBVIOUS
<1>4. QED
  BY <1>1, <1>2, <1>3

LEMMA NoHand == ~Holding => Hand = NoTask
BY DEF Hand, Holding

LEMMA HandKept ==
    ASSUME EntryInv, EntryInv', UNCHANGED worker,
           \A t \in taskData : Holding /\ t.session = worker.session => t \in taskData'
    PROVE  Hand' = Hand
<1>1. CASE Holding
  <2>1. PICK t \in taskData : t.session = worker.session
    BY <1>1 DEF EntryInv, Holding
  <2>2. Hand = t
    BY <1>1, <2>1, HandIs
  <2>3. t \in taskData' /\ Holding'
    BY <1>1, <2>1 DEF Holding
  <2>4. \A u \in taskData' : u.session = worker'.session <=> u = t
    BY <2>1, <2>3 DEF EntryInv
  <2>5. Hand' = CHOOSE u \in taskData' : u.session = worker'.session
    BY <2>3 DEF Hand, Holding
  <2>6. Hand' = t
    BY <2>3, <2>4, <2>5
  <2>7. QED
    BY <2>2, <2>6
<1>2. CASE ~Holding
  BY <1>2 DEF Hand, Holding
<1>3. QED
  BY <1>1, <1>2

(* A step that changes neither the waiting tasks nor the hand.             *)
LEMMA Stutters ==
    ASSUME Waiting' = Waiting, Hand' = Hand
    PROVE  [Reliable!Next]_(Reliable!vars)
BY DEF Reliable!vars

LEMMA QuietCaller ==
    ASSUME TypeOK, EntryInv, EntryInv', NEW c \in Callers,
           (\E s \in Sessions, p \in Priorities : EnqueueBegin(c, s, p))
           \/ EnqueueCheckSize(c) \/ EnqueueOverflow(c) \/ EnqueueReturn(c)
    PROVE  [Reliable!Next]_(Reliable!vars)
<1>1. UNCHANGED <<pending, taskData, worker>>
  BY DEF EnqueueBegin, EnqueueCheckSize, EnqueueOverflow, EnqueueReturn
<1>2. Waiting' = Waiting /\ Hand' = Hand
  BY <1>1 DEF Waiting, Hand
<1>3. QED
  BY <1>2, Stutters

(* SET: the session has no entry, before and after.                        *)
LEMMA SetRefines ==
    ASSUME TypeOK, EntryInv, EntryInv', NEW c \in Callers, EnqueueSet(c)
    PROVE  [Reliable!Next]_(Reliable!vars)
<1> DEFINE new == caller[c].task
<1>1. /\ UNCHANGED <<pending, worker>>
      /\ taskData' = {d \in taskData : d.session # new.session} \cup {new}
      /\ ~Entered(new.session)
      /\ Holding => worker.session # new.session
  BY DEF EnqueueSet, SetKey, EntryInv, Busy, Holding
<1>2. Waiting' = Waiting
  BY <1>1 DEF Waiting, Entered
<1>3. Hand' = Hand
  BY <1>1, HandKept
<1>4. QED
  BY <1>2, <1>3, Stutters

(* ZADD puts the task.                                                     *)
LEMMA AddRefines ==
    ASSUME TypeOK, EntryInv, EntryInv', NEW c \in Callers, EnqueueAdd(c)
    PROVE  [Reliable!Next]_(Reliable!vars)
<1> DEFINE new == caller[c].task
<1>1. /\ UNCHANGED <<taskData, worker>>
      /\ pending' = {e \in pending : e.session # new.session}
                        \cup {[session |-> new.session, score |-> Score(new)]}
      /\ new \in taskData /\ new \in Task /\ ~Entered(new.session)
  BY DEF EnqueueAdd, ZAdd, EntryInv, TypeOK
<1>2. pending' = pending \cup {[session |-> new.session, score |-> Score(new)]}
  BY <1>1 DEF Entered
<1>3. Waiting' = Waiting \cup {new}
  <2>1. \A t \in taskData : t.session = new.session <=> t = new
    BY <1>1 DEF EntryInv
  <2>2. \A t \in taskData : (\E e \in pending' : e.session = t.session)
            <=> (\E e \in pending : e.session = t.session) \/ t = new
    <3>1. \A r : (\E e \in pending' : e.session = r) <=> (\E e \in pending : e.session = r) \/ r = new.session
      <4> DEFINE entry == [session |-> new.session, score |-> Score(new)]
      <4>1. entry.session = new.session /\ pending' = pending \cup {entry}
        BY <1>2
      <4> HIDE DEF entry, new
      <4>2. QED
        BY <4>1
    <3>2. QED
      BY <2>1, <3>1
  <2>3. QED
    BY <1>1, <2>2 DEF Waiting
<1>4. \A u \in Waiting : u.session # new.session
  BY <1>1 DEF Waiting, Entered
<1>5. Hand' = Hand
  BY <1>1, HandKept
<1>6. Reliable!Put(new)
  BY <1>3, <1>4, <1>5 DEF Reliable!Put
<1>7. QED
  BY <1>1, <1>6 DEF Reliable!Next

(* ZPOPMIN takes a task that none precedes.                                *)
LEMMA PopRefines ==
    ASSUME TypeOK, EntryInv, EntryInv', DequeuePop
    PROVE  [Reliable!Next]_(Reliable!vars)
<1>1. PICK e \in Minimal : /\ pending' = pending \ {e}
                           /\ worker' = [pc |-> "popped", session |-> e.session, task |-> NoTask]
  BY DEF DequeuePop
<1>2. worker.pc = "idle" /\ taskData' = taskData /\ e \in pending
  BY DEF DequeuePop, Minimal
<1>3. PICK t \in taskData : t.session = e.session /\ Score(t) = e.score
  BY <1>2 DEF EntryInv, EntryHasTask
<1>4. \A u \in taskData : u.session = e.session <=> u = t
  BY <1>3 DEF EntryInv
<1>5. Hand = NoTask
  BY <1>2, NoHand DEF Holding
<1>6. Hand' = t
  <2>1. Hand' = CHOOSE u \in taskData : u.session = e.session
    BY <1>1, <1>2 DEF Hand
  <2>2. QED
    BY <1>3, <1>4, <2>1
<1>7. t \in Waiting
  BY <1>2, <1>3 DEF Waiting
<1>8. Waiting' = Waiting \ {t}
  <2>1. \A f \in pending : f.session = e.session <=> f = e
    BY <1>2 DEF EntryInv
  <2>2. QED
    BY <1>1, <1>2, <1>4, <2>1 DEF Waiting
<1>9. ASSUME NEW u \in Waiting PROVE ~Reliable!Precedes(u, t)
  <2>1. PICK f \in pending : f.session = u.session
    BY DEF Waiting
  <2>2. Score(u) = f.score
    BY <2>1 DEF EntryInv, EntryHasTask, Waiting
  <2>3. e.score <= f.score
    BY DEF Minimal
  <2>4. Score(t) \in Int /\ Score(u) \in Int
    BY ScoreIsInt DEF TypeOK, Waiting
  <2>5. ~(Score(u) < Score(t))
    BY <1>3, <2>2, <2>3, <2>4
  <2>6. QED
    BY <2>5, Zenon DEF Reliable!Precedes, Score
<1>10. Reliable!Take(t)
  BY <1>5, <1>6, <1>7, <1>8, <1>9 DEF Reliable!Take
<1>11. t \in Task
  BY DEF TypeOK
<1>12. QED
  BY <1>10, <1>11 DEF Reliable!Next

(* GET keeps what the worker holds; DEL after it hands the task over.      *)
LEMMA GetRefines ==
    ASSUME TypeOK, EntryInv, EntryInv', DequeueGet
    PROVE  [Reliable!Next]_(Reliable!vars)
<1>1. UNCHANGED <<pending, taskData>> /\ worker.pc = "popped" /\ Get(worker.session) # {}
  BY DEF DequeueGet, EntryInv, Get
<1>2. PICK t : worker' = [worker EXCEPT !.pc = "got", !.task = t]
  BY <1>1 DEF DequeueGet
<1>3. worker'.pc = "got" /\ worker'.session = worker.session
  BY <1>2 DEF TypeOK
<1>4. Hand' = Hand /\ Waiting' = Waiting
  BY <1>1, <1>3 DEF Hand, Waiting
<1>5. QED
  BY <1>4, Stutters

LEMMA DeleteRefines ==
    ASSUME TypeOK, EntryInv, EntryInv', DequeueDelete
    PROVE  [Reliable!Next]_(Reliable!vars)
<1>1. worker.pc = "got" /\ pending' = pending /\ worker'.pc = "idle" /\ taskData' = DelKey(worker.session)
  BY DEF DequeueDelete, IdleWorker
<1>2. PICK t \in taskData : t.session = worker.session
  BY <1>1 DEF EntryInv
<1>3. Hand = t /\ t # NoTask
  BY <1>1, <1>2, HandIs, NoTaskNotTask DEF Holding, TypeOK
<1>4. Hand' = NoTask
  BY <1>1 DEF Hand
<1>5. Waiting' = Waiting
  BY <1>1 DEF Waiting, DelKey, EntryInv, Entered
<1>6. QED
  BY <1>3, <1>4, <1>5 DEF Reliable!Next, Reliable!HandOver

(* remove withdraws the task of a session, if there is one.                *)
LEMMA WithdrawRefines ==
    ASSUME TypeOK, EntryInv, NEW s, ~Holding, ~Holding', taskData' = taskData, pending' = ZRem(s)
    PROVE  [Reliable!Next]_(Reliable!vars)
<1>1. Hand = NoTask /\ Hand' = NoTask
  BY DEF Hand, Holding
<1>2. Waiting' = {t \in Waiting : t.session # s}
  BY DEF Waiting, ZRem
<1>3. CASE \E t \in Waiting : t.session = s
  <2>1. PICK t \in Waiting : t.session = s
    BY <1>3
  <2>2. \A u \in Waiting : u.session = s <=> u = t
    BY <2>1 DEF Waiting, EntryInv
  <2>3. Waiting' = Waiting \ {t} /\ t \in Task
    BY <1>2, <2>1, <2>2 DEF Waiting, TypeOK
  <2>4. Reliable!Withdraw(t)
    BY <1>1, <2>1, <2>3 DEF Reliable!Withdraw
  <2>5. QED
    BY <2>3, <2>4 DEF Reliable!Next
<1>4. CASE ~\E t \in Waiting : t.session = s
  BY <1>1, <1>2, <1>4, Stutters
<1>5. QED
  BY <1>3, <1>4

LEMMA RemoveKeyRefines ==
    ASSUME EntryInv, RemoveKey
    PROVE  [Reliable!Next]_(Reliable!vars)
<1>1. worker.pc = "removing" /\ pending' = pending /\ worker'.pc = "idle" /\ taskData' = DelKey(worker.session)
  BY DEF RemoveKey, IdleWorker
<1>2. Waiting' = Waiting
  BY <1>1 DEF Waiting, DelKey, EntryInv, Entered
<1>3. Hand' = Hand
  BY <1>1 DEF Hand
<1>4. QED
  BY <1>2, <1>3, Stutters

LEMMA PeekRefines ==
    ASSUME TypeOK, EntryInv, PeekRange \/ PeekGet \/ PeekDropOrphan
    PROVE  [Reliable!Next]_(Reliable!vars)
<1>1. ~Holding /\ ~Holding' /\ taskData' = taskData
  BY DEF PeekRange, PeekGet, PeekDropOrphan, Holding, IdleWorker, TypeOK
<1>2. CASE PeekDropOrphan
  BY <1>1, <1>2, WithdrawRefines DEF PeekDropOrphan
<1>3. CASE pending' = pending
  BY <1>1, <1>3, Stutters DEF Waiting, Hand, Holding
<1>4. QED
  BY <1>2, <1>3 DEF PeekRange, PeekGet

LEMMA StepRefines ==
    ASSUME NoDisturbance, TypeOK, EntryInv, EntryInv', [Next]_vars
    PROVE  [Reliable!Next]_(Reliable!vars)
<1>1. ASSUME NEW c \in Callers, CallerStep(c) PROVE [Reliable!Next]_(Reliable!vars)
  BY <1>1, QuietCaller, SetRefines, AddRefines DEF CallerStep, EnqueueFail, NoDisturbance
<1>2. ASSUME NEW s \in Sessions, RemoveEntry(s) PROVE [Reliable!Next]_(Reliable!vars)
  <2>1. ~Holding /\ ~Holding' /\ taskData' = taskData /\ pending' = ZRem(s)
    BY <1>2 DEF RemoveEntry, Holding
  <2>2. QED
    BY <2>1, WithdrawRefines
<1>3. CASE UNCHANGED vars
  BY <1>3, Stutters DEF vars, Waiting, Hand
<1>4. QED
  BY <1>1, <1>2, <1>3, PopRefines, GetRefines, DeleteRefines, PeekRefines, RemoveKeyRefines
     DEF Next, WorkerStep, WorkerFail, ExpireKey, NoDisturbance

(* The separate, interleaved Redis commands of enqueue, dequeue, peek and  *)
(* remove implement a reliable priority queue: every task that is put is   *)
(* taken in order or withdrawn, for any number of handlers, sessions and   *)
(* priorities, as long as nothing fails, expires or is enqueued twice.     *)
THEOREM ImplementsReliableQueue == ASSUME NoDisturbance PROVE Spec => ReliableQueue
<1>1. Init => EntryInv
  BY DEF Init, EntryInv, EntryHasTask, Entered, Busy, IdleCaller, IdleWorker
<1>2. Init => Reliable!Init
  BY DEF Init, Reliable!Init, Waiting, Hand, IdleWorker
<1>3. TypeOK /\ EntryInv /\ [Next]_vars => EntryInv'
  BY EntryStep
<1>4. TypeOK /\ EntryInv /\ EntryInv' /\ [Next]_vars => [Reliable!Next]_(Reliable!vars)
  BY StepRefines
<1>5. QED
  BY <1>1, <1>2, <1>3, <1>4, TypeCorrect, PTL DEF Spec, ReliableQueue, Reliable!Spec
=============================================================================
