-------------------------- MODULE SchedulerProofs --------------------------
(***************************************************************************)
(* Theorems about Scheduler, for every value of its constants.             *)
(***************************************************************************)
EXTENDS Scheduler, FiniteSetTheorems, TLAPS

-----------------------------------------------------------------------------
(* Type correctness *)

LEMMA Frame ==
    ASSUME TypeOK
    PROVE  /\ UNCHANGED dbVars => DbTypes'
           /\ UNCHANGED redisVars => RedisTypes'
           /\ UNCHANGED <<globalActive, agent, inactivating>> => AgentTypes'
           /\ UNCHANGED handler => HandlerTypes'
           /\ UNCHANGED processor => ProcessorTypes'
           /\ UNCHANGED lifeVars => LifeTypes'
           /\ UNCHANGED histVars => HistTypes'
<1> USE DEF TypeOK
<1>1. UNCHANGED dbVars => DbTypes'
  BY DEF DbTypes, dbVars
<1>2. UNCHANGED redisVars => RedisTypes'
  BY DEF RedisTypes, redisVars
<1>3. UNCHANGED <<globalActive, agent, inactivating>> => AgentTypes'
  BY DEF AgentTypes
<1>4. UNCHANGED handler => HandlerTypes'
  BY DEF HandlerTypes
<1>5. UNCHANGED processor => ProcessorTypes'
  BY DEF ProcessorTypes
<1>6. UNCHANGED lifeVars => LifeTypes'
  BY DEF LifeTypes, lifeVars
<1>7. UNCHANGED histVars => HistTypes'
  BY DEF HistTypes, histVars
<1>8. QED
  BY <1>1, <1>2, <1>3, <1>4, <1>5, <1>6, <1>7

LEMMA HandlerMoves ==
    ASSUME HandlerTypes, NEW h \in Handlers, NEW pc \in HandlerPC,
           handler[h].pc # "idle", Goto(h, pc)
    PROVE  HandlerTypes'
BY DEF HandlerTypes, Goto

LEMMA HandlerEnds ==
    ASSUME HandlerTypes, NEW h \in Handlers, Done(h)
    PROVE  HandlerTypes'
BY DEF HandlerTypes, Done, Idle, HandlerPC, Statuses

LEMMA HandlerArrives ==
    ASSUME HandlerTypes, NEW h \in Handlers, NEW s \in Sessions, NEW pc \in HandlerPC,
           NEW loaded \in Statuses, NEW e, Arrive(h, s, e, pc, loaded)
    PROVE  HandlerTypes'
BY DEF HandlerTypes, Arrive, Statuses

\* The session that a request works on.
LEMMA HandlerSession ==
    ASSUME HandlerTypes, NEW h \in Handlers, handler[h].pc # "idle"
    PROVE  Session(h) \in Sessions /\ User(h) \in Users
BY SchedulerAssumption DEF HandlerTypes, Session, User

LEMMA StatusTypes ==
    ASSUME DbTypes, NEW s \in Sessions, NEW new \in Statuses,
           status' = [status EXCEPT ![s] = new] \/ UNCHANGED status,
           UNCHANGED <<established, attempts, terminal, tasksToday>>
    PROVE  DbTypes'
BY DEF DbTypes

LEMMA RequestTypes ==
    ASSUME TypeOK, NEW h \in Handlers, Request(h)
    PROVE  TypeOK'
<1> USE DEF TypeOK
<1>1. ASSUME NEW s \in Sessions, RunTask(h, s) PROVE TypeOK'
  <2>1. DbTypes'
    BY <1>1, StatusTypes DEF RunTask, Statuses
  <2>2. HandlerTypes'
    BY <1>1, HandlerArrives DEF RunTask, HandlerPC, Statuses
  <2>3. HistTypes'
    BY <1>1 DEF RunTask, Arrive, HistTypes
  <2>4. QED
    BY <1>1, <2>1, <2>2, <2>3, Frame DEF RunTask
<1>2. ASSUME NEW s \in Sessions,
             \/ StartTask(h, s) \/ CancelTask(h, s)
             \/ DeleteSession(h, s) \/ ListSessions(h, s)
      PROVE  TypeOK'
  <2>1. HandlerTypes'
    <3>1. status[s] \in Statuses
      BY DEF DbTypes
    <3>2. QED
      BY <1>2, <3>1, HandlerArrives
      DEF StartTask, CancelTask, DeleteSession, ListSessions, HandlerPC
  <2>2. HistTypes'
    BY <1>2 DEF StartTask, CancelTask, DeleteSession, ListSessions, Arrive, HistTypes
  <2>3. QED
    BY <1>2, <2>1, <2>2, Frame DEF StartTask, CancelTask, DeleteSession, ListSessions
<1>3. QED
  BY <1>1, <1>2 DEF Request

LEMMA QuotaTypes ==
    ASSUME TypeOK, NEW h \in Handlers,
           \/ StartTaskAccept(h) \/ CheckGlobal(h) \/ CheckUser(h) \/ CheckDaily(h)
    PROVE  TypeOK'
<1> USE DEF TypeOK
<1>1. CASE StartTaskAccept(h)
  <2>1. HandlerTypes'
    BY <1>1, HandlerMoves, HandlerEnds DEF StartTaskAccept, At, HandlerPC
  <2>2. HistTypes'
    BY <1>1, HandlerSession DEF StartTaskAccept, At, HistTypes
  <2>3. QED
    BY <1>1, <2>1, <2>2, Frame DEF StartTaskAccept
<1>2. CASE CheckGlobal(h)
  BY <1>2, HandlerMoves, Frame DEF CheckGlobal, At, HandlerPC
<1>3. CASE CheckUser(h)
  BY <1>3, HandlerMoves, Frame DEF CheckUser, At, HandlerPC
<1>4. CASE CheckDaily(h)
  BY <1>4, HandlerMoves, Frame DEF CheckDaily, At, HandlerPC
<1>5. QED
  BY <1>1, <1>2, <1>3, <1>4

LEMMA NatTimes == ASSUME NEW i \in Nat, NEW j \in Nat PROVE i * j \in Int
OBVIOUS

LEMMA EntryTypes ==
    ASSUME HistTypes, NEW s \in Sessions, NEW priority \in Nat
    PROVE  Entry(s, priority) \in [session: Sessions, score: Int]
<1>1. clock \in Int
  BY DEF HistTypes
<1>2. PriorityWeight \in Nat
  BY SchedulerAssumption
<1>3. priority * PriorityWeight \in Int
  BY <1>2, NatTimes
<1>4. QED
  BY <1>1, <1>3 DEF Entry

LEMMA SpawnTypes ==
    ASSUME AgentTypes, HistTypes, NEW s \in Sessions, Spawn(s),
           globalActive' \in Nat, UNCHANGED <<inactivating, clock, requests, served>>
    PROVE  AgentTypes' /\ HistTypes'
BY DEF AgentTypes, HistTypes, Spawn, AgentPC, Statuses

LEMMA StartTypes ==
    ASSUME TypeOK, NEW h \in Handlers,
           StartNow(h) \/ MarkUserActive(h) \/ Enqueue(h)
    PROVE  TypeOK'
<1> USE DEF TypeOK
<1>1. CASE StartNow(h)
  <2>1. HandlerTypes'
    BY <1>1, HandlerMoves, HandlerEnds DEF StartNow, At, HandlerPC
  <2>2. AgentTypes' /\ HistTypes'
    <3>1. CASE Session(h) \in RunningTasks
      BY <1>1, <3>1 DEF StartNow, AgentTypes, HistTypes
    <3>2. CASE Session(h) \notin RunningTasks
      <4>1. globalActive' \in Nat
        BY <1>1, <3>2 DEF StartNow, AgentTypes
      <4>2. Session(h) \in Sessions
        BY <1>1, HandlerSession DEF StartNow, At
      <4>3. QED
        BY <1>1, <3>2, <4>1, <4>2, SpawnTypes DEF StartNow
    <3>3. QED
      BY <3>1, <3>2
  <2>3. QED
    BY <1>1, <2>1, <2>2, Frame DEF StartNow
<1>2. CASE MarkUserActive(h)
  <2>1. HandlerTypes'
    BY <1>2, HandlerMoves DEF MarkUserActive, At, HandlerPC
  <2>2. RedisTypes'
    <3>1. Session(h) \in Sessions /\ User(h) \in Users
      BY <1>2, HandlerSession DEF MarkUserActive, At
    <3>2. QED
      BY <1>2, <3>1 DEF MarkUserActive, RedisTypes
  <2>3. QED
    BY <1>2, <2>1, <2>2, Frame DEF MarkUserActive
<1>3. CASE Enqueue(h)
  <2>1. HandlerTypes'
    BY <1>3, HandlerMoves DEF Enqueue, At, HandlerPC
  <2>2. Session(h) \in Sessions /\ User(h) \in Users
    BY <1>3, HandlerSession DEF Enqueue, At
  <2>3. Entry(Session(h), Priority[User(h)]) \in [session: Sessions, score: Int]
    <3>1. Priority[User(h)] \in Nat
      BY <2>2, SchedulerAssumption
    <3>2. QED
      BY <2>2, <3>1, EntryTypes
  <2>4. RedisTypes' /\ HistTypes'
    BY <1>3, <2>3 DEF Enqueue, RedisTypes, HistTypes, Without
  <2>5. QED
    BY <1>3, <2>1, <2>4, Frame DEF Enqueue
<1>4. QED
  BY <1>1, <1>2, <1>3

LEMMA CommitTypes ==
    ASSUME TypeOK, NEW h \in Handlers, NEW pc \in HandlerPC \ {"idle"},
           NEW new \in Statuses, Commit(h, pc, new)
    PROVE  TypeOK'
<1> USE DEF TypeOK
<1>1. Session(h) \in Sessions
  BY HandlerSession DEF Commit, At
<1>2. DbTypes'
  BY <1>1, StatusTypes DEF Commit, Flush
<1>3. HandlerTypes'
  BY HandlerEnds DEF Commit
<1>4. QED
  BY <1>2, <1>3, Frame DEF Commit

\* What a cancellation makes of an agent: it is there and ends, and if it has ended
\* or is about to, it was on its way before.
LEMMA InterruptedIs ==
    ASSUME NEW a \in [pc: AgentPC, final: Statuses]
    PROVE  /\ Interrupted(a) \subseteq [pc: AgentPC, final: Statuses]
           /\ \A b \in Interrupted(a) :
                 /\ b.pc \in {"dead", "cancelling", "committed"}
                 /\ b.final \in {a.final, "cancelled"}
                 /\ b.pc = "committed" => a.pc \in {"finishing", "cancelling", "committed"}
                 /\ a.pc = "cancelling" => b.final = "cancelled"
                 /\ b.pc = "dead" => a.pc \in {"spawned", "dead"}
<1>1. CASE a.pc \in {"spawned", "dead"}
  BY <1>1 DEF Interrupted, AgentPC, Statuses
<1>2. CASE a.pc = "cancelling"
  BY <1>2 DEF Interrupted, AgentPC, Statuses
<1>3. CASE a.pc \in {"finishing", "committed"}
  BY <1>3 DEF Interrupted, AgentPC, Statuses
<1>4. CASE a.pc \notin {"spawned", "dead", "cancelling", "finishing", "committed"}
  BY <1>4 DEF Interrupted, AgentPC, Statuses
<1>5. QED
  BY <1>1, <1>2, <1>3, <1>4

LEMMA InterruptTypes ==
    ASSUME AgentTypes, NEW s \in Sessions, Interrupt(s),
           UNCHANGED <<globalActive, inactivating>>
    PROVE  AgentTypes'
<1>1. Interrupted(agent[s]) \subseteq [pc: AgentPC, final: Statuses]
  BY InterruptedIs DEF AgentTypes
<1>2. PICK a \in Interrupted(agent[s]) : agent' = [agent EXCEPT ![s] = a]
  BY DEF Interrupt
<1>3. QED
  BY <1>1, <1>2 DEF AgentTypes

LEMMA CancelTypes ==
    ASSUME TypeOK, NEW h \in Handlers,
           CancelDecide(h) \/ CancelWait(h) \/ CancelAgain(h)
    PROVE  TypeOK'
<1> USE DEF TypeOK
<1>1. Session(h) \in Sessions
  BY HandlerSession DEF CancelDecide, CancelWait, CancelAgain, At
<1>2. CASE CancelDecide(h)
  <2>1. HandlerTypes'
    BY <1>2, HandlerMoves, HandlerEnds DEF CancelDecide, At, HandlerPC
  <2>2. AgentTypes'
    BY <1>1, <1>2, InterruptTypes DEF CancelDecide, AgentTypes
  <2>3. HistTypes'
    BY <1>2 DEF CancelDecide, Interrupt, Cancelling, HistTypes
  <2>4. QED
    BY <1>2, <2>1, <2>2, <2>3, Frame DEF CancelDecide
<1>3. CASE CancelWait(h)
  BY <1>3, HandlerMoves, Frame DEF CancelWait, At, HandlerPC
<1>4. CASE CancelAgain(h)
  <2>1. HandlerTypes'
    BY <1>4, HandlerMoves DEF CancelAgain, At, HandlerPC
  <2>2. AgentTypes'
    BY <1>1, <1>4, InterruptTypes DEF CancelAgain
  <2>3. HistTypes'
    BY <1>4 DEF CancelAgain, Interrupt, Cancelling, HistTypes
  <2>4. QED
    BY <1>4, <2>1, <2>2, <2>3, Frame DEF CancelAgain
<1>5. QED
  BY <1>2, <1>3, <1>4

LEMMA RepairTypes ==
    ASSUME TypeOK, NEW h \in Handlers, CommitDeleted(h) \/ ListTerminal(h)
    PROVE  TypeOK'
<1> USE DEF TypeOK
<1>1. Session(h) \in Sessions
  BY HandlerSession DEF CommitDeleted, ListTerminal, At
<1>2. CASE CommitDeleted(h)
  <2>1. DbTypes'
    BY <1>1, <1>2 DEF CommitDeleted, DbTypes, Statuses
  <2>2. QED
    BY <1>2, <2>1, HandlerEnds, Frame DEF CommitDeleted
<1>3. CASE ListTerminal(h)
  <2>1. terminal[Session(h)] \in Statuses
    BY <1>1 DEF DbTypes
  <2>2. handler[h].pc # "idle"
    BY <1>3 DEF ListTerminal, At
  <2>3. HandlerTypes'
    BY <1>3, <2>1, <2>2, HandlerEnds DEF ListTerminal, HandlerTypes, HandlerPC
  <2>4. QED
    BY <1>3, <2>3, Frame DEF ListTerminal
<1>4. QED
  BY <1>2, <1>3

LEMMA FaultTypes ==
    ASSUME TypeOK, NEW h \in Handlers, HandlerRedisFault(h)
    PROVE  TypeOK'
<1>1. HandlerTypes'
  BY HandlerMoves, HandlerEnds DEF TypeOK, HandlerRedisFault, At, HandlerPC
<1>2. QED
  BY <1>1, Frame DEF TypeOK, HandlerRedisFault

LEMMA ServeTypes ==
    ASSUME TypeOK, NEW h \in Handlers, Serve(h)
    PROVE  TypeOK'
<1>1. CASE CommitRunning(h) \/ CommitQueued(h) \/ CommitFailed(h) \/ CommitCancelled(h)
  BY <1>1, CommitTypes
  DEF CommitRunning, CommitQueued, CommitFailed, CommitCancelled, HandlerPC, Statuses
<1>2. CASE CommitRepair(h)
  <2>1. handler[h].verdict \in Statuses
    BY DEF TypeOK, HandlerTypes
  <2>2. QED
    BY <1>2, <2>1, CommitTypes DEF CommitRepair, HandlerPC
<1>3. QED
  BY <1>1, <1>2, QuotaTypes, StartTypes, CancelTypes, RepairTypes DEF Serve

LEMMA DecrementTypes == ASSUME globalActive \in Nat, Decrement PROVE globalActive' \in Nat
BY DEF Decrement

LEMMA MoveTypes ==
    ASSUME AgentTypes, NEW s \in Sessions, NEW pc \in AgentPC, NEW final \in Statuses,
           Move(s, pc, final), UNCHANGED <<globalActive, inactivating>>
    PROVE  AgentTypes'
BY DEF AgentTypes, Move

LEMMA AgentStepTypes ==
    ASSUME TypeOK, NEW s \in Sessions,
           AgentStep(s) \/ AgentEstablish(s) \/ MarkUserInactive(s)
    PROVE  TypeOK'
<1> USE DEF TypeOK
<1>1. CASE AgentEnter(s)
  BY <1>1, MoveTypes, Frame DEF AgentEnter, AgentPC, Statuses
<1>2. CASE AgentEstablish(s)
  <2>1. DbTypes'
    BY <1>2 DEF AgentEstablish, DbTypes
  <2>2. QED
    BY <1>2, <2>1, Frame DEF AgentEstablish
<1>3. ASSUME NEW outcome \in Statuses, NEW final \in Statuses,
             AgentFinish(s, outcome, final)
      PROVE  TypeOK'
  <2>1. DbTypes'
    BY <1>3 DEF AgentFinish, DbTypes
  <2>2. AgentTypes'
    BY <1>3, MoveTypes DEF AgentFinish, AgentPC
  <2>3. QED
    BY <1>3, <2>1, <2>2, Frame DEF AgentFinish
<1>4. CASE AgentCommit(s)
  <2>1. agent[s].final \in Statuses
    BY DEF AgentTypes
  <2>2. DbTypes'
    BY <1>4, <2>1, StatusTypes DEF AgentCommit
  <2>3. AgentTypes'
    BY <1>4, <2>1, MoveTypes DEF AgentCommit, AgentPC
  <2>4. QED
    BY <1>4, <2>2, <2>3, Frame DEF AgentCommit
<1>5. CASE AgentCancelled(s)
  <2>1. DbTypes'
    BY <1>5 DEF AgentCancelled, DbTypes, Statuses
  <2>2. AgentTypes'
    BY <1>5, MoveTypes DEF AgentCancelled, AgentPC, Statuses
  <2>3. QED
    BY <1>5, <2>1, <2>2, Frame DEF AgentCancelled
<1>6. CASE AgentCleanup(s)
  <2>1. AgentTypes'
    BY <1>6, DecrementTypes DEF AgentCleanup, AgentTypes, NoAgent, AgentPC, Statuses
  <2>2. QED
    BY <1>6, <2>1, Frame DEF AgentCleanup
<1>7. CASE MarkUserInactive(s)
  <2>1. AgentTypes'
    BY <1>7 DEF MarkUserInactive, AgentTypes
  <2>2. RedisTypes'
    BY <1>7 DEF MarkUserInactive, RedisTypes
  <2>3. QED
    BY <1>7, <2>1, <2>2, Frame DEF MarkUserInactive
<1>8. QED
  BY <1>1, <1>2, <1>3, <1>4, <1>5, <1>6, <1>7 DEF AgentStep

LEMMA ProcessorMoves ==
    ASSUME ProcessorTypes, NEW pc \in ProcessorPC, processor.pc \notin {"idle", "timeout"},
           ProcessorGoto(pc)
    PROVE  ProcessorTypes'
BY DEF ProcessorTypes, ProcessorGoto

LEMMA ProcessorEnds ==
    ASSUME processor' = IdleProcessor
    PROVE  ProcessorTypes'
BY DEF ProcessorTypes, IdleProcessor, ProcessorPC, Statuses

LEMMA ProcessorSession ==
    ASSUME ProcessorTypes, processor.pc \notin {"idle", "timeout"}
    PROVE  processor.session \in Sessions /\ ProcessorUser \in Users
BY SchedulerAssumption DEF ProcessorTypes, ProcessorUser

LEMMA PickTypes ==
    ASSUME TypeOK, Peek \/ ProcessorQuota \/ Dequeue \/ LoadSession
    PROVE  TypeOK'
<1> USE DEF TypeOK
<1>1. \A e \in Minimal : e.session \in Sessions
  BY DEF RedisTypes, Minimal
<1>2. CASE Peek
  <2>1. ProcessorTypes'
    BY <1>1, <1>2 DEF Peek, ProcessorTypes, IdleProcessor, ProcessorPC, Statuses
  <2>2. QED
    BY <1>2, <2>1, Frame DEF Peek
<1>3. CASE ProcessorQuota
  <2>1. ProcessorTypes'
    BY <1>3, ProcessorMoves, ProcessorEnds DEF ProcessorQuota, ProcessorAt, ProcessorPC
  <2>2. QED
    BY <1>3, <2>1, Frame DEF ProcessorQuota
<1>4. CASE Dequeue
  <2>1. ProcessorTypes'
    <3>1. CASE processor' = IdleProcessor
      BY <3>1, ProcessorEnds
    <3>2. CASE \E e \in Minimal :
                 processor' = [processor EXCEPT !.pc = "load", !.session = e.session]
      BY <1>1, <3>2 DEF ProcessorTypes, ProcessorPC
    <3>3. QED
      BY <1>4, <3>1, <3>2 DEF Dequeue
  <2>2. RedisTypes'
    BY <1>4 DEF Dequeue, RedisTypes
  <2>3. QED
    BY <1>4, <2>1, <2>2, Frame DEF Dequeue
<1>5. CASE LoadSession
  <2>1. processor.session \in Sessions /\ status[processor.session] \in Statuses
    BY <1>5, ProcessorSession DEF LoadSession, ProcessorAt, DbTypes
  <2>2. ProcessorTypes'
    <3>1. CASE processor' = IdleProcessor
      BY <3>1, ProcessorEnds
    <3>2. CASE processor' = [processor EXCEPT !.pc = "commit",
                                              !.loaded = status[processor.session]]
      BY <2>1, <3>2 DEF ProcessorTypes, ProcessorPC
    <3>3. QED
      BY <1>5, <3>1, <3>2 DEF LoadSession
  <2>3. QED
    BY <1>5, <2>2, Frame DEF LoadSession
<1>6. QED
  BY <1>2, <1>3, <1>4, <1>5

LEMMA LaunchTypes ==
    ASSUME TypeOK,
           \/ StartQueued \/ IncrementGlobal \/ ProcessorMarkActive
           \/ IncrementDaily \/ ProcessorSpawn \/ Undo
    PROVE  TypeOK'
<1> USE DEF TypeOK
<1>1. processor.session \in Sessions /\ ProcessorUser \in Users
  BY ProcessorSession
  DEF StartQueued, IncrementGlobal, ProcessorMarkActive, IncrementDaily, ProcessorSpawn,
      Undo, ProcessorAt
<1>2. CASE StartQueued
  <2>1. DbTypes'
    BY <1>1, <1>2, StatusTypes DEF StartQueued, Flush, Statuses
  <2>2. ProcessorTypes'
    BY <1>2, ProcessorMoves DEF StartQueued, ProcessorAt, ProcessorPC
  <2>3. QED
    BY <1>2, <2>1, <2>2, Frame DEF StartQueued
<1>3. CASE IncrementGlobal
  <2>1. AgentTypes'
    BY <1>3 DEF IncrementGlobal, AgentTypes
  <2>2. ProcessorTypes'
    BY <1>3, ProcessorMoves DEF IncrementGlobal, ProcessorAt, ProcessorPC
  <2>3. QED
    BY <1>3, <2>1, <2>2, Frame DEF IncrementGlobal
<1>4. CASE ProcessorMarkActive
  <2>1. RedisTypes'
    BY <1>1, <1>4 DEF ProcessorMarkActive, RedisTypes
  <2>2. ProcessorTypes'
    BY <1>4, ProcessorMoves DEF ProcessorMarkActive, ProcessorAt, ProcessorPC
  <2>3. QED
    BY <1>4, <2>1, <2>2, Frame DEF ProcessorMarkActive
<1>5. CASE IncrementDaily
  <2>1. DbTypes'
    BY <1>1, <1>5 DEF IncrementDaily, DbTypes
  <2>2. ProcessorTypes'
    BY <1>5, ProcessorMoves DEF IncrementDaily, ProcessorAt, ProcessorPC
  <2>3. QED
    BY <1>5, <2>1, <2>2, Frame DEF IncrementDaily
<1>6. CASE ProcessorSpawn
  <2>1. ProcessorTypes'
    BY <1>6, ProcessorMoves, ProcessorEnds DEF ProcessorSpawn, ProcessorAt, ProcessorPC
  <2>2. AgentTypes' /\ HistTypes'
    <3>1. CASE processor.session \in RunningTasks
      BY <1>6, <3>1 DEF ProcessorSpawn, AgentTypes, HistTypes
    <3>2. CASE processor.session \notin RunningTasks
      <4>1. globalActive' \in Nat
        BY <1>6 DEF ProcessorSpawn, AgentTypes
      <4>2. QED
        BY <1>1, <1>6, <3>2, <4>1, SpawnTypes DEF ProcessorSpawn
    <3>3. QED
      BY <3>1, <3>2
  <2>3. QED
    BY <1>6, <2>1, <2>2, Frame DEF ProcessorSpawn
<1>7. CASE Undo
  <2>1. ProcessorTypes'
    BY <1>7, ProcessorMoves, ProcessorEnds DEF Undo, ProcessorAt, ProcessorPC
  <2>2. DbTypes'
    BY <1>1, <1>7, StatusTypes DEF Undo, Flush, Statuses
  <2>3. RedisTypes'
    BY <1>1, <1>7 DEF Undo, RedisTypes
  <2>4. AgentTypes'
    BY <1>7, DecrementTypes DEF Undo, AgentTypes
  <2>5. QED
    BY <1>7, <2>1, <2>2, <2>3, <2>4, Frame DEF Undo
<1>8. QED
  BY <1>2, <1>3, <1>4, <1>5, <1>6, <1>7

LEMMA TimeoutTypes ==
    ASSUME TypeOK,
           \/ \E late \in SUBSET Sessions : TimeoutScan(late)
           \/ \E s \in Sessions : TimeoutRemove(s)
           \/ TimeoutCommit
           \/ ProcessorRedisFault
    PROVE  TypeOK'
<1> USE DEF TypeOK
<1>1. ASSUME NEW late \in SUBSET Sessions, TimeoutScan(late) PROVE TypeOK'
  <2>1. ProcessorTypes'
    BY <1>1 DEF TimeoutScan, ProcessorTypes, IdleProcessor, ProcessorPC, Statuses
  <2>2. QED
    BY <1>1, <2>1, Frame DEF TimeoutScan
<1>2. ASSUME NEW s \in Sessions, TimeoutRemove(s) PROVE TypeOK'
  <2>1. ProcessorTypes'
    BY <1>2 DEF TimeoutRemove, ProcessorAt, ProcessorTypes
  <2>2. RedisTypes'
    BY <1>2 DEF TimeoutRemove, RedisTypes, Without
  <2>3. DbTypes'
    BY <1>2 DEF TimeoutRemove, DbTypes, Statuses
  <2>4. QED
    BY <1>2, <2>1, <2>2, <2>3, Frame DEF TimeoutRemove
<1>3. CASE TimeoutCommit
  <2>1. DbTypes'
    BY <1>3 DEF TimeoutCommit, DbTypes, Statuses
  <2>2. QED
    BY <1>3, <2>1, ProcessorEnds, Frame DEF TimeoutCommit
<1>4. CASE ProcessorRedisFault
  <2>1. ProcessorTypes'
    BY <1>4, ProcessorMoves, ProcessorEnds DEF ProcessorRedisFault, ProcessorAt, ProcessorPC
  <2>2. QED
    BY <1>4, <2>1, Frame DEF ProcessorRedisFault
<1>5. QED
  BY <1>1, <1>2, <1>3, <1>4

LEMMA NoRecoveryType == NoRecovery \in [todo: SUBSET Sessions, staged: [Sessions -> Statuses]]
BY DEF NoRecovery, Statuses

LEMMA EndTypes ==
    ASSUME TypeOK, Crash \/ Exit
    PROVE  TypeOK'
<1> USE DEF TypeOK
<1>1. EndProcess /\ crashes' \in Nat
  BY DEF Crash, Exit, LifeTypes
<1>2. AgentTypes'
  BY <1>1 DEF EndProcess, AgentTypes, NoAgent, AgentPC, Statuses
<1>3. HandlerTypes'
  BY <1>1 DEF EndProcess, HandlerTypes, Idle, HandlerPC, Statuses
<1>4. ProcessorTypes'
  BY <1>1, ProcessorEnds DEF EndProcess
<1>5. LifeTypes'
  <2>1. PICK todo \in SUBSET Sessions : recovery' = [NoRecovery EXCEPT !.todo = todo]
    BY <1>1 DEF EndProcess
  <2>2. recovery' \in [todo: SUBSET Sessions, staged: [Sessions -> Statuses]]
    BY <2>1, NoRecoveryType
  <2>3. server' = "recovering" /\ queueOn' = FALSE
    BY <1>1 DEF EndProcess
  <2>4. QED
    BY <1>1, <2>2, <2>3 DEF LifeTypes
<1>6. QED
  BY <1>1, <1>2, <1>3, <1>4, <1>5, Frame DEF EndProcess

LEMMA ShutdownTypes ==
    ASSUME TypeOK, StopProcessor \/ CancelAgents
    PROVE  TypeOK'
<1> USE DEF TypeOK
<1>1. CASE StopProcessor
  <2>1. ProcessorTypes'
    BY <1>1, ProcessorEnds DEF StopProcessor
  <2>2. LifeTypes'
    <3>1. server' = "stopping" /\ queueOn' = FALSE /\ UNCHANGED recovery
      BY <1>1 DEF StopProcessor
    <3>2. crashes' \in Nat
      BY <1>1 DEF StopProcessor, LifeTypes
    <3>3. QED
      BY <3>1, <3>2 DEF LifeTypes
  <2>3. QED
    BY <1>1, <2>1, <2>2, Frame DEF StopProcessor
<1>2. CASE CancelAgents
  <2>1. \A s \in Sessions : Interrupted(agent[s]) \subseteq [pc: AgentPC, final: Statuses]
    BY InterruptedIs DEF AgentTypes
  <2>2. AgentTypes'
    BY <1>2, <2>1 DEF CancelAgents, Interruptions, AgentTypes
  <2>3. LifeTypes'
    BY <1>2 DEF CancelAgents, LifeTypes
  <2>4. HistTypes'
    BY <1>2 DEF CancelAgents, Cancelling, HistTypes
  <2>5. QED
    BY <1>2, <2>2, <2>3, <2>4, Frame DEF CancelAgents
<1>3. QED
  BY <1>1, <1>2

LEMMA RecoveryTypes ==
    ASSUME TypeOK, RecoverStep \/ RecoverAbort
    PROVE  TypeOK'
<1> USE DEF TypeOK
<1>1. NoRecovery \in [todo: SUBSET Sessions, staged: [Sessions -> Statuses]]
  BY NoRecoveryType
<1>3. ASSUME NEW s \in Sessions, RecoverSession(s) PROVE TypeOK'
  <2>1. LifeTypes'
    BY <1>3 DEF RecoverSession, LifeTypes, Statuses
  <2>2. RedisTypes' /\ HistTypes'
    <3>1. CASE GiveUp(s)
      BY <1>3, <3>1 DEF RecoverSession, RedisTypes, HistTypes
    <3>2. CASE ~GiveUp(s)
      <4>1. Entry(s, IF status[s] = "running" THEN PriorityAutoResume
                     ELSE PriorityQueuedRecovery) \in [session: Sessions, score: Int]
        BY EntryTypes DEF PriorityAutoResume, PriorityQueuedRecovery
      <4>2. QED
        BY <1>3, <3>2, <4>1 DEF RecoverSession, RedisTypes, HistTypes, Without
    <3>3. QED
      BY <3>1, <3>2
  <2>3. QED
    BY <1>3, <2>1, <2>2, Frame DEF RecoverSession
<1>4. CASE RecoverCommit
  <2>1. DbTypes'
    BY <1>4 DEF RecoverCommit, DbTypes, LifeTypes
  <2>2. LifeTypes'
    BY <1>1, <1>4 DEF RecoverCommit, LifeTypes
  <2>3. QED
    BY <1>4, <2>1, <2>2, Frame DEF RecoverCommit
<1>5. CASE RecoverAbort
  <2>1. LifeTypes'
    BY <1>1, <1>5 DEF RecoverAbort, LifeTypes
  <2>2. QED
    BY <1>5, <2>1, Frame DEF RecoverAbort
<1>6. QED
  BY <1>3, <1>4, <1>5 DEF RecoverStep

\* Every variable stays in its domain; in particular, whoever is inside an
\* operation of api/routes/sessions.py or queue_processor.py holds a session,
\* and the max(0, ...) keeps the global counter from going negative.
THEOREM TypeCorrect == Spec => []TypeOK
<1>1. Init => TypeOK
  BY SchedulerAssumption
  DEF Init, TypeOK, DbTypes, RedisTypes, AgentTypes, HandlerTypes, ProcessorTypes,
      LifeTypes, HistTypes, Statuses, AgentPC, HandlerPC, ProcessorPC, NoAgent, Idle,
      IdleProcessor, NoRecovery
<1>2. TypeOK /\ [Next]_vars => TypeOK'
  <2> SUFFICES ASSUME TypeOK, [Next]_vars PROVE TypeOK'
    OBVIOUS
  <2>1. CASE UNCHANGED vars
    BY <2>1, Frame DEF vars, TypeOK
  <2>2. CASE Next
    BY <2>2, RequestTypes, ServeTypes, CancelTypes, FaultTypes, AgentStepTypes, PickTypes,
       LaunchTypes, TimeoutTypes, EndTypes, ShutdownTypes, RecoveryTypes
    DEF Next, ProcessorStep
  <2>3. QED
    BY <2>1, <2>2
<1>3. QED
  BY <1>1, <1>2, PTL DEF Spec

-----------------------------------------------------------------------------
(* The life of a session row *)

Gone == {"none", "deleted"}

\* Only run_task creates a row and only delete_session removes one: whatever
\* is still to be written to a status is the status of a session that exists.
AgentsWriteStatuses ==
    \A s \in Sessions :
        /\ agent[s].pc \in {"finishing", "committed"} => agent[s].final \notin Gone
        /\ terminal[s] # "deleted"
HandlersWriteStatuses ==
    \A h \in Handlers : handler[h].pc = "commit_repair" => handler[h].verdict \notin Gone
RecoveryWritesStatuses ==
    \A s \in Sessions : recovery.staged[s] \in {"none", "failed", "queued"}

\* Without delete_session, the row that the processor loaded is still there
\* when it commits.
RowIsKept ==
    "delete" \notin Endpoints =>
        /\ \A h \in Handlers : handler[h].pc # "commit_deleted"
        /\ processor.pc = "commit" => Exists(processor.session)

\* While the lifespan recovers sessions nothing else runs, and the queue is used
\* only between its beginning and its end.
RecoveryIsAlone ==
    /\ server # "up" => ~queueOn
    /\ server = "recovering" =>
          /\ globalActive = 0
          /\ \A s \in Sessions : agent[s] = NoAgent
          /\ \A h \in Handlers : handler[h] = Idle
          /\ processor = IdleProcessor

RowInv == AgentsWriteStatuses /\ HandlersWriteStatuses /\ RecoveryWritesStatuses
            /\ RowIsKept /\ RecoveryIsAlone

LEMMA RowFrame ==
    ASSUME RowInv
    PROVE  /\ UNCHANGED <<agent, terminal>> => AgentsWriteStatuses'
           /\ UNCHANGED handler => HandlersWriteStatuses'
           /\ UNCHANGED recovery => RecoveryWritesStatuses'
           /\ UNCHANGED <<handler, processor, status>> => RowIsKept'
           /\ server' = "up" => RecoveryIsAlone'
           /\ server # "recovering" /\ UNCHANGED <<server, queueOn>> => RecoveryIsAlone'
<1> USE DEF RowInv
<1>1. UNCHANGED <<agent, terminal>> => AgentsWriteStatuses'
  BY DEF AgentsWriteStatuses
<1>2. UNCHANGED handler => HandlersWriteStatuses'
  BY DEF HandlersWriteStatuses
<1>3. UNCHANGED recovery => RecoveryWritesStatuses'
  BY DEF RecoveryWritesStatuses
<1>4. UNCHANGED <<handler, processor, status>> => RowIsKept'
  BY DEF RowIsKept, Exists
<1>5. /\ server' = "up" => RecoveryIsAlone'
      /\ server # "recovering" /\ UNCHANGED <<server, queueOn>> => RecoveryIsAlone'
  BY DEF RecoveryIsAlone
<1>6. QED
  BY <1>1, <1>2, <1>3, <1>4, <1>5

\* A handler that moves to another step keeps its part of the invariant.
LEMMA RowMoves ==
    ASSUME TypeOK, RowInv, NEW h \in Handlers,
           NEW pc \in HandlerPC \ {"commit_repair", "commit_deleted"},
           Goto(h, pc) \/ Done(h),
           UNCHANGED <<status, processor>>
    PROVE  HandlersWriteStatuses' /\ RowIsKept'
BY DEF TypeOK, HandlerTypes, RowInv, Goto, Done, Idle, HandlersWriteStatuses, RowIsKept,
       Exists

\* A status that is written keeps the rows that exist.
LEMMA RowWrites ==
    ASSUME DbTypes, RowIsKept, NEW s \in Sessions, NEW new \in Statuses \ Gone,
           UNCHANGED status \/ status' = [status EXCEPT ![s] = new]
    PROVE  \A r \in Sessions : Exists(r) => Exists(r)'
BY DEF DbTypes, Exists, Gone

LEMMA RowRequest ==
    ASSUME TypeOK, RowInv, NEW h \in Handlers, Request(h)
    PROVE  RowInv'
<1> USE DEF RowInv
<1>1. ASSUME NEW s \in Sessions,
             \/ RunTask(h, s) \/ StartTask(h, s) \/ CancelTask(h, s)
             \/ DeleteSession(h, s) \/ ListSessions(h, s)
      PROVE  RowInv'
  <2>1. HandlersWriteStatuses'
    BY <1>1 DEF RunTask, StartTask, CancelTask, DeleteSession, ListSessions, Arrive,
                HandlersWriteStatuses, TypeOK, HandlerTypes
  <2>2. \A r \in Sessions : Exists(r) => Exists(r)'
    BY <1>1 DEF RunTask, StartTask, CancelTask, DeleteSession, ListSessions, TypeOK,
                DbTypes, Exists, dbVars
  <2>3. RowIsKept'
    <3>1. \A r \in Handlers :
             handler'[r].pc = "commit_deleted" =>
                 handler[r].pc = "commit_deleted" \/ "delete" \in Endpoints
      BY <1>1 DEF RunTask, StartTask, CancelTask, DeleteSession, ListSessions, Arrive,
                  TypeOK, HandlerTypes
    <3>2. UNCHANGED processor
      BY <1>1 DEF RunTask, StartTask, CancelTask, DeleteSession, ListSessions
    <3>3. processor.pc = "commit" => processor.session \in Sessions
      BY DEF TypeOK, ProcessorTypes
    <3>4. QED
      BY <2>2, <3>1, <3>2, <3>3 DEF RowIsKept
  <2>4. server = "up" /\ UNCHANGED <<agent, terminal, recovery, server>>
    BY <1>1 DEF RunTask, StartTask, CancelTask, DeleteSession, ListSessions, Arrive, At,
                dbVars, lifeVars
  <2>5. QED
    BY <2>1, <2>3, <2>4, RowFrame
<1>2. QED
  BY <1>1 DEF Request

LEMMA RowCommit ==
    ASSUME TypeOK, RowInv, NEW h \in Handlers, NEW pc \in HandlerPC \ {"idle"},
           NEW new \in Statuses \ Gone, Commit(h, pc, new)
    PROVE  RowInv'
<1> USE DEF RowInv
<1>1. Session(h) \in Sessions
  BY HandlerSession DEF TypeOK, Commit, At
<1>2. \A r \in Sessions : Exists(r) => Exists(r)'
  BY <1>1, RowWrites DEF TypeOK, Commit, Flush
<1>3. HandlersWriteStatuses' /\ RowIsKept'
  <2>1. HandlersWriteStatuses'
    BY DEF TypeOK, HandlerTypes, Commit, Done, Idle, HandlersWriteStatuses
  <2>2. \A r \in Handlers :
           handler'[r].pc = "commit_deleted" => handler[r].pc = "commit_deleted"
    BY DEF TypeOK, HandlerTypes, Commit, Done, Idle
  <2>3. processor.pc = "commit" => processor.session \in Sessions
    BY DEF TypeOK, ProcessorTypes
  <2>4. QED
    BY <1>2, <2>1, <2>2, <2>3 DEF RowIsKept, Commit
<1>4. server' = "up" /\ UNCHANGED <<agent, terminal, recovery>>
  BY DEF Commit, At, lifeVars
<1>5. QED
  BY <1>3, <1>4, RowFrame

LEMMA RowServe ==
    ASSUME TypeOK, RowInv, NEW h \in Handlers,
           Serve(h) \/ CancelAgain(h) \/ HandlerRedisFault(h)
    PROVE  RowInv'
<1> USE DEF RowInv
<1> DEFINE Quota == \/ StartTaskAccept(h) \/ CheckGlobal(h) \/ CheckUser(h)
                    \/ CheckDaily(h) \/ MarkUserActive(h) \/ Enqueue(h)
                    \/ CancelWait(h) \/ HandlerRedisFault(h)
<1>1. CASE Quota
  <2>1. /\ server' = "up" /\ UNCHANGED <<agent, terminal, recovery, status, processor>>
    BY <1>1 DEF StartTaskAccept, CheckGlobal, CheckUser, CheckDaily, MarkUserActive, Enqueue,
                CancelWait, HandlerRedisFault, At, dbVars, lifeVars
  <2>2. \E pc \in HandlerPC \ {"commit_repair", "commit_deleted"} : Goto(h, pc) \/ Done(h)
    BY <1>1 DEF StartTaskAccept, CheckGlobal, CheckUser, CheckDaily, MarkUserActive, Enqueue,
                CancelWait, HandlerRedisFault, HandlerPC
  <2>3. HandlersWriteStatuses' /\ RowIsKept'
    BY <2>1, <2>2, RowMoves
  <2>4. QED
    BY <2>1, <2>3, RowFrame
<1>2. CASE StartNow(h)
  <2>1. server' = "up" /\ UNCHANGED <<terminal, recovery, status, processor>>
    BY <1>2 DEF StartNow, At, dbVars, lifeVars
  <2>2. \E pc \in HandlerPC \ {"commit_repair", "commit_deleted"} : Goto(h, pc) \/ Done(h)
    BY <1>2 DEF StartNow, HandlerPC
  <2>3. AgentsWriteStatuses'
    BY <1>2 DEF StartNow, Spawn, AgentsWriteStatuses, TypeOK, AgentTypes, dbVars
  <2>4. HandlersWriteStatuses' /\ RowIsKept'
    BY <2>1, <2>2, RowMoves
  <2>5. QED
    BY <2>1, <2>3, <2>4, RowFrame
<1>3. CASE CancelDecide(h) \/ CancelAgain(h)
  <2>1. server' = "up" /\ UNCHANGED <<terminal, recovery, status, processor>>
    BY <1>3 DEF CancelDecide, CancelAgain, At, dbVars, lifeVars
  <2>2. \E pc \in HandlerPC \ {"commit_repair", "commit_deleted"} : Goto(h, pc) \/ Done(h)
    BY <1>3 DEF CancelDecide, CancelAgain, HandlerPC
  <2>3. AgentsWriteStatuses'
    BY <1>3 DEF CancelDecide, CancelAgain, Interrupt, Interrupted, AgentsWriteStatuses,
                TypeOK, AgentTypes, dbVars, Gone
  <2>4. HandlersWriteStatuses' /\ RowIsKept'
    BY <2>1, <2>2, RowMoves
  <2>5. QED
    BY <2>1, <2>3, <2>4, RowFrame
<1>4. CASE CommitRunning(h) \/ CommitQueued(h) \/ CommitFailed(h) \/ CommitCancelled(h)
  BY <1>4, RowCommit DEF CommitRunning, CommitQueued, CommitFailed, CommitCancelled,
                         HandlerPC, Statuses, Gone
<1>5. CASE CommitRepair(h)
  <2>1. handler[h].verdict \in Statuses \ Gone
    BY <1>5 DEF TypeOK, HandlerTypes, HandlersWriteStatuses, CommitRepair, Commit, At
  <2>2. QED
    BY <1>5, <2>1, RowCommit DEF CommitRepair, HandlerPC
<1>6. CASE CommitDeleted(h)
  <2>1. server' = "up" /\ UNCHANGED <<agent, recovery, processor>>
    BY <1>6 DEF CommitDeleted, At, lifeVars
  <2>2. AgentsWriteStatuses'
    BY <1>6 DEF CommitDeleted, AgentsWriteStatuses, TypeOK, DbTypes
  <2>3. HandlersWriteStatuses'
    BY <1>6 DEF CommitDeleted, Done, Idle, HandlersWriteStatuses, TypeOK, HandlerTypes
  <2>4. RowIsKept'
    BY <1>6 DEF CommitDeleted, At, RowIsKept
  <2>5. QED
    BY <2>1, <2>2, <2>3, <2>4, RowFrame
<1>7. CASE ListTerminal(h)
  <2>1. server' = "up" /\ UNCHANGED <<agent, terminal, recovery, status, processor>>
    BY <1>7 DEF ListTerminal, At, dbVars, lifeVars
  <2>2. terminal[Session(h)] # "deleted"
    BY <1>7, HandlerSession DEF ListTerminal, At, TypeOK, AgentsWriteStatuses
  <2>3. HandlersWriteStatuses'
    BY <1>7, <2>2 DEF ListTerminal, Done, Idle, HandlersWriteStatuses, TypeOK, HandlerTypes,
                      Gone
  <2>4. RowIsKept'
    BY <1>7, <2>1 DEF ListTerminal, Done, Idle, RowIsKept, TypeOK, HandlerTypes, Exists
  <2>5. QED
    BY <2>1, <2>3, <2>4, RowFrame
<1>8. QED
  BY <1>1, <1>2, <1>3, <1>4, <1>5, <1>6, <1>7 DEF Serve

LEMMA RowAgent ==
    ASSUME TypeOK, RowInv, NEW s \in Sessions,
           AgentStep(s) \/ AgentEstablish(s) \/ MarkUserInactive(s)
    PROVE  RowInv'
<1> USE DEF RowInv
<1>1. server # "recovering" /\ UNCHANGED <<handler, recovery, processor, server, queueOn>>
  BY DEF AgentStep, AgentEnter, AgentFinish, AgentCommit, AgentCancelled, AgentCleanup,
         AgentEstablish, MarkUserInactive, Alive, lifeVars
<1>2. AgentsWriteStatuses'
  <2>1. CASE AgentEnter(s)
    BY <2>1 DEF AgentEnter, Move, AgentsWriteStatuses, TypeOK, AgentTypes, dbVars
  <2>2. ASSUME NEW outcome \in Statuses, NEW final \in Statuses,
               AgentFinish(s, outcome, final)
        PROVE  AgentsWriteStatuses'
    <3>1. outcome \in {"complete", "failed"}
      BY <2>2, SchedulerAssumption DEF AgentFinish
    <3>2. final \notin Gone
      BY <2>2, <3>1 DEF AgentFinish, Gone
    <3>3. QED
      BY <2>2, <3>1, <3>2
      DEF AgentFinish, Move, AgentsWriteStatuses, TypeOK, AgentTypes, DbTypes
  <2>3. CASE AgentCommit(s) \/ AgentCancelled(s) \/ AgentCleanup(s)
    BY <2>3 DEF AgentCommit, AgentCancelled, AgentCleanup, NoAgent, Move, Alive, dbVars,
                AgentsWriteStatuses, TypeOK, AgentTypes, DbTypes, Gone
  <2>4. CASE AgentEstablish(s) \/ MarkUserInactive(s)
    BY <2>4, RowFrame DEF AgentEstablish, MarkUserInactive, dbVars
  <2>5. QED
    BY <2>1, <2>2, <2>3, <2>4 DEF AgentStep
<1>3. \A r \in Sessions : Exists(r) => Exists(r)'
  <2>1. CASE AgentCommit(s)
    <3>1. agent[s].final \in Statuses \ Gone
      BY <2>1 DEF AgentCommit, Alive, AgentsWriteStatuses, TypeOK, AgentTypes
    <3>2. QED
      BY <2>1, <3>1, RowWrites DEF AgentCommit, TypeOK
  <2>2. CASE AgentCancelled(s)
    BY <2>2, RowWrites DEF AgentCancelled, TypeOK, Statuses, Gone
  <2>3. CASE UNCHANGED status
    BY <2>3 DEF Exists
  <2>4. QED
    BY <2>1, <2>2, <2>3 DEF AgentStep, AgentEnter, AgentFinish, AgentCleanup,
                            AgentEstablish, MarkUserInactive, dbVars
<1>4. RowIsKept'
  <2>1. processor.pc = "commit" => processor.session \in Sessions
    BY DEF TypeOK, ProcessorTypes
  <2>2. QED
    BY <1>1, <1>3, <2>1 DEF RowIsKept
<1>5. QED
  BY <1>1, <1>2, <1>4, RowFrame

LEMMA RowProcessor ==
    ASSUME TypeOK, RowInv,
           \/ ProcessorStep \/ ProcessorRedisFault
           \/ \E late \in SUBSET Sessions : TimeoutScan(late)
    PROVE  RowInv'
<1> USE DEF RowInv
<1>1. server' = "up" /\ UNCHANGED <<handler, recovery>>
  BY DEF ProcessorStep, Peek, ProcessorQuota, Dequeue, LoadSession, StartQueued,
         IncrementGlobal, ProcessorMarkActive, IncrementDaily, ProcessorSpawn, Undo,
         TimeoutRemove, TimeoutCommit, ProcessorRedisFault, TimeoutScan, ProcessorAt,
         lifeVars
<1>2. AgentsWriteStatuses'
  <2>1. CASE ProcessorSpawn
    BY <2>1 DEF ProcessorSpawn, Spawn, AgentsWriteStatuses, TypeOK, AgentTypes, dbVars
  <2>2. ASSUME NEW s \in Sessions, TimeoutRemove(s) PROVE AgentsWriteStatuses'
    BY <2>2 DEF TimeoutRemove, AgentsWriteStatuses, TypeOK, DbTypes
  <2>3. CASE UNCHANGED <<agent, terminal>>
    BY <2>3, RowFrame
  <2>4. QED
    BY <2>1, <2>2, <2>3
    DEF ProcessorStep, Peek, ProcessorQuota, Dequeue, LoadSession, StartQueued,
        IncrementGlobal, ProcessorMarkActive, IncrementDaily, Undo, TimeoutCommit,
        ProcessorRedisFault, TimeoutScan, dbVars
<1>3. \A r \in Sessions : Exists(r) => Exists(r)'
  <2>1. CASE StartQueued
    <3>1. processor.session \in Sessions
      BY <2>1, ProcessorSession DEF StartQueued, ProcessorAt, TypeOK
    <3>2. QED
      BY <2>1, <3>1, RowWrites DEF StartQueued, Flush, TypeOK, Statuses, Gone
  <2>2. CASE Undo
    <3>1. processor.session \in Sessions
      BY <2>2, ProcessorSession DEF Undo, ProcessorAt, TypeOK
    <3>2. QED
      BY <2>2, <3>1, RowWrites DEF Undo, Flush, TypeOK, Statuses, Gone
  <2>3. CASE TimeoutCommit
    BY <2>3 DEF TimeoutCommit, TypeOK, DbTypes, Exists
  <2>4. CASE UNCHANGED status
    BY <2>4 DEF Exists
  <2>5. QED
    BY <2>1, <2>2, <2>3, <2>4
    DEF ProcessorStep, Peek, ProcessorQuota, Dequeue, LoadSession, IncrementGlobal,
        ProcessorMarkActive, IncrementDaily, ProcessorSpawn, TimeoutRemove,
        ProcessorRedisFault, TimeoutScan, dbVars
<1>4. RowIsKept'
  <2>1. CASE LoadSession
    BY <1>1, <2>1 DEF LoadSession, IdleProcessor, RowIsKept, Exists, TypeOK, ProcessorTypes,
                      dbVars
  <2>2. CASE ~LoadSession
    <3>1. processor'.pc = "commit" => UNCHANGED processor
      <4> USE DEF TypeOK, ProcessorTypes, IdleProcessor
      <4>1. CASE Peek
        BY <4>1 DEF Peek
      <4>2. CASE Dequeue
        <5>1. CASE processor' = IdleProcessor
          BY <5>1
        <5>2. ASSUME NEW e \in Minimal,
                     processor' = [processor EXCEPT !.pc = "load", !.session = e.session]
              PROVE  processor'.pc # "commit"
          BY <5>2
        <5>3. QED
          BY <4>2, <5>1, <5>2 DEF Dequeue
      <4>3. CASE ProcessorQuota
        BY <4>3 DEF ProcessorQuota, ProcessorGoto
      <4>4. CASE \/ StartQueued \/ IncrementGlobal \/ ProcessorMarkActive
                 \/ IncrementDaily
        BY <4>4
        DEF StartQueued, IncrementGlobal, ProcessorMarkActive, IncrementDaily,
            ProcessorGoto
      <4>5. CASE ProcessorSpawn \/ Undo \/ ProcessorRedisFault
        BY <4>5 DEF ProcessorSpawn, Undo, ProcessorRedisFault, ProcessorGoto
      <4>6. ASSUME NEW late \in SUBSET Sessions, TimeoutScan(late)
            PROVE  processor'.pc # "commit"
        BY <4>6 DEF TimeoutScan
      <4>7. ASSUME NEW s \in Sessions, TimeoutRemove(s) PROVE processor'.pc # "commit"
        BY <4>7 DEF TimeoutRemove, ProcessorAt
      <4>8. CASE TimeoutCommit
        BY <4>8 DEF TimeoutCommit
      <4>9. QED
        BY <2>2, <4>1, <4>2, <4>3, <4>4, <4>5, <4>6, <4>7, <4>8 DEF ProcessorStep
    <3>2. processor.pc = "commit" => processor.session \in Sessions
      BY DEF TypeOK, ProcessorTypes
    <3>3. QED
      BY <1>1, <1>3, <3>1, <3>2 DEF RowIsKept
  <2>3. QED
    BY <2>1, <2>2
<1>5. QED
  BY <1>1, <1>2, <1>4, RowFrame

LEMMA RowEnd ==
    ASSUME RowInv, EndProcess
    PROVE  RowInv'
<1> USE DEF RowInv
<1>1. AgentsWriteStatuses' /\ HandlersWriteStatuses'
  BY DEF EndProcess, AgentsWriteStatuses, HandlersWriteStatuses, NoAgent, Idle, dbVars
<1>2. RecoveryWritesStatuses'
  <2>1. PICK todo \in SUBSET Sessions : recovery' = [NoRecovery EXCEPT !.todo = todo]
    BY DEF EndProcess
  <2>2. QED
    BY <2>1 DEF NoRecovery, RecoveryWritesStatuses
<1>3. RowIsKept' /\ RecoveryIsAlone'
  BY DEF EndProcess, RowIsKept, RecoveryIsAlone, Idle, IdleProcessor
<1>4. QED
  BY <1>1, <1>2, <1>3

LEMMA RowShutdown ==
    ASSUME TypeOK, RowInv, StopProcessor \/ CancelAgents
    PROVE  RowInv'
<1> USE DEF RowInv
<1>1. CASE StopProcessor
  <2>1. RowIsKept' /\ RecoveryIsAlone'
    BY <1>1 DEF StopProcessor, RowIsKept, RecoveryIsAlone, IdleProcessor
  <2>2. QED
    BY <1>1, <2>1, RowFrame DEF StopProcessor, dbVars
<1>2. CASE CancelAgents
  <2>1. AgentsWriteStatuses'
    <3>1. \A s \in Sessions :
             IF s \in RunningTasks THEN agent'[s] \in Interrupted(agent[s])
                                   ELSE agent'[s] = agent[s]
      BY <1>2 DEF CancelAgents, Interruptions
    <3>2. \A s \in Sessions :
             agent'[s].pc \in {"finishing", "committed"} => agent'[s].final \notin Gone
      BY <3>1, InterruptedIs DEF RunningTasks, AgentsWriteStatuses, TypeOK, AgentTypes, Gone
    <3>3. QED
      BY <1>2, <3>2 DEF CancelAgents, AgentsWriteStatuses, dbVars
  <2>2. RecoveryIsAlone'
    BY <1>2 DEF CancelAgents, RecoveryIsAlone
  <2>3. QED
    BY <1>2, <2>1, <2>2, RowFrame DEF CancelAgents, dbVars
<1>3. QED
  BY <1>1, <1>2

LEMMA RowRecovery ==
    ASSUME TypeOK, RowInv, RecoverStep \/ RecoverAbort
    PROVE  RowInv'
<1> USE DEF RowInv
<1>2. ASSUME NEW s \in Sessions, RecoverSession(s) PROVE RowInv'
  <2>1. RecoveryWritesStatuses'
    BY <1>2 DEF RecoverSession, RecoveryWritesStatuses, TypeOK, LifeTypes
  <2>2. RecoveryIsAlone'
    BY <1>2 DEF RecoverSession, RecoveryIsAlone
  <2>3. QED
    BY <1>2, <2>1, <2>2, RowFrame DEF RecoverSession, dbVars
<1>3. CASE RecoverCommit
  <2>1. RecoveryWritesStatuses'
    BY <1>3 DEF RecoverCommit, NoRecovery, RecoveryWritesStatuses
  <2>2. \A r \in Sessions : Exists(r) => Exists(r)'
    BY <1>3 DEF RecoverCommit, RecoveryWritesStatuses, Exists, TypeOK, DbTypes
  <2>3. RowIsKept'
    <3>1. processor.pc = "commit" => processor.session \in Sessions
      BY DEF TypeOK, ProcessorTypes
    <3>2. QED
      BY <1>3, <2>2, <3>1 DEF RecoverCommit, RowIsKept
  <2>4. QED
    BY <1>3, <2>1, <2>3, RowFrame DEF RecoverCommit
<1>4. CASE RecoverAbort
  <2>1. RecoveryWritesStatuses'
    BY <1>4 DEF RecoverAbort, NoRecovery, RecoveryWritesStatuses
  <2>2. QED
    BY <1>4, <2>1, RowFrame DEF RecoverAbort, dbVars
<1>5. QED
  BY <1>2, <1>3, <1>4 DEF RecoverStep

THEOREM RowInvariant == Spec => []RowInv
<1>1. Init => RowInv
  BY DEF Init, RowInv, AgentsWriteStatuses, HandlersWriteStatuses, RecoveryWritesStatuses,
         RowIsKept, RecoveryIsAlone, NoAgent, Idle, IdleProcessor, NoRecovery
<1>2. TypeOK /\ RowInv /\ [Next]_vars => RowInv'
  <2> SUFFICES ASSUME TypeOK, RowInv, [Next]_vars PROVE RowInv'
    OBVIOUS
  <2>1. CASE UNCHANGED vars
    <3>1. RecoveryIsAlone'
      BY <2>1 DEF RowInv, RecoveryIsAlone, vars, lifeVars
    <3>2. QED
      BY <2>1, <3>1, RowFrame DEF RowInv, vars, dbVars, lifeVars
  <2>2. CASE Next
    BY <2>2, RowRequest, RowServe, RowAgent, RowProcessor, RowEnd, RowShutdown, RowRecovery
    DEF Next, Crash, Exit
  <2>3. QED
    BY <2>1, <2>2
<1>3. QED
  BY <1>1, <1>2, TypeCorrect, PTL DEF Spec

-----------------------------------------------------------------------------
(* The global counter and the tasks *)

LEMMA TasksFinite ==
    /\ IsFiniteSet(RunningTasks)
    /\ Cardinality(RunningTasks) \in Nat
<1>1. RunningTasks \in SUBSET Sessions
  BY DEF RunningTasks
<1>2. IsFiniteSet(RunningTasks)
  BY <1>1, SchedulerAssumption, FS_Subset
<1>3. QED
  BY <1>2, FS_CardinalityType

LEMMA TasksMore ==
    ASSUME AgentTypes, NEW s \in Sessions, s \notin RunningTasks, Spawn(s)
    PROVE  Cardinality(RunningTasks)' = Cardinality(RunningTasks) + 1
<1>1. RunningTasks' = RunningTasks \cup {s}
  BY DEF AgentTypes, Spawn, RunningTasks
<1>2. QED
  BY <1>1, TasksFinite, FS_AddElement

LEMMA TasksFewer ==
    ASSUME AgentTypes, NEW s \in Sessions, s \in RunningTasks,
           agent' = [agent EXCEPT ![s] = NoAgent]
    PROVE  /\ Cardinality(RunningTasks)' = Cardinality(RunningTasks) - 1
           /\ Cardinality(RunningTasks) > 0
<1>1. RunningTasks' = RunningTasks \ {s}
  BY DEF AgentTypes, NoAgent, RunningTasks
<1>2. Cardinality(RunningTasks)' = Cardinality(RunningTasks) - 1
  BY <1>1, TasksFinite, FS_RemoveElement
<1>3. Cardinality(RunningTasks) # 0
  BY TasksFinite, FS_EmptySet
<1>4. QED
  BY <1>2, <1>3, TasksFinite

LEMMA TasksSame ==
    ASSUME AgentTypes, NEW s \in Sessions, agent[s].pc # "none", NEW a,
           a.pc # "none", agent' = [agent EXCEPT ![s] = a]
    PROVE  RunningTasks' = RunningTasks
BY DEF AgentTypes, RunningTasks

\* What a step does to the counter, the tasks and the processor's claim.
Nothing == UNCHANGED <<globalActive, RunningTasks, Claimed>>
CountAndSpawn ==
    /\ globalActive' = globalActive + 1
    /\ Cardinality(RunningTasks)' = Cardinality(RunningTasks) + 1
    /\ UNCHANGED Claimed
ClaimCounted ==
    /\ globalActive' = globalActive + 1
    /\ Claimed = 0 /\ Claimed' = 1
    /\ UNCHANGED RunningTasks
ClaimUncounted ==
    /\ Claimed = 0 /\ Claimed' = 1
    /\ "delete" \in Endpoints
    /\ UNCHANGED <<globalActive, RunningTasks>>
SpawnClaimed ==
    /\ Cardinality(RunningTasks)' = Cardinality(RunningTasks) + 1
    /\ Claimed = 1 /\ Claimed' = 0
    /\ UNCHANGED globalActive
EndTask ==
    /\ Decrement
    /\ Cardinality(RunningTasks) > 0
    /\ Cardinality(RunningTasks)' = Cardinality(RunningTasks) - 1
    /\ UNCHANGED Claimed
DropClaim ==
    /\ Decrement
    /\ Claimed = 1 /\ Claimed' = 0
    /\ UNCHANGED RunningTasks

Account == \/ Nothing \/ CountAndSpawn \/ ClaimCounted \/ ClaimUncounted
           \/ SpawnClaimed \/ EndTask \/ DropClaim

LEMMA NothingHappens ==
    ASSUME UNCHANGED <<globalActive, agent>>, UNCHANGED Claimed
    PROVE  Account
BY DEF Account, Nothing, RunningTasks

LEMMA HandlerAccount ==
    ASSUME TypeOK, NEW h \in Handlers, queueOn,
           Request(h) \/ Serve(h) \/ CancelAgain(h) \/ HandlerRedisFault(h)
    PROVE  Account /\ UNCHANGED queueOn
<1>1. UNCHANGED <<processor, queueOn>>
  BY DEF Request, RunTask, StartTask, CancelTask, DeleteSession, ListSessions, Serve,
         StartTaskAccept, CheckGlobal, CheckUser, CheckDaily, StartNow, MarkUserActive,
         Enqueue, CommitRunning, CommitQueued, CommitFailed, CommitCancelled, CommitRepair,
         Commit, CancelDecide, CancelWait, CancelAgain, CommitDeleted, ListTerminal,
         HandlerRedisFault, lifeVars
<1>2. UNCHANGED Claimed
  BY <1>1 DEF Claimed
<1>3. CASE StartNow(h)
  <2>1. Session(h) \in Sessions
    BY <1>3, HandlerSession DEF StartNow, At, TypeOK
  <2>2. CASE Session(h) \in RunningTasks
    <3>1. UNCHANGED <<globalActive, agent>>
      BY <1>3, <2>2 DEF StartNow
    <3>2. QED
      BY <1>1, <1>2, <3>1, NothingHappens
  <2>3. CASE Session(h) \notin RunningTasks
    <3>1. Spawn(Session(h)) /\ globalActive' = globalActive + 1
      BY <1>3, <2>3 DEF StartNow
    <3>2. Cardinality(RunningTasks)' = Cardinality(RunningTasks) + 1
      BY <2>1, <2>3, <3>1, TasksMore DEF TypeOK
    <3>3. QED
      BY <1>1, <1>2, <3>1, <3>2 DEF Account, CountAndSpawn
  <2>4. QED
    BY <2>2, <2>3
<1>4. CASE CancelDecide(h) \/ CancelAgain(h)
  <2>1. Session(h) \in Sessions /\ UNCHANGED globalActive
    BY <1>4, HandlerSession DEF CancelDecide, CancelAgain, At, TypeOK
  <2>2. CASE UNCHANGED agent
    BY <1>1, <1>2, <2>1, <2>2, NothingHappens
  <2>3. CASE Session(h) \in RunningTasks /\ Interrupt(Session(h))
    <3>1. agent[Session(h)].pc # "none"
      BY <2>3 DEF RunningTasks
    <3>2. PICK a \in Interrupted(agent[Session(h)]) : agent' = [agent EXCEPT ![Session(h)] = a]
      BY <2>3 DEF Interrupt
    <3>3. a.pc # "none"
      BY <2>1, <3>2, InterruptedIs DEF TypeOK, AgentTypes
    <3>4. UNCHANGED RunningTasks
      BY <2>1, <3>1, <3>2, <3>3, TasksSame DEF TypeOK
    <3>5. QED
      BY <1>1, <1>2, <2>1, <3>4 DEF Account, Nothing
  <2>4. QED
    BY <1>4, <2>2, <2>3 DEF CancelDecide, CancelAgain
<1>5. CASE UNCHANGED <<globalActive, agent>>
  BY <1>1, <1>2, <1>5, NothingHappens
<1>6. QED
  BY <1>3, <1>4, <1>5
  DEF Request, RunTask, StartTask, CancelTask, DeleteSession, ListSessions, Serve,
      StartTaskAccept, CheckGlobal, CheckUser, CheckDaily, MarkUserActive,
      Enqueue, CommitRunning, CommitQueued, CommitFailed, CommitCancelled, CommitRepair,
      Commit, CancelWait, CommitDeleted, ListTerminal, HandlerRedisFault

LEMMA AgentAccount ==
    ASSUME TypeOK, NEW s \in Sessions,
           AgentStep(s) \/ AgentEstablish(s) \/ MarkUserInactive(s)
    PROVE  Account /\ UNCHANGED queueOn
<1>1. UNCHANGED <<processor, queueOn>>
  BY DEF AgentStep, AgentEnter, AgentFinish, AgentCommit, AgentCancelled, AgentCleanup,
         AgentEstablish, MarkUserInactive, lifeVars
<1>2. UNCHANGED Claimed
  BY <1>1 DEF Claimed
<1>3. CASE AgentCleanup(s)
  <2>1. s \in RunningTasks
    BY <1>3 DEF AgentCleanup, Alive, RunningTasks
  <2>2. QED
    BY <1>1, <1>2, <1>3, <2>1, TasksFewer DEF TypeOK, AgentCleanup, Account, EndTask
<1>4. CASE AgentEstablish(s) \/ MarkUserInactive(s)
  BY <1>1, <1>2, <1>4, NothingHappens DEF AgentEstablish, MarkUserInactive
<1>5. ASSUME NEW pc, NEW final, pc # "none", agent[s].pc # "none", Move(s, pc, final),
             UNCHANGED globalActive
      PROVE  Account
  <2>1. UNCHANGED RunningTasks
    BY <1>5, TasksSame DEF TypeOK, Move
  <2>2. QED
    BY <1>2, <1>5, <2>1 DEF Account, Nothing
<1>6. CASE AgentEnter(s) \/ AgentCommit(s) \/ AgentCancelled(s)
  BY <1>1, <1>5, <1>6 DEF AgentEnter, AgentCommit, AgentCancelled, Alive
<1>7. ASSUME NEW outcome \in Statuses, NEW final \in Statuses,
             AgentFinish(s, outcome, final)
      PROVE  Account
  BY <1>5, <1>7 DEF AgentFinish, Alive
<1>8. QED
  BY <1>1, <1>3, <1>4, <1>6, <1>7 DEF AgentStep

LEMMA ProcessorAccount ==
    ASSUME TypeOK, RowInv,
           \/ ProcessorStep \/ ProcessorRedisFault
           \/ \E late \in SUBSET Sessions : TimeoutScan(late)
    PROVE  Account /\ UNCHANGED queueOn
<1>1. UNCHANGED queueOn
  BY DEF ProcessorStep, Peek, ProcessorQuota, Dequeue, LoadSession, StartQueued,
         IncrementGlobal, ProcessorMarkActive, IncrementDaily, ProcessorSpawn, Undo,
         TimeoutRemove, TimeoutCommit, ProcessorRedisFault, TimeoutScan, lifeVars
<1>2. ASSUME NEW pc \in ProcessorPC, ProcessorGoto(pc)
      PROVE  Claimed' = IF pc \in {"sadd", "count", "start", "undo"} THEN 1 ELSE 0
  BY <1>2 DEF ProcessorGoto, Claimed, TypeOK, ProcessorTypes
<1>3. ASSUME processor' = IdleProcessor PROVE Claimed' = 0
  BY <1>3 DEF Claimed, IdleProcessor
<1>4. CASE \/ Peek \/ ProcessorQuota \/ Dequeue \/ LoadSession \/ TimeoutCommit
           \/ \E s \in Sessions : TimeoutRemove(s)
           \/ \E late \in SUBSET Sessions : TimeoutScan(late)
  <2>1. Claimed = 0
    BY <1>4 DEF Peek, ProcessorQuota, Dequeue, LoadSession, TimeoutCommit, TimeoutRemove,
                TimeoutScan, ProcessorAt, Claimed
  <2>2. Claimed' = 0
    <3> USE DEF Claimed, TypeOK, ProcessorTypes, IdleProcessor
    <3>1. CASE Peek
      BY <3>1 DEF Peek
    <3>2. CASE ProcessorQuota
      BY <1>2, <1>3, <3>2 DEF ProcessorQuota, ProcessorPC
    <3>3. CASE Dequeue
      <4>1. ASSUME NEW e \in Minimal,
                   processor' = [processor EXCEPT !.pc = "load", !.session = e.session]
            PROVE  Claimed' = 0
        BY <4>1
      <4>2. QED
        BY <1>3, <3>3, <4>1 DEF Dequeue
    <3>4. CASE LoadSession
      <4>1. CASE processor' = [processor EXCEPT !.pc = "commit",
                                                !.loaded = status[processor.session]]
        BY <4>1
      <4>2. QED
        BY <1>3, <3>4, <4>1 DEF LoadSession
    <3>5. CASE TimeoutCommit
      BY <1>3, <3>5 DEF TimeoutCommit
    <3>6. ASSUME NEW s \in Sessions, TimeoutRemove(s) PROVE Claimed' = 0
      BY <3>6 DEF TimeoutRemove, ProcessorAt
    <3>7. ASSUME NEW late \in SUBSET Sessions, TimeoutScan(late) PROVE Claimed' = 0
      BY <3>7 DEF TimeoutScan
    <3>8. QED
      BY <1>4, <3>1, <3>2, <3>3, <3>4, <3>5, <3>6, <3>7
  <2>3. UNCHANGED <<globalActive, agent>>
    BY <1>4 DEF Peek, ProcessorQuota, Dequeue, LoadSession, TimeoutCommit, TimeoutRemove,
                TimeoutScan
  <2>4. QED
    BY <1>1, <2>1, <2>2, <2>3, NothingHappens
<1>5. CASE StartQueued
  <2>1. Claimed = 0 /\ UNCHANGED <<globalActive, agent>>
    BY <1>5 DEF StartQueued, ProcessorAt, Claimed
  <2>2. CASE Exists(processor.session)
    <3>1. Claimed' = 0
      BY <1>2, <1>5, <2>2 DEF StartQueued, ProcessorPC
    <3>2. QED
      BY <1>1, <2>1, <3>1, NothingHappens
  <2>3. CASE ~Exists(processor.session)
    <3>1. Claimed' = 1
      BY <1>2, <1>5, <2>3 DEF StartQueued, ProcessorPC
    <3>2. "delete" \in Endpoints
      BY <1>5, <2>3 DEF StartQueued, ProcessorAt, RowInv, RowIsKept
    <3>3. UNCHANGED RunningTasks
      BY <2>1 DEF RunningTasks
    <3>4. QED
      BY <1>1, <2>1, <3>1, <3>2, <3>3 DEF Account, ClaimUncounted
  <2>4. QED
    BY <2>2, <2>3
<1>6. CASE IncrementGlobal
  <2>1. Claimed = 0 /\ globalActive' = globalActive + 1
    BY <1>6 DEF IncrementGlobal, ProcessorAt, Claimed
  <2>2. Claimed' = 1
    BY <1>2, <1>6 DEF IncrementGlobal, ProcessorPC
  <2>3. UNCHANGED RunningTasks
    BY <1>6 DEF IncrementGlobal, RunningTasks
  <2>4. QED
    BY <1>1, <2>1, <2>2, <2>3 DEF Account, ClaimCounted
<1>7. CASE ProcessorMarkActive \/ IncrementDaily
  <2>1. Claimed = 1 /\ UNCHANGED <<globalActive, agent>>
    BY <1>7 DEF ProcessorMarkActive, IncrementDaily, ProcessorAt, Claimed
  <2>2. Claimed' = 1
    BY <1>2, <1>7 DEF ProcessorMarkActive, IncrementDaily, ProcessorPC
  <2>3. QED
    BY <1>1, <2>1, <2>2, NothingHappens
<1>8. CASE ProcessorSpawn
  <2>1. Claimed = 1 /\ UNCHANGED globalActive
    BY <1>8 DEF ProcessorSpawn, ProcessorAt, Claimed
  <2>2. CASE processor.session \in RunningTasks
    <3>1. Claimed' = 1
      BY <1>2, <1>8, <2>2 DEF ProcessorSpawn, ProcessorPC
    <3>2. UNCHANGED agent
      BY <1>8, <2>2 DEF ProcessorSpawn
    <3>3. QED
      BY <1>1, <2>1, <3>1, <3>2, NothingHappens
  <2>3. CASE processor.session \notin RunningTasks
    <3>1. Claimed' = 0 /\ Spawn(processor.session)
      BY <1>3, <1>8, <2>3 DEF ProcessorSpawn
    <3>2. processor.session \in Sessions
      BY <1>8, ProcessorSession DEF ProcessorSpawn, ProcessorAt, TypeOK
    <3>3. Cardinality(RunningTasks)' = Cardinality(RunningTasks) + 1
      BY <2>3, <3>1, <3>2, TasksMore DEF TypeOK
    <3>4. QED
      BY <1>1, <2>1, <3>1, <3>3 DEF Account, SpawnClaimed
  <2>4. QED
    BY <2>2, <2>3
<1>9. CASE Undo
  <2>1. CASE ProcessorAt("undo") /\ Decrement /\ ProcessorGoto("undo_srem")
    <3>1. Claimed = 1
      BY <2>1 DEF ProcessorAt, Claimed
    <3>2. Claimed' = 0
      BY <1>2, <2>1 DEF ProcessorPC
    <3>3. UNCHANGED RunningTasks
      BY <1>9 DEF Undo, RunningTasks
    <3>4. QED
      BY <1>1, <2>1, <3>1, <3>2, <3>3 DEF Account, DropClaim
  <2>2. CASE /\ ProcessorAt("undo_srem") \/ ProcessorAt("undo_status")
             /\ UNCHANGED globalActive
             /\ ProcessorGoto("undo_status") \/ processor' = IdleProcessor
    <3>1. Claimed = 0
      BY <2>2 DEF ProcessorAt, Claimed
    <3>2. Claimed' = 0
      BY <1>2, <1>3, <2>2 DEF ProcessorPC
    <3>3. QED
      BY <1>1, <1>9, <2>2, <3>1, <3>2, NothingHappens DEF Undo
  <2>3. QED
    BY <1>9, <2>1, <2>2 DEF Undo
<1>10. CASE ProcessorRedisFault
  <2>1. UNCHANGED <<globalActive, agent>>
    BY <1>10 DEF ProcessorRedisFault
  <2>2. CASE ProcessorAt("sadd") /\ ProcessorGoto("undo")
    <3>1. Claimed = 1
      BY <2>2 DEF ProcessorAt, Claimed
    <3>2. Claimed' = 1
      BY <1>2, <2>2 DEF ProcessorPC
    <3>3. QED
      BY <1>1, <2>1, <3>1, <3>2, NothingHappens
  <2>3. CASE \E pc \in {"scard", "load", "undo_srem", "timeout"} :
               ProcessorAt(pc) /\ processor' = IdleProcessor
    <3>1. Claimed = 0
      BY <2>3 DEF ProcessorAt, Claimed
    <3>2. QED
      BY <1>1, <1>3, <2>1, <2>3, <3>1, NothingHappens
  <2>4. QED
    BY <1>10, <2>2, <2>3 DEF ProcessorRedisFault
<1>11. QED
  BY <1>4, <1>5, <1>6, <1>7, <1>8, <1>9, <1>10 DEF ProcessorStep

\* While the queue system is on, every step keeps account; and when the
\* lifespan switches it on, nothing is counted and nothing runs.
LEMMA StepAccount ==
    ASSUME TypeOK, RowInv, [Next]_vars, queueOn'
    PROVE  \/ queueOn /\ Account
           \/ globalActive' = 0 /\ Cardinality(RunningTasks)' = 0 /\ Claimed' = 0
<1>1. CASE RecoverCommit
  <2>1. globalActive' = 0 /\ processor' = IdleProcessor
    BY <1>1 DEF RecoverCommit, RowInv, RecoveryIsAlone
  <2>2. RunningTasks' = {}
    BY <1>1 DEF RecoverCommit, RowInv, RecoveryIsAlone, RunningTasks, NoAgent
  <2>3. Cardinality(RunningTasks)' = 0
    BY <2>2, FS_EmptySet
  <2>4. QED
    BY <2>1, <2>3 DEF Claimed, IdleProcessor
<1>2. CASE UNCHANGED vars
  BY <1>2, NothingHappens DEF vars, lifeVars, Claimed
<1>3. CASE Crash \/ Exit \/ StopProcessor \/ CancelAgents \/ RecoverAbort
  BY <1>3 DEF Crash, Exit, EndProcess, StopProcessor, CancelAgents, RecoverAbort, RowInv,
              RecoveryIsAlone
<1>4. ASSUME NEW s \in Sessions, RecoverSession(s)
      PROVE  queueOn /\ Account
  BY <1>4 DEF RecoverSession, RowInv, RecoveryIsAlone
<1>5. ASSUME NEW h \in Handlers,
             Request(h) \/ Serve(h) \/ CancelAgain(h) \/ HandlerRedisFault(h)
      PROVE  queueOn /\ Account
  <2>1. queueOn
    BY <1>5
    DEF Request, RunTask, StartTask, CancelTask, DeleteSession, ListSessions, Serve,
        StartTaskAccept, CheckGlobal, CheckUser, CheckDaily, StartNow, MarkUserActive,
        Enqueue, CommitRunning, CommitQueued, CommitFailed, CommitCancelled, CommitRepair,
        Commit, CancelDecide, CancelWait, CancelAgain, CommitDeleted, ListTerminal,
        HandlerRedisFault, lifeVars
  <2>2. QED
    BY <1>5, <2>1, HandlerAccount
<1>6. ASSUME NEW s \in Sessions, AgentStep(s) \/ AgentEstablish(s) \/ MarkUserInactive(s)
      PROVE  queueOn /\ Account
  BY <1>6, AgentAccount
<1>7. CASE \/ ProcessorStep \/ ProcessorRedisFault
           \/ \E late \in SUBSET Sessions : TimeoutScan(late)
  BY <1>7, ProcessorAccount
<1>8. QED
  BY <1>1, <1>2, <1>3, <1>4, <1>5, <1>6, <1>7 DEF Next, RecoverStep

LEMMA CountTypes ==
    ASSUME TypeOK
    PROVE  globalActive \in Int /\ Cardinality(RunningTasks) \in Int /\ Claimed \in {0, 1}
BY TasksFinite DEF TypeOK, AgentTypes, Claimed

LEMMA AccountBalance ==
    ASSUME TypeOK, Account
    PROVE  /\ globalActive <= Cardinality(RunningTasks) + Claimed
                => (globalActive <= Cardinality(RunningTasks) + Claimed)'
           /\ globalActive = Cardinality(RunningTasks) + Claimed
                /\ "delete" \notin Endpoints
                => (globalActive = Cardinality(RunningTasks) + Claimed)'
<1> DEFINE n == Cardinality(RunningTasks)
<1>1. globalActive \in Nat /\ n \in Nat /\ Claimed \in {0, 1}
  BY CountTypes, TasksFinite DEF TypeOK, AgentTypes
<1>2. UNCHANGED RunningTasks => n' = n
  OBVIOUS
<1> HIDE DEF n
<1>3. \/ globalActive' = globalActive /\ n' = n /\ Claimed' = Claimed
      \/ globalActive' = globalActive + 1 /\ n' = n + 1 /\ Claimed' = Claimed
      \/ globalActive' = globalActive + 1 /\ n' = n /\ Claimed = 0 /\ Claimed' = 1
      \/ /\ globalActive' = globalActive /\ n' = n /\ Claimed = 0 /\ Claimed' = 1
         /\ "delete" \in Endpoints
      \/ globalActive' = globalActive /\ n' = n + 1 /\ Claimed = 1 /\ Claimed' = 0
      \/ Decrement /\ n > 0 /\ n' = n - 1 /\ Claimed' = Claimed
      \/ Decrement /\ n' = n /\ Claimed = 1 /\ Claimed' = 0
  BY <1>2 DEF Account, Nothing, CountAndSpawn, ClaimCounted, ClaimUncounted, SpawnClaimed,
              EndTask, DropClaim, n
<1>4. Decrement => globalActive' = IF globalActive > 0 THEN globalActive - 1 ELSE 0
  BY DEF Decrement
<1>5. globalActive <= n + Claimed => globalActive' <= n' + Claimed'
  BY <1>1, <1>3, <1>4
<1>6. globalActive = n + Claimed /\ "delete" \notin Endpoints
        => globalActive' = n' + Claimed'
  BY <1>1, <1>3, <1>4
<1>7. QED
  BY <1>5, <1>6 DEF n

LEMMA NothingCounted == Init => globalActive = 0 /\ Cardinality(RunningTasks) = 0 /\ Claimed = 0
<1>1. Init => RunningTasks = {}
  BY DEF Init, RunningTasks, NoAgent
<1>2. Init => globalActive = 0 /\ Claimed = 0
  BY DEF Init, Claimed, IdleProcessor
<1>3. QED
  BY <1>1, <1>2, FS_EmptySet

\* Whatever Redis does, whichever sessions are deleted and however often the
\* process dies: the counter of QuotaManager never exceeds the number of tasks
\* that exist, so that no slot of the global limit is lost for good.
THEOREM NeverOvercounts == Spec => []NoOvercount
<1>1. Init => NoOvercount
  BY NothingCounted DEF NoOvercount
<1>2. TypeOK /\ RowInv /\ NoOvercount /\ [Next]_vars => NoOvercount'
  <2> SUFFICES ASSUME TypeOK, RowInv, NoOvercount, [Next]_vars, queueOn'
               PROVE  (globalActive <= Cardinality(RunningTasks) + Claimed)'
    BY DEF NoOvercount
  <2>1. CASE globalActive' = 0 /\ Cardinality(RunningTasks)' = 0 /\ Claimed' = 0
    BY <2>1
  <2>2. CASE queueOn /\ Account
    <3>1. globalActive <= Cardinality(RunningTasks) + Claimed
      BY <2>2 DEF NoOvercount
    <3>2. QED
      BY <2>2, <3>1, AccountBalance
  <2>3. QED
    BY <2>1, <2>2, StepAccount
<1>3. QED
  BY <1>1, <1>2, TypeCorrect, RowInvariant, PTL DEF Spec

\* As long as no session is deleted, the counter of QuotaManager is exactly the
\* number of tasks of AgentRunner plus the one the processor is about to start,
\* however requests, cancellations, completions, Redis failures and crashes
\* interleave: the max(0, ...) of decrement_global never takes effect.
THEOREM CountsExactly == Spec => []CountExact
<1>1. Init => CountExact
  BY NothingCounted DEF CountExact
<1>2. TypeOK /\ RowInv /\ CountExact /\ [Next]_vars => CountExact'
  <2> SUFFICES ASSUME TypeOK, RowInv, CountExact, [Next]_vars, queueOn',
                      "delete" \notin Endpoints
               PROVE  (globalActive = Cardinality(RunningTasks) + Claimed)'
    BY DEF CountExact
  <2>1. CASE globalActive' = 0 /\ Cardinality(RunningTasks)' = 0 /\ Claimed' = 0
    BY <2>1
  <2>2. CASE queueOn /\ Account
    <3>1. globalActive = Cardinality(RunningTasks) + Claimed
      BY <2>2 DEF CountExact
    <3>2. QED
      BY <2>2, <3>1, AccountBalance
  <2>3. QED
    BY <2>1, <2>2, StepAccount
<1>3. QED
  BY <1>1, <1>2, TypeCorrect, RowInvariant, PTL DEF Spec

-----------------------------------------------------------------------------
(* The global limit: how far it can be exceeded *)

\* Whoever has seen a free slot and has not counted a task yet.
Starting == {h \in Handlers : handler[h].pc \in {"scard", "daily", "start"}}
Approaching ==
    IF processor.pc \in {"scard", "daily", "dequeue", "load", "commit", "increment"}
    THEN 1 ELSE 0

\* The check against the limit is the only way into Starting and Approaching,
\* and at that moment a slot is free.
Room ==
    queueOn => globalActive + Cardinality(Starting) + Approaching
                   <= GlobalMax + Cardinality(Handlers)

LEMMA StartingFinite ==
    /\ Cardinality(Handlers) \in Nat
    /\ IsFiniteSet(Starting)
    /\ Cardinality(Starting) \in Nat /\ Cardinality(Starting)' \in Nat
    /\ Cardinality(Starting) <= Cardinality(Handlers)
    /\ Cardinality(Starting)' <= Cardinality(Handlers)
<1>1. Starting \in SUBSET Handlers /\ Starting' \in SUBSET Handlers
  BY DEF Starting
<1>2. QED
  BY <1>1, SchedulerAssumption, FS_Subset, FS_CardinalityType

\* A step of handler h that has passed the check already, or does not pass it.
LEMMA StartingNarrows ==
    ASSUME HandlerTypes, NEW h \in Handlers, NEW r, handler' = [handler EXCEPT ![h] = r],
           h \in Starting \/ r.pc \notin {"scard", "daily", "start"}
    PROVE  Cardinality(Starting)' <= Cardinality(Starting)
<1>1. Starting' \in SUBSET Starting
  BY DEF HandlerTypes, Starting
<1>2. QED
  BY <1>1, StartingFinite, FS_Subset

LEMMA StartingLeaves ==
    ASSUME HandlerTypes, NEW h \in Handlers, h \in Starting, NEW pc, Goto(h, pc),
           pc \notin {"scard", "daily", "start"}
    PROVE  Cardinality(Starting)' = Cardinality(Starting) - 1
<1>1. Starting' = Starting \ {h}
  BY DEF HandlerTypes, Starting, Goto
<1>2. QED
  BY <1>1, StartingFinite, FS_RemoveElement

LEMMA StartingMoves ==
    ASSUME HandlerTypes, NEW h \in Handlers, NEW pc, Goto(h, pc) \/ Done(h),
           h \in Starting \/ pc \notin {"scard", "daily", "start"}
    PROVE  Cardinality(Starting)' <= Cardinality(Starting)
<1>1. CASE Done(h)
  BY <1>1, StartingNarrows DEF Done, Idle
<1>2. CASE Goto(h, pc)
  <2>1. handler' = [handler EXCEPT ![h] = [handler[h] EXCEPT !.pc = pc]]
    BY <1>2 DEF Goto
  <2>2. [handler[h] EXCEPT !.pc = pc].pc = pc
    BY DEF HandlerTypes
  <2>3. QED
    BY <2>1, <2>2, StartingNarrows
<1>3. QED
  BY <1>1, <1>2

LEMMA RoomTypes ==
    ASSUME TypeOK
    PROVE  globalActive \in Nat /\ Approaching \in {0, 1} /\ GlobalMax \in Nat
BY SchedulerAssumption DEF TypeOK, AgentTypes, Approaching

LEMMA HandlerRoom ==
    ASSUME TypeOK, TypeOK', NEW h \in Handlers, queueOn, Room,
           Request(h) \/ Serve(h) \/ CancelAgain(h) \/ HandlerRedisFault(h)
    PROVE  Room'
<1>1. UNCHANGED <<processor, queueOn>>
  BY DEF Request, RunTask, StartTask, CancelTask, DeleteSession, ListSessions, Serve,
         StartTaskAccept, CheckGlobal, CheckUser, CheckDaily, StartNow, MarkUserActive,
         Enqueue, CommitRunning, CommitQueued, CommitFailed, CommitCancelled, CommitRepair,
         Commit, CancelDecide, CancelWait, CancelAgain, CommitDeleted, ListTerminal,
         HandlerRedisFault, lifeVars
<1>2. UNCHANGED Approaching
  BY <1>1 DEF Approaching
<1>3. /\ globalActive \in Nat /\ globalActive' \in Nat
      /\ Approaching \in {0, 1} /\ GlobalMax \in Nat
  BY RoomTypes DEF TypeOK, AgentTypes
<1>4. /\ Cardinality(Starting) \in Nat /\ Cardinality(Starting)' \in Nat
      /\ Cardinality(Handlers) \in Nat /\ Cardinality(Starting)' <= Cardinality(Handlers)
  BY StartingFinite
<1>5. globalActive + Cardinality(Starting) + Approaching <= GlobalMax + Cardinality(Handlers)
  BY DEF Room
<1>6. ASSUME globalActive' <= globalActive,
             Cardinality(Starting)' <= Cardinality(Starting)
      PROVE  Room'
  BY <1>2, <1>3, <1>4, <1>5, <1>6 DEF Room
<1>7. CASE StartNow(h)
  <2>1. h \in Starting
    BY <1>7 DEF StartNow, At, Starting
  <2>2. CASE Done(h) /\ UNCHANGED globalActive
    BY <1>3, <1>6, <2>1, <2>2, StartingMoves DEF TypeOK
  <2>3. CASE Goto(h, "sadd") /\ globalActive' = globalActive + 1
    <3>1. Cardinality(Starting)' = Cardinality(Starting) - 1
      BY <2>1, <2>3, StartingLeaves DEF TypeOK
    <3>2. QED
      BY <1>2, <1>3, <1>4, <1>5, <2>3, <3>1 DEF Room
  <2>4. QED
    BY <1>7, <2>2, <2>3 DEF StartNow
<1>8. CASE CheckGlobal(h)
  <2>1. UNCHANGED globalActive
    BY <1>8 DEF CheckGlobal
  <2>2. CASE globalActive >= GlobalMax
    <3>1. Goto(h, "zadd")
      BY <1>8, <2>2 DEF CheckGlobal
    <3>2. QED
      BY <1>3, <1>6, <2>1, <3>1, StartingMoves DEF TypeOK
  <2>3. CASE ~(globalActive >= GlobalMax)
    BY <1>2, <1>3, <1>4, <2>1, <2>3 DEF Room
  <2>4. QED
    BY <2>2, <2>3
<1>9. CASE CheckUser(h) \/ CheckDaily(h)
  <2>1. h \in Starting /\ UNCHANGED globalActive /\ \E pc \in HandlerPC : Goto(h, pc)
    BY <1>9 DEF CheckUser, CheckDaily, At, Starting, HandlerPC
  <2>2. QED
    BY <1>3, <1>6, <2>1, StartingMoves DEF TypeOK
<1>10. CASE Request(h)
  <2>1. PICK s \in Sessions :
           \E pc \in {"quota", "is_running", "cancel", "commit_deleted", "list"},
              e \in {"run", "task", "cancel", "delete", "list"}, loaded \in Statuses :
                Arrive(h, s, e, pc, loaded)
    BY <1>10 DEF Request, RunTask, StartTask, CancelTask, DeleteSession, ListSessions,
                 Statuses, TypeOK, DbTypes
  <2>2. UNCHANGED globalActive
    BY <1>10 DEF Request, RunTask, StartTask, CancelTask, DeleteSession, ListSessions
  <2>3. Cardinality(Starting)' <= Cardinality(Starting)
    BY <2>1, StartingNarrows DEF Arrive, TypeOK
  <2>4. QED
    BY <1>3, <1>6, <2>2, <2>3
<1>11. CASE ListTerminal(h)
  <2>1. UNCHANGED globalActive
    BY <1>11 DEF ListTerminal
  <2>2. CASE Done(h)
    BY <1>3, <1>6, <2>1, <2>2, StartingMoves DEF TypeOK
  <2>3. CASE handler' = [handler EXCEPT ![h].pc = "commit_repair",
                                        ![h].verdict = terminal[Session(h)]]
    <3>1. Starting' \in SUBSET Starting
      BY <2>3 DEF TypeOK, HandlerTypes, Starting
    <3>2. Cardinality(Starting)' <= Cardinality(Starting)
      BY <3>1, StartingFinite, FS_Subset
    <3>3. QED
      BY <1>3, <1>6, <2>1, <3>2
  <2>4. QED
    BY <1>11, <2>2, <2>3 DEF ListTerminal
<1>12. CASE \/ StartTaskAccept(h) \/ MarkUserActive(h) \/ Enqueue(h)
            \/ CommitRunning(h) \/ CommitQueued(h) \/ CommitFailed(h)
            \/ CancelDecide(h) \/ CancelWait(h) \/ CommitCancelled(h)
            \/ CommitDeleted(h) \/ CommitRepair(h) \/ CancelAgain(h)
            \/ HandlerRedisFault(h)
  <2>1. UNCHANGED globalActive
    BY <1>12 DEF StartTaskAccept, MarkUserActive, Enqueue, CommitRunning, CommitQueued,
                 CommitFailed, Commit, CancelDecide, CancelWait, CommitCancelled,
                 CommitDeleted, CommitRepair, CancelAgain, HandlerRedisFault
  <2>2. \/ Done(h)
        \/ \E pc \in {"quota", "commit_running", "commit_queued", "commit_failed",
                      "cancel_wait", "cancel_end", "commit_cancelled"} : Goto(h, pc)
    BY <1>12 DEF StartTaskAccept, MarkUserActive, Enqueue, CommitRunning, CommitQueued,
                 CommitFailed, Commit, CancelDecide, CancelWait, CommitCancelled,
                 CommitDeleted, CommitRepair, CancelAgain, HandlerRedisFault
  <2>3. Cardinality(Starting)' <= Cardinality(Starting)
    BY <2>2, StartingMoves DEF TypeOK
  <2>4. QED
    BY <1>3, <1>6, <2>1, <2>3
<1>13. QED
  BY <1>7, <1>8, <1>9, <1>10, <1>11, <1>12 DEF Serve

LEMMA ProcessorRoom ==
    ASSUME TypeOK, TypeOK', queueOn, Room,
           \/ ProcessorStep \/ ProcessorRedisFault
           \/ \E late \in SUBSET Sessions : TimeoutScan(late)
    PROVE  Room'
<1>1. UNCHANGED Starting
  BY DEF ProcessorStep, Peek, ProcessorQuota, Dequeue, LoadSession, StartQueued,
         IncrementGlobal, ProcessorMarkActive, IncrementDaily, ProcessorSpawn, Undo,
         TimeoutRemove, TimeoutCommit, ProcessorRedisFault, TimeoutScan, Starting
<1>2. /\ globalActive \in Nat /\ globalActive' \in Nat /\ GlobalMax \in Nat
      /\ Approaching \in {0, 1} /\ Approaching' \in {0, 1}
  BY RoomTypes DEF TypeOK, AgentTypes, Approaching
<1>3. /\ Cardinality(Starting) \in Nat /\ Cardinality(Handlers) \in Nat
      /\ Cardinality(Starting)' = Cardinality(Starting)
      /\ Cardinality(Starting) <= Cardinality(Handlers)
  BY <1>1, StartingFinite
<1>4. globalActive + Cardinality(Starting) + Approaching <= GlobalMax + Cardinality(Handlers)
  BY DEF Room
<1>5. ASSUME globalActive' <= globalActive, Approaching = 1 \/ Approaching' = 0 PROVE Room'
  BY <1>2, <1>3, <1>4, <1>5 DEF Room
<1>6. ASSUME NEW pc \in ProcessorPC, ProcessorGoto(pc)
      PROVE  Approaching' = IF pc \in {"scard", "daily", "dequeue", "load", "commit",
                                       "increment"} THEN 1 ELSE 0
  BY <1>6 DEF ProcessorGoto, Approaching, TypeOK, ProcessorTypes
<1>7. ASSUME processor' = IdleProcessor PROVE Approaching' = 0
  BY <1>7 DEF Approaching, IdleProcessor
<1>8. CASE ProcessorQuota
  <2>1. UNCHANGED globalActive
    BY <1>8 DEF ProcessorQuota
  <2>2. CASE ProcessorAt("quota")
    <3>1. CASE globalActive >= GlobalMax
      <4>1. processor' = IdleProcessor
        BY <1>8, <2>2, <3>1 DEF ProcessorQuota, ProcessorAt
      <4>2. QED
        BY <1>2, <1>5, <1>7, <2>1, <4>1
    <3>2. CASE ~(globalActive >= GlobalMax)
      BY <1>2, <1>3, <2>1, <3>2 DEF Room
    <3>3. QED
      BY <3>1, <3>2
  <2>3. CASE ProcessorAt("scard") \/ ProcessorAt("daily")
    BY <1>2, <1>5, <2>1, <2>3 DEF ProcessorAt, Approaching
  <2>4. QED
    BY <1>8, <2>2, <2>3 DEF ProcessorQuota
<1>9. CASE IncrementGlobal
  <2>1. globalActive' = globalActive + 1 /\ Approaching = 1
    BY <1>9 DEF IncrementGlobal, ProcessorAt, Approaching
  <2>2. Approaching' = 0
    BY <1>6, <1>9 DEF IncrementGlobal, ProcessorPC
  <2>3. QED
    BY <1>2, <1>3, <1>4, <2>1, <2>2 DEF Room
<1>10. CASE Dequeue \/ LoadSession \/ StartQueued
  <2>1. Approaching = 1
    BY <1>10 DEF Dequeue, LoadSession, StartQueued, ProcessorAt, Approaching
  <2>2. UNCHANGED globalActive
    BY <1>10 DEF Dequeue, LoadSession, StartQueued
  <2>3. QED
    BY <1>2, <1>5, <2>1, <2>2
<1>11. CASE Peek
  BY <1>2, <1>5, <1>11 DEF Peek, IdleProcessor, Approaching
<1>12. CASE ProcessorMarkActive \/ IncrementDaily \/ ProcessorSpawn
  <2>1. Approaching' = 0
    BY <1>6, <1>7, <1>12 DEF ProcessorMarkActive, IncrementDaily, ProcessorSpawn, ProcessorPC
  <2>2. QED
    BY <1>2, <1>5, <1>12, <2>1 DEF ProcessorMarkActive, IncrementDaily, ProcessorSpawn
<1>13. CASE Undo
  <2>1. Approaching' = 0
    BY <1>6, <1>7, <1>13 DEF Undo, ProcessorPC
  <2>2. globalActive' <= globalActive
    BY <1>2, <1>13 DEF Undo, Decrement
  <2>3. QED
    BY <1>5, <2>1, <2>2
<1>14. CASE TimeoutCommit \/ ProcessorRedisFault
  <2>1. Approaching' = 0
    BY <1>6, <1>7, <1>14 DEF TimeoutCommit, ProcessorRedisFault, ProcessorPC
  <2>2. QED
    BY <1>2, <1>5, <1>14, <2>1 DEF TimeoutCommit, ProcessorRedisFault
<1>15. ASSUME NEW s \in Sessions, TimeoutRemove(s) PROVE Room'
  <2>1. Approaching' = 0 /\ UNCHANGED globalActive
    BY <1>15 DEF TimeoutRemove, ProcessorAt, Approaching, TypeOK, ProcessorTypes
  <2>2. QED
    BY <1>2, <1>5, <2>1
<1>16. ASSUME NEW late \in SUBSET Sessions, TimeoutScan(late) PROVE Room'
  <2>1. Approaching' = 0 /\ UNCHANGED globalActive
    BY <1>16 DEF TimeoutScan, IdleProcessor, Approaching
  <2>2. QED
    BY <1>2, <1>5, <2>1
<1>17. QED
  BY <1>8, <1>9, <1>10, <1>11, <1>12, <1>13, <1>14, <1>15, <1>16 DEF ProcessorStep

LEMMA AgentRoom ==
    ASSUME TypeOK, TypeOK', NEW s \in Sessions, Room,
           AgentStep(s) \/ AgentEstablish(s) \/ MarkUserInactive(s)
    PROVE  Room'
<1>1. UNCHANGED <<handler, processor, queueOn>>
  BY DEF AgentStep, AgentEnter, AgentFinish, AgentCommit, AgentCancelled, AgentCleanup,
         AgentEstablish, MarkUserInactive, lifeVars
<1>2. UNCHANGED <<Starting, Approaching>>
  BY <1>1 DEF Starting, Approaching
<1>3. UNCHANGED globalActive \/ Decrement
  BY DEF AgentStep, AgentEnter, AgentFinish, AgentCommit, AgentCancelled, AgentCleanup,
         AgentEstablish, MarkUserInactive
<1>4. globalActive \in Nat /\ globalActive' \in Nat /\ Approaching \in {0, 1} /\ GlobalMax \in Nat
  BY RoomTypes DEF TypeOK, AgentTypes
<1>5. globalActive' <= globalActive
  BY <1>3, <1>4 DEF Decrement
<1>6. Cardinality(Starting) \in Nat /\ Cardinality(Handlers) \in Nat
  BY StartingFinite
<1>7. QED
  BY <1>1, <1>2, <1>4, <1>5, <1>6 DEF Room

\* The slots taken and the slots promised never exceed the limit by more than
\* the number of requests that are served at the same time.
THEOREM RoomInvariant == Spec => []Room
<1>1. Init => Room
  <2> SUFFICES ASSUME Init PROVE Room
    OBVIOUS
  <2>1. globalActive = 0 /\ Approaching = 0
    BY DEF Init, Approaching, IdleProcessor
  <2>2. QED
    BY <2>1, StartingFinite, SchedulerAssumption DEF Room
<1>2. TypeOK /\ TypeOK' /\ RowInv /\ Room /\ [Next]_vars => Room'
  <2> SUFFICES ASSUME TypeOK, TypeOK', RowInv, Room, [Next]_vars, queueOn' PROVE Room'
    BY DEF Room
  <2>1. CASE RecoverCommit
    <3>1. globalActive' = 0 /\ processor' = IdleProcessor
      BY <2>1 DEF RecoverCommit, RowInv, RecoveryIsAlone
    <3>2. Approaching' = 0
      BY <3>1 DEF Approaching, IdleProcessor
    <3>3. QED
      BY <3>1, <3>2, StartingFinite, SchedulerAssumption DEF Room
  <2>2. CASE UNCHANGED vars
    BY <2>2 DEF Room, Starting, Approaching, vars, lifeVars
  <2>3. CASE Crash \/ Exit \/ StopProcessor \/ CancelAgents \/ RecoverAbort
    BY <2>3 DEF Crash, Exit, EndProcess, StopProcessor, CancelAgents, RecoverAbort, RowInv,
                RecoveryIsAlone
  <2>4. ASSUME NEW s \in Sessions, RecoverSession(s) PROVE Room'
    BY <2>4 DEF RecoverSession, RowInv, RecoveryIsAlone
  <2>5. ASSUME NEW h \in Handlers,
               Request(h) \/ Serve(h) \/ CancelAgain(h) \/ HandlerRedisFault(h)
        PROVE  Room'
    <3>1. queueOn
      BY <2>5
      DEF Request, RunTask, StartTask, CancelTask, DeleteSession, ListSessions, Serve,
          StartTaskAccept, CheckGlobal, CheckUser, CheckDaily, StartNow, MarkUserActive,
          Enqueue, CommitRunning, CommitQueued, CommitFailed, CommitCancelled,
          CommitRepair, Commit, CancelDecide, CancelWait, CancelAgain, CommitDeleted,
          ListTerminal, HandlerRedisFault, lifeVars
    <3>2. QED
      BY <2>5, <3>1, HandlerRoom
  <2>6. ASSUME NEW s \in Sessions,
               AgentStep(s) \/ AgentEstablish(s) \/ MarkUserInactive(s)
        PROVE  Room'
    BY <2>6, AgentRoom
  <2>7. CASE \/ ProcessorStep \/ ProcessorRedisFault
             \/ \E late \in SUBSET Sessions : TimeoutScan(late)
    <3>1. queueOn
      BY <2>7, ProcessorAccount
    <3>2. QED
      BY <2>7, <3>1, ProcessorRoom
  <2>8. QED
    BY <2>1, <2>2, <2>3, <2>4, <2>5, <2>6, <2>7 DEF Next, RecoverStep
<1>3. QED
  BY <1>1, <1>2, TypeCorrect, RowInvariant, PTL DEF Spec

\* As long as no session is deleted, the number of tasks exceeds the global
\* limit by at most one per request that is served at the same time, however
\* the checks and the awaits after them interleave with the processor.
THEOREM OvershootBounded == Spec => []OvershootBound
<1>1. TypeOK /\ CountExact /\ Room => OvershootBound
  <2> SUFFICES ASSUME TypeOK, CountExact, Room, queueOn, "delete" \notin Endpoints
               PROVE  Cardinality(RunningTasks) <= GlobalMax + Cardinality(Handlers)
    BY DEF OvershootBound
  <2>1. globalActive = Cardinality(RunningTasks) + Claimed
    BY DEF CountExact
  <2>2. globalActive + Cardinality(Starting) + Approaching
            <= GlobalMax + Cardinality(Handlers)
    BY DEF Room
  <2>3. Cardinality(Starting) \in Nat /\ Cardinality(Handlers) \in Nat
    BY StartingFinite
  <2>4. QED
    BY <2>1, <2>2, <2>3, CountTypes, RoomTypes, TasksFinite
<1>2. QED
  BY <1>1, TypeCorrect, CountsExactly, RoomInvariant, PTL
-----------------------------------------------------------------------------
(* Sessions that are shown as running *)

Healthy == ~RedisFaults /\ ~Aged

\* Whoever asks for the status of s finds it out: it has a terminal event, or it
\* was deleted, or its agent was cancelled before it had said so.
Settled(s) == terminal[s] # "none" \/ status[s] = "deleted" \/ s \in silenced

\* The processor has written that s is running, and has not yet started it or
\* taken that back.
Launching(s) ==
    /\ processor.session = s
    /\ processor.pc \in {"increment", "sadd", "count", "start", "undo", "undo_srem", "undo_status"}

\* What is still to be written is no status of a running session, but by a
\* handler that has started it.
NothingElseRuns ==
    /\ \A s \in Sessions : terminal[s] # "running" /\ agent[s].final # "running"
    /\ \A h \in Handlers : handler[h].verdict # "running"

\* Who works on a session has seen its row.
RowWasThere ==
    /\ \A s \in RunningTasks : status[s] # "none"
    /\ \A h \in Handlers : handler[h].pc # "idle" => status[handler[h].session] # "none"
    /\ processor.pc \in {"commit", "increment", "sadd", "count", "start"} =>
          status[processor.session] # "none"

EndsAreSettled ==
    /\ \A s \in Sessions : agent[s].pc \in {"finishing", "committed"} => Settled(s)
    /\ \A h \in Handlers :
          handler[h].pc \in {"sadd", "commit_running"} =>
             handler[h].session \in RunningTasks \/ Settled(handler[h].session)

RunningIsHeld ==
    \A s \in Sessions :
        status[s] = "running" =>
            /\ server = "up" /\ queueOn => s \in RunningTasks \/ Settled(s) \/ Launching(s)
            /\ server = "recovering" => s \in recovery.todo \/ recovery.staged[s] # "none"

Repair == NothingElseRuns /\ RowWasThere /\ EndsAreSettled /\ RunningIsHeld
RepairInv == Healthy => Repair

\* A step of handler h that changes nothing else.
LEMMA RepairMoves ==
    ASSUME TypeOK, Repair, NEW h \in Handlers,
           \A g \in Handlers \ {h} : handler'[g] = handler[g],
           handler'[h].verdict # "running",
           handler'[h].pc # "idle" => status[handler'[h].session] # "none",
           handler'[h].pc \in {"sadd", "commit_running"} =>
              handler'[h].session \in RunningTasks \/ Settled(handler'[h].session),
           UNCHANGED <<status, terminal, agent, silenced, processor, lifeVars>>
    PROVE  Repair'
<1> USE DEF Repair, TypeOK
<1>1. NothingElseRuns'
  BY DEF NothingElseRuns, HandlerTypes
<1>2. RowWasThere'
  BY DEF RowWasThere, RunningTasks, HandlerTypes
<1>3. EndsAreSettled'
  BY DEF EndsAreSettled, RunningTasks, Settled, HandlerTypes
<1>4. RunningIsHeld'
  BY DEF RunningIsHeld, RunningTasks, Settled, Launching, lifeVars
<1>5. QED
  BY <1>1, <1>2, <1>3, <1>4

\* A session that is not new keeps being settled when its status is written.
LEMMA SettledStays ==
    ASSUME TypeOK, NEW s \in Sessions, NEW new \in Statuses \ Gone,
           status' = IF Exists(s) THEN [status EXCEPT ![s] = new] ELSE status
    PROVE  \A r \in Sessions :
              /\ status[r] = "deleted" => status'[r] = "deleted"
              /\ status[r] # "none" => status'[r] # "none"
              /\ status'[r] = status[r] \/ (r = s /\ status'[r] = new)
BY DEF TypeOK, DbTypes, Exists, Gone

\* The last commit of a request.
LEMMA RepairCommit ==
    ASSUME TypeOK, Repair, NEW h \in Handlers, NEW pc \in HandlerPC \ {"idle"},
           NEW new \in Statuses \ Gone, Commit(h, pc, new),
           new = "running" => pc = "commit_running"
    PROVE  Repair'
<1> USE DEF Repair, TypeOK
<1> DEFINE s == Session(h)
<1>1. s \in Sessions /\ handler[h].pc = pc
  BY HandlerSession DEF Commit, At
<1>2. UNCHANGED <<terminal, agent, silenced, processor, lifeVars>> /\ Done(h)
  BY DEF Commit, lifeVars, histVars
<1>3. \A r \in Sessions :
        /\ status[r] = "deleted" => status'[r] = "deleted"
        /\ status[r] # "none" => status'[r] # "none"
        /\ status'[r] = status[r] \/ (r = s /\ status'[r] = new)
  <2>1. CASE handler[h].loaded = new
    BY <2>1 DEF Commit, Flush
  <2>2. CASE handler[h].loaded # new
    BY <1>1, <2>2, SettledStays DEF Commit, Flush
  <2>3. QED
    BY <2>1, <2>2
<1>4. NothingElseRuns'
  BY <1>2 DEF NothingElseRuns, HandlerTypes, Done, Idle
<1>5. RowWasThere'
  BY <1>2, <1>3 DEF RowWasThere, RunningTasks, HandlerTypes, ProcessorTypes, Done, Idle
<1>6. \A r \in Sessions : Settled(r) => Settled(r)'
  BY <1>2, <1>3 DEF Settled
<1>7. EndsAreSettled'
  BY <1>2, <1>6 DEF EndsAreSettled, RunningTasks, HandlerTypes, Done, Idle
<1>8. RunningIsHeld'
  <2>1. ASSUME NEW r \in Sessions, status'[r] = "running"
        PROVE  /\ server = "up" /\ queueOn => r \in RunningTasks \/ Settled(r) \/ Launching(r)
               /\ server = "recovering" => r \in recovery.todo \/ recovery.staged[r] # "none"
    <3>1. CASE status[r] = "running"
      BY <3>1 DEF RunningIsHeld
    <3>2. CASE status[r] # "running"
      <4>1. r = s /\ pc = "commit_running" /\ server = "up"
        BY <1>3, <2>1, <3>2 DEF Commit, At
      <4>2. r \in RunningTasks \/ Settled(r)
        BY <1>1, <4>1 DEF EndsAreSettled, Session
      <4>3. QED
        BY <4>1, <4>2
    <3>3. QED
      BY <3>1, <3>2
  <2>2. UNCHANGED RunningTasks /\ \A r \in Sessions : Launching(r) => Launching(r)'
    BY <1>2 DEF RunningTasks, Launching
  <2>3. QED
    BY <1>2, <1>6, <2>1, <2>2 DEF RunningIsHeld, lifeVars
<1>9. QED
  BY <1>4, <1>5, <1>7, <1>8

\* A request that arrives.
LEMMA RepairRequest ==
    ASSUME TypeOK, Repair, NEW h \in Handlers, Request(h)
    PROVE  Repair'
<1> USE DEF Repair, TypeOK
<1>1. ASSUME NEW s \in Sessions,
             StartTask(h, s) \/ CancelTask(h, s) \/ DeleteSession(h, s) \/ ListSessions(h, s)
      PROVE  Repair'
  <2>1. PICK pc \in {"is_running", "cancel", "commit_deleted", "list"} :
           handler' = [handler EXCEPT ![h] = [pc |-> pc, session |-> s,
                                              loaded |-> status[s], verdict |-> "none"]]
    BY <1>1 DEF StartTask, CancelTask, DeleteSession, ListSessions, Arrive
  <2>2. status[s] # "none"
    BY <1>1 DEF StartTask, CancelTask, DeleteSession, ListSessions, Exists
  <2>3. UNCHANGED <<status, terminal, agent, silenced, processor, lifeVars>>
    BY <1>1 DEF StartTask, CancelTask, DeleteSession, ListSessions, dbVars
  <2>4. QED
    BY <2>1, <2>2, <2>3, RepairMoves DEF HandlerTypes
<1>2. ASSUME NEW s \in Sessions, RunTask(h, s) PROVE Repair'
  <2>1. /\ status[s] = "none" /\ status' = [status EXCEPT ![s] = "pending"]
        /\ handler' = [handler EXCEPT ![h] = [pc |-> "quota", session |-> s,
                                              loaded |-> "pending", verdict |-> "none"]]
        /\ UNCHANGED <<terminal, agent, silenced, processor, lifeVars>>
    BY <1>2 DEF RunTask, Arrive
  <2>2. \A r \in Sessions : Settled(r) => Settled(r)'
    BY <2>1 DEF Settled, DbTypes
  <2>3. NothingElseRuns'
    BY <2>1 DEF NothingElseRuns, HandlerTypes
  <2>4. RowWasThere'
    BY <2>1 DEF RowWasThere, RunningTasks, HandlerTypes, ProcessorTypes, DbTypes
  <2>5. EndsAreSettled'
    BY <2>1, <2>2 DEF EndsAreSettled, RunningTasks, HandlerTypes
  <2>6. RunningIsHeld'
    BY <2>1, <2>2 DEF RunningIsHeld, RunningTasks, Launching, DbTypes, lifeVars
  <2>7. QED
    BY <2>3, <2>4, <2>5, <2>6
<1>3. QED
  BY <1>1, <1>2 DEF Request

\* A cancellation leaves every agent that has ended settled.
LEMMA RepairInterrupt ==
    ASSUME TypeOK, NEW s \in RunningTasks, Interrupt(s), NothingElseRuns,
           \A r \in Sessions : agent[r].pc \in {"finishing", "committed"} => Settled(r),
           UNCHANGED <<terminal, status>>
    PROVE  /\ RunningTasks' = RunningTasks
           /\ \A r \in Sessions : Settled(r) => Settled(r)'
           /\ \A r \in Sessions : agent'[r].pc \in {"finishing", "committed"} => Settled(r)'
           /\ \A r \in Sessions : agent'[r].final # "running"
<1> USE DEF TypeOK, AgentTypes
<1>1. s \in Sessions /\ agent[s].pc # "none"
  BY DEF RunningTasks
<1>2. PICK a \in Interrupted(agent[s]) :
        \A r \in Sessions : agent'[r] = IF r = s THEN a ELSE agent[r]
  BY <1>1 DEF Interrupt
<1>3. \A r \in Sessions : Settled(r) => Settled(r)'
  BY DEF Settled, Interrupt
<1>4. /\ a.pc # "none" /\ a.final # "running"
      /\ a.pc \in {"finishing", "committed"} =>
            agent[s].pc \in {"finishing", "cancelling", "committed"}
  BY <1>1, <1>2, InterruptedIs DEF NothingElseRuns
<1>5. agent[s].pc = "cancelling" => s \in silenced'
  BY <1>1 DEF Interrupt, Cancelling
<1>6. QED
  BY <1>1, <1>2, <1>3, <1>4, <1>5 DEF RunningTasks, Settled, NothingElseRuns

\* The steps of a request.
LEMMA RepairServe ==
    ASSUME TypeOK, RowInv, Repair, NEW h \in Handlers, Serve(h) \/ CancelAgain(h)
    PROVE  Repair'
<1> USE DEF Repair, TypeOK
<1> DEFINE s == Session(h)
<1>1. handler[h].pc # "idle" /\ s \in Sessions /\ status[s] # "none" /\ server = "up"
  <2>1. handler[h].pc # "idle" /\ server = "up"
    BY DEF Serve, CancelAgain, StartTaskAccept, CheckGlobal, CheckUser, CheckDaily, StartNow,
           MarkUserActive, Enqueue, CommitRunning, CommitQueued, CommitFailed, CancelDecide,
           CancelWait, CommitCancelled, CommitDeleted, ListTerminal, CommitRepair, Commit, At
  <2>2. QED
    BY <2>1, HandlerSession DEF RowWasThere, Session
<1>2. CASE \/ StartTaskAccept(h) \/ CheckGlobal(h) \/ CheckUser(h) \/ CheckDaily(h)
           \/ MarkUserActive(h) \/ Enqueue(h) \/ CancelWait(h)
  <2>1. UNCHANGED <<status, terminal, agent, silenced, processor, lifeVars>>
    BY <1>2 DEF StartTaskAccept, CheckGlobal, CheckUser, CheckDaily, MarkUserActive, Enqueue,
                CancelWait, dbVars, histVars
  <2>2. \/ Done(h)
        \/ \E pc \in HandlerPC :
              Goto(h, pc) /\ (pc \in {"sadd", "commit_running"} => handler[h].pc = "sadd")
    BY <1>2 DEF StartTaskAccept, CheckGlobal, CheckUser, CheckDaily, MarkUserActive, Enqueue,
                CancelWait, HandlerPC, At
  <2>3. CASE Done(h)
    BY <2>1, <2>3, RepairMoves DEF Done, Idle, HandlerTypes
  <2>4. ASSUME NEW pc \in HandlerPC, Goto(h, pc),
               pc \in {"sadd", "commit_running"} => handler[h].pc = "sadd"
        PROVE  Repair'
    <3>1. /\ \A g \in Handlers \ {h} : handler'[g] = handler[g]
          /\ handler'[h].pc = pc /\ handler'[h].session = s /\ handler'[h].verdict # "running"
      BY <2>4 DEF Goto, Session, HandlerTypes, NothingElseRuns
    <3>2. pc \in {"sadd", "commit_running"} => s \in RunningTasks \/ Settled(s)
      BY <2>4 DEF EndsAreSettled, Session
    <3>3. QED
      BY <1>1, <2>1, <3>1, <3>2, RepairMoves
  <2>5. QED
    BY <2>2, <2>3, <2>4
<1>3. CASE StartNow(h)
  <2>1. CASE s \in RunningTasks
    <3>1. UNCHANGED <<status, terminal, agent, silenced, processor, lifeVars>> /\ Done(h)
      BY <1>3, <2>1 DEF StartNow, dbVars
    <3>2. QED
      BY <3>1, RepairMoves DEF Done, Idle, HandlerTypes
  <2>2. CASE s \notin RunningTasks
    <3>1. /\ Spawn(s) /\ UNCHANGED <<status, terminal, processor, lifeVars>>
          /\ \E pc \in {"sadd", "commit_running"} : Goto(h, pc)
      BY <1>3, <2>2 DEF StartNow, dbVars
    <3>2. RunningTasks' = RunningTasks \cup {s}
      BY <1>1, <3>1 DEF Spawn, RunningTasks, AgentTypes
    <3>3. \A r \in Sessions : Settled(r) => Settled(r)' \/ r = s
      BY <3>1 DEF Settled, Spawn
    <3>4. NothingElseRuns'
      BY <1>1, <3>1 DEF NothingElseRuns, Spawn, Goto, HandlerTypes, AgentTypes
    <3>5. RowWasThere'
      BY <1>1, <3>1, <3>2 DEF RowWasThere, Goto, HandlerTypes
    <3>6. EndsAreSettled'
      BY <1>1, <3>1, <3>2, <3>3 DEF EndsAreSettled, Spawn, Goto, Session, HandlerTypes, AgentTypes
    <3>7. RunningIsHeld'
      BY <3>1, <3>2, <3>3 DEF RunningIsHeld, Launching, lifeVars
    <3>8. QED
      BY <3>4, <3>5, <3>6, <3>7
  <2>3. QED
    BY <2>1, <2>2
<1>4. CASE CommitRunning(h) \/ CommitQueued(h) \/ CommitFailed(h) \/ CommitCancelled(h)
  BY <1>4, RepairCommit DEF CommitRunning, CommitQueued, CommitFailed, CommitCancelled,
                            HandlerPC, Statuses, Gone
<1>5. CASE CommitRepair(h)
  <2>1. handler[h].verdict \in Statuses \ Gone /\ handler[h].verdict # "running"
    BY <1>5 DEF HandlerTypes, RowInv, HandlersWriteStatuses, NothingElseRuns, CommitRepair,
                Commit, At
  <2>2. QED
    BY <1>5, <2>1, RepairCommit DEF CommitRepair, HandlerPC
<1>6. CASE CommitDeleted(h)
  <2>1. /\ status' = [status EXCEPT ![s] = "deleted"]
        /\ terminal' = [terminal EXCEPT ![s] = "none"]
        /\ Done(h) /\ UNCHANGED <<agent, silenced, processor, lifeVars>>
    BY <1>6 DEF CommitDeleted, histVars
  <2>2. \A r \in Sessions : Settled(r) => Settled(r)'
    BY <2>1 DEF Settled, DbTypes
  <2>3. NothingElseRuns'
    BY <2>1 DEF NothingElseRuns, Done, Idle, HandlerTypes, DbTypes
  <2>4. RowWasThere'
    BY <2>1 DEF RowWasThere, RunningTasks, Done, Idle, HandlerTypes, ProcessorTypes, DbTypes
  <2>5. EndsAreSettled'
    BY <2>1, <2>2 DEF EndsAreSettled, RunningTasks, Done, Idle, HandlerTypes
  <2>6. RunningIsHeld'
    BY <2>1, <2>2 DEF RunningIsHeld, RunningTasks, Launching, DbTypes, lifeVars
  <2>7. QED
    BY <2>3, <2>4, <2>5, <2>6
<1>7. CASE ListTerminal(h)
  <2>1. UNCHANGED <<status, terminal, agent, silenced, processor, lifeVars>>
    BY <1>7 DEF ListTerminal, dbVars, histVars
  <2>2. CASE Done(h)
    BY <2>1, <2>2, RepairMoves DEF Done, Idle, HandlerTypes
  <2>3. CASE handler' = [handler EXCEPT ![h].pc = "commit_repair",
                                        ![h].verdict = terminal[s]]
    <3>1. /\ \A g \in Handlers \ {h} : handler'[g] = handler[g]
          /\ handler'[h].pc = "commit_repair"
          /\ handler'[h].session = s /\ handler'[h].verdict = terminal[s]
      BY <2>3 DEF Session, HandlerTypes
    <3>2. terminal[s] # "running"
      BY <1>1 DEF NothingElseRuns
    <3>3. QED
      BY <1>1, <2>1, <3>1, <3>2, RepairMoves
  <2>4. QED
    BY <1>7, <2>2, <2>3 DEF ListTerminal
<1>8. CASE CancelDecide(h) /\ s \notin RunningTasks
  <2>1. UNCHANGED <<status, terminal, agent, silenced, processor, lifeVars>>
    BY <1>8 DEF CancelDecide, dbVars
  <2>2. CASE Done(h)
    BY <2>1, <2>2, RepairMoves DEF Done, Idle, HandlerTypes
  <2>3. CASE Goto(h, "commit_cancelled")
    <3>1. /\ \A g \in Handlers \ {h} : handler'[g] = handler[g]
          /\ handler'[h].pc = "commit_cancelled"
          /\ handler'[h].session = s /\ handler'[h].verdict # "running"
      BY <2>3 DEF Goto, Session, HandlerTypes, NothingElseRuns
    <3>2. QED
      BY <1>1, <2>1, <3>1, RepairMoves
  <2>4. QED
    BY <1>8, <2>2, <2>3 DEF CancelDecide
<1>9. CASE (CancelDecide(h) \/ CancelAgain(h)) /\ s \in RunningTasks
  <2>1. /\ Interrupt(s) /\ UNCHANGED <<status, terminal, processor, lifeVars>>
        /\ \E pc \in {"cancel_wait", "cancel_end"} : Goto(h, pc)
    BY <1>9 DEF CancelDecide, CancelAgain, dbVars
  <2>2. /\ RunningTasks' = RunningTasks
        /\ \A r \in Sessions : Settled(r) => Settled(r)'
        /\ \A r \in Sessions : agent'[r].pc \in {"finishing", "committed"} => Settled(r)'
        /\ \A r \in Sessions : agent'[r].final # "running"
    BY <1>9, <2>1, RepairInterrupt DEF EndsAreSettled
  <2>3. NothingElseRuns'
    BY <2>1, <2>2 DEF NothingElseRuns, Goto, HandlerTypes
  <2>4. RowWasThere'
    BY <1>1, <2>1, <2>2 DEF RowWasThere, Goto, HandlerTypes
  <2>5. EndsAreSettled'
    BY <2>1, <2>2 DEF EndsAreSettled, Goto, HandlerTypes
  <2>6. RunningIsHeld'
    BY <2>1, <2>2 DEF RunningIsHeld, Launching, lifeVars
  <2>7. QED
    BY <2>3, <2>4, <2>5, <2>6
<1>10. CancelAgain(h) => s \in RunningTasks
  BY DEF CancelAgain
<1>11. QED
  BY <1>2, <1>3, <1>4, <1>5, <1>6, <1>7, <1>8, <1>9, <1>10 DEF Serve

\* The steps of an agent.
LEMMA RepairAgent ==
    ASSUME TypeOK, RowInv, Repair, NEW s \in Sessions,
           AgentStep(s) \/ AgentEstablish(s) \/ MarkUserInactive(s)
    PROVE  Repair'
<1> USE DEF Repair, TypeOK
<1>1. server # "recovering" /\ UNCHANGED <<handler, processor, lifeVars, silenced>>
  BY DEF AgentStep, AgentEnter, AgentFinish, AgentCommit, AgentCancelled, AgentCleanup,
         AgentEstablish, MarkUserInactive, Alive, histVars
\* The steps keep these facts; the rest follows from them.
<1> DEFINE Kept ==
      /\ \A r \in Sessions : Settled(r) => Settled(r)'
      /\ \A r \in Sessions : status[r] # "none" => status'[r] # "none"
      /\ \A r \in Sessions : status'[r] = "running" => status[r] = "running"
      /\ RunningTasks' \subseteq RunningTasks
      /\ \A r \in RunningTasks : r \in RunningTasks' \/ Settled(r)
      /\ \A r \in Sessions : agent'[r].pc \in {"finishing", "committed"} => Settled(r)'
      /\ \A r \in Sessions : terminal'[r] # "running" /\ agent'[r].final # "running"
<1>2. ASSUME Kept PROVE Repair'
  <2>1. NothingElseRuns'
    BY <1>1, <1>2 DEF NothingElseRuns
  <2>2. \A h \in Handlers : handler[h].pc # "idle" => handler[h].session \in Sessions
    BY DEF HandlerTypes
  <2>3. RowWasThere'
    BY <1>1, <1>2, <2>2 DEF RowWasThere, RunningTasks, ProcessorTypes
  <2>4. EndsAreSettled'
    BY <1>1, <1>2, <2>2 DEF EndsAreSettled
  <2>5. RunningIsHeld'
    BY <1>1, <1>2 DEF RunningIsHeld, Launching, lifeVars
  <2>6. QED
    BY <2>1, <2>3, <2>4, <2>5
<1>3. CASE AgentEnter(s)
  <2>1. Kept
    BY <1>1, <1>3 DEF AgentEnter, Move, Alive, RunningTasks, Settled, dbVars, AgentTypes,
                      NothingElseRuns, EndsAreSettled
  <2>2. QED
    BY <1>2, <2>1
<1>4. ASSUME NEW outcome \in Statuses, NEW final \in Statuses, AgentFinish(s, outcome, final)
      PROVE  Repair'
  <2>1. outcome \in {"complete", "failed"} /\ final # "running"
    BY <1>4, SchedulerAssumption DEF AgentFinish
  <2>2. Kept
    BY <1>1, <1>4, <2>1 DEF AgentFinish, Move, Alive, RunningTasks, Settled, AgentTypes,
                            DbTypes, NothingElseRuns, EndsAreSettled
  <2>3. QED
    BY <1>2, <2>2
<1>5. CASE AgentCommit(s)
  <2>1. agent[s].pc = "finishing" /\ agent[s].final \in Statuses \ Gone
    BY <1>5 DEF AgentCommit, Alive, RowInv, AgentsWriteStatuses, AgentTypes
  <2>2. /\ \A r \in Sessions :
              /\ status[r] = "deleted" => status'[r] = "deleted"
              /\ status[r] # "none" => status'[r] # "none"
              /\ status'[r] = status[r] \/ (r = s /\ status'[r] = agent[s].final)
    BY <1>5, <2>1, SettledStays DEF AgentCommit
  <2>3. Kept
    BY <1>1, <1>5, <2>1, <2>2 DEF AgentCommit, Move, RunningTasks, Settled, AgentTypes,
                                  NothingElseRuns, EndsAreSettled
  <2>4. QED
    BY <1>2, <2>3
<1>6. CASE AgentCancelled(s)
  <2>1. /\ \A r \in Sessions :
              /\ status[r] = "deleted" => status'[r] = "deleted"
              /\ status[r] # "none" => status'[r] # "none"
              /\ status'[r] = status[r] \/ (r = s /\ status'[r] = "cancelled")
    BY <1>6, SettledStays DEF AgentCancelled, Statuses, Gone
  <2>2. status[s] # "none"
    BY <1>6 DEF AgentCancelled, Alive, RowWasThere, RunningTasks
  <2>3. Kept
    BY <1>1, <1>6, <2>1, <2>2
    DEF AgentCancelled, Move, Alive, RunningTasks, Settled, Exists, AgentTypes, DbTypes,
        NothingElseRuns, EndsAreSettled
  <2>4. QED
    BY <1>2, <2>3
<1>7. CASE AgentCleanup(s)
  <2>1. Kept
    BY <1>1, <1>7 DEF AgentCleanup, Alive, NoAgent, RunningTasks, Settled, dbVars, AgentTypes,
                      NothingElseRuns, EndsAreSettled
  <2>2. QED
    BY <1>2, <2>1
<1>8. CASE AgentEstablish(s) \/ MarkUserInactive(s)
  <2>1. UNCHANGED <<agent, terminal, status>>
    BY <1>8 DEF AgentEstablish, MarkUserInactive, dbVars
  <2>2. Kept
    BY <1>1, <2>1 DEF RunningTasks, Settled, NothingElseRuns, EndsAreSettled
  <2>3. QED
    BY <1>2, <2>2
<1>9. QED
  BY <1>3, <1>4, <1>5, <1>6, <1>7, <1>8 DEF AgentStep

\* The head of the queue is looked at, and taken.
LEMMA PeekMoves ==
    ASSUME Peek
    PROVE  processor'.pc = "quota"
<1>1. PICK e \in Minimal :
        processor' = [IdleProcessor EXCEPT !.pc = "quota", !.session = e.session]
  BY DEF Peek
<1>2. QED
  BY <1>1 DEF IdleProcessor

LEMMA DequeueMoves ==
    ASSUME TypeOK, Dequeue
    PROVE  processor'.pc \in {"load", "idle"}
<1>1. CASE processor' = IdleProcessor
  BY <1>1 DEF IdleProcessor
<1>2. CASE \E e \in Minimal :
              processor' = [processor EXCEPT !.pc = "load", !.session = e.session]
  <2>1. PICK e \in Minimal :
          processor' = [processor EXCEPT !.pc = "load", !.session = e.session]
    BY <1>2
  <2>2. QED
    BY <2>1 DEF TypeOK, ProcessorTypes
<1>3. QED
  BY <1>1, <1>2 DEF Dequeue

\* The steps of the processor.
LEMMA RepairProcessor ==
    ASSUME TypeOK, RowInv, Repair,
           ProcessorStep \/ \E late \in SUBSET Sessions : TimeoutScan(late)
    PROVE  Repair'
<1> USE DEF Repair, TypeOK
<1> DEFINE p == processor.session
<1>1. server = "up" /\ UNCHANGED <<handler, lifeVars>>
  BY DEF ProcessorStep, Peek, ProcessorQuota, Dequeue, LoadSession, StartQueued,
         IncrementGlobal, ProcessorMarkActive, IncrementDaily, ProcessorSpawn, Undo,
         TimeoutRemove, TimeoutCommit, TimeoutScan, ProcessorAt
<1> DEFINE Kept ==
      /\ \A r \in Sessions : Settled(r) => Settled(r)' \/ r \in RunningTasks'
      /\ \A r \in Sessions : status[r] # "none" => status'[r] # "none"
      /\ \A r \in Sessions :
            (status[r] = "running" => r \in RunningTasks \/ Settled(r) \/ Launching(r))
               /\ status'[r] = "running" =>
            r \in RunningTasks' \/ Settled(r)' \/ Launching(r)'
      /\ RunningTasks \subseteq RunningTasks'
      /\ \A r \in RunningTasks' : r \in RunningTasks \/ status[r] # "none"
      /\ \A r \in Sessions : agent'[r].pc \in {"finishing", "committed"} => Settled(r)'
      /\ \A r \in Sessions : terminal'[r] # "running" /\ agent'[r].final # "running"
      /\ processor'.pc \in {"commit", "increment", "sadd", "count", "start"} =>
            status'[processor'.session] # "none"
<1>2. ASSUME Kept PROVE Repair'
  <2>1. NothingElseRuns'
    BY <1>1, <1>2 DEF NothingElseRuns
  <2>2. \A h \in Handlers : handler[h].pc # "idle" => handler[h].session \in Sessions
    BY DEF HandlerTypes
  <2>3. RowWasThere'
    BY <1>1, <1>2, <2>2 DEF RowWasThere, RunningTasks
  <2>4. EndsAreSettled'
    BY <1>1, <1>2, <2>2 DEF EndsAreSettled
  <2>5. RunningIsHeld'
    BY <1>1, <1>2 DEF RunningIsHeld, lifeVars
  <2>6. QED
    BY <2>1, <2>3, <2>4, <2>5
\* Steps that write neither rows nor tasks.
<1>3. ASSUME UNCHANGED <<status, terminal, agent, silenced>>,
             \A r \in Sessions : Launching(r) => Launching(r)' \/ r \in RunningTasks,
             processor'.pc \in {"commit", "increment", "sadd", "count", "start"} =>
                status[processor'.session] # "none"
      PROVE  Repair'
  <2>1. Kept
    BY <1>3 DEF RunningTasks, Settled, NothingElseRuns, EndsAreSettled
  <2>2. QED
    BY <1>2, <2>1
<1>4. CASE Peek \/ ProcessorQuota \/ Dequeue \/ LoadSession
  <2>1. UNCHANGED <<status, terminal, agent, silenced>>
    BY <1>4 DEF Peek, ProcessorQuota, Dequeue, LoadSession, dbVars, histVars
  <2>2. \A r \in Sessions : ~Launching(r)
    BY <1>4 DEF Peek, ProcessorQuota, Dequeue, LoadSession, ProcessorAt, Launching
  <2>3. processor'.pc \in {"commit", "increment", "sadd", "count", "start"} =>
           status[processor'.session] # "none"
    <3>1. CASE Peek \/ Dequeue
      <4>1. processor'.pc \in {"quota", "load", "idle"}
        BY <3>1, PeekMoves, DequeueMoves
      <4>2. QED
        BY <4>1
    <3>2. CASE ProcessorQuota
      BY <3>2 DEF ProcessorQuota, ProcessorGoto, ProcessorTypes, IdleProcessor
    <3>3. CASE LoadSession
      BY <3>3 DEF LoadSession, ProcessorTypes, IdleProcessor, Exists
    <3>4. QED
      BY <1>4, <3>1, <3>2, <3>3
  <2>4. QED
    BY <1>3, <2>1, <2>2, <2>3
<1>5. CASE StartQueued
  <2>1. p \in Sessions
    BY <1>5, ProcessorSession DEF StartQueued, ProcessorAt
  <2>2. /\ \A r \in Sessions :
              /\ status[r] = "deleted" => status'[r] = "deleted"
              /\ status[r] # "none" => status'[r] # "none"
              /\ status'[r] = status[r] \/ (r = p /\ status'[r] = "running")
    <3>1. CASE processor.loaded = "running"
      BY <1>5, <3>1 DEF StartQueued, Flush
    <3>2. CASE processor.loaded # "running"
      BY <1>5, <2>1, <3>2, SettledStays DEF StartQueued, Flush, Statuses, Gone
    <3>3. QED
      BY <3>1, <3>2
  <2>3. UNCHANGED <<terminal, agent, silenced>> /\ Launching(p)'
    BY <1>5 DEF StartQueued, ProcessorGoto, ProcessorTypes, Launching, histVars
  <2>4. (\A r \in Sessions : ~Launching(r)) /\ processor'.session = p /\ status[p] # "none"
    BY <1>5 DEF StartQueued, ProcessorAt, ProcessorGoto, ProcessorTypes, Launching, RowWasThere
  <2>5. Kept
    BY <2>1, <2>2, <2>3, <2>4 DEF RunningTasks, Settled, NothingElseRuns, EndsAreSettled
  <2>6. QED
    BY <1>2, <2>5
<1>6. CASE IncrementGlobal \/ ProcessorMarkActive \/ IncrementDaily
  <2>1. UNCHANGED <<status, terminal, agent, silenced>>
    BY <1>6 DEF IncrementGlobal, ProcessorMarkActive, IncrementDaily, dbVars, histVars
  <2>2. \A r \in Sessions : Launching(r) => Launching(r)'
    BY <1>6 DEF IncrementGlobal, ProcessorMarkActive, IncrementDaily, ProcessorGoto,
                ProcessorTypes, Launching
  <2>3. status[p] # "none" /\ processor'.session = p
    BY <1>6 DEF IncrementGlobal, ProcessorMarkActive, IncrementDaily, ProcessorGoto,
                ProcessorTypes, ProcessorAt, RowWasThere
  <2>4. QED
    BY <1>3, <2>1, <2>2, <2>3
<1>7. CASE ProcessorSpawn
  <2>1. p \in Sessions /\ processor.pc = "start" /\ UNCHANGED <<status, terminal>>
    BY <1>7, ProcessorSession DEF ProcessorSpawn, ProcessorAt, dbVars
  <2>2. CASE p \in RunningTasks
    <3>1. UNCHANGED <<agent, silenced>> /\ processor'.pc = "undo"
      BY <1>7, <2>2 DEF ProcessorSpawn, ProcessorGoto, ProcessorTypes
    <3>2. \A r \in Sessions : Launching(r) => r \in RunningTasks
      BY <2>2 DEF Launching
    <3>3. QED
      BY <1>3, <2>1, <3>1, <3>2
  <2>3. CASE p \notin RunningTasks
    <3>1. Spawn(p) /\ processor' = IdleProcessor
      BY <1>7, <2>3 DEF ProcessorSpawn
    <3>2. RunningTasks' = RunningTasks \cup {p}
      BY <2>1, <3>1 DEF Spawn, RunningTasks, AgentTypes
    <3>3. \A r \in Sessions : Launching(r) => r = p
      BY DEF Launching
    <3>4. \A r \in Sessions : Settled(r) => Settled(r)' \/ r = p
      BY <2>1, <3>1 DEF Settled, Spawn
    <3>5. status[p] # "none" /\ processor'.pc = "idle"
      BY <2>1, <3>1 DEF RowWasThere, IdleProcessor
    <3>6. Kept
      BY <2>1, <3>1, <3>2, <3>3, <3>4, <3>5 DEF Spawn, AgentTypes, NothingElseRuns, EndsAreSettled
    <3>7. QED
      BY <1>2, <3>6
  <2>4. QED
    BY <2>2, <2>3
<1>8. CASE Undo
  <2>1. p \in Sessions /\ UNCHANGED <<terminal, agent, silenced>>
    BY <1>8, ProcessorSession DEF Undo, ProcessorAt, histVars
  <2>2. CASE processor.pc \in {"undo", "undo_srem"}
    <3>1. status' = status /\ \E pc \in {"undo_srem", "undo_status"} : ProcessorGoto(pc)
      BY <1>8, <2>2 DEF Undo, ProcessorAt
    <3>2. \A r \in Sessions : Launching(r) => Launching(r)'
      BY <3>1 DEF ProcessorGoto, ProcessorTypes, Launching
    <3>3. processor'.pc \in {"undo_srem", "undo_status"}
      BY <3>1 DEF ProcessorGoto, ProcessorTypes
    <3>4. QED
      BY <1>3, <2>1, <3>1, <3>2, <3>3
  <2>3. CASE processor.pc = "undo_status"
    <3>1. Flush(p, "none", "failed") /\ processor' = IdleProcessor
      BY <1>8, <2>3 DEF Undo, ProcessorAt
    <3>2. \A r \in Sessions :
              /\ status[r] = "deleted" => status'[r] = "deleted"
              /\ status[r] # "none" => status'[r] # "none"
              /\ status'[r] = status[r] \/ (r = p /\ status'[r] = "failed")
      BY <2>1, <3>1, SettledStays DEF Flush, Statuses, Gone
    <3>3. status'[p] # "running"
      BY <2>1, <3>1 DEF Flush, Exists, DbTypes
    <3>4. \A r \in Sessions : Launching(r) => r = p
      BY DEF Launching
    <3>5. processor'.pc = "idle"
      BY <3>1 DEF IdleProcessor
    <3>6. Kept
      BY <2>1, <3>2, <3>3, <3>4, <3>5 DEF RunningTasks, Settled, NothingElseRuns, EndsAreSettled
    <3>7. QED
      BY <1>2, <3>6
  <2>4. QED
    BY <1>8, <2>2, <2>3 DEF Undo, ProcessorAt
<1>9. ASSUME NEW s \in Sessions, TimeoutRemove(s) PROVE Repair'
  <2>1. /\ UNCHANGED <<status, agent, silenced>> /\ processor'.pc = "timeout"
        /\ \A r \in Sessions : terminal'[r] = terminal[r] \/ terminal'[r] = "failed"
    BY <1>9 DEF TimeoutRemove, ProcessorAt, ProcessorTypes, DbTypes, histVars
  <2>2. \A r \in Sessions : ~Launching(r)
    BY <1>9 DEF TimeoutRemove, ProcessorAt, Launching
  <2>3. Kept
    BY <2>1, <2>2 DEF RunningTasks, Settled, NothingElseRuns, EndsAreSettled
  <2>4. QED
    BY <1>2, <2>3
<1>10. CASE TimeoutCommit
  <2>1. /\ UNCHANGED <<terminal, agent, silenced>> /\ processor'.pc = "idle"
        /\ \A r \in Sessions : status'[r] = status[r] \/ (Exists(r) /\ status'[r] = "failed")
    BY <1>10 DEF TimeoutCommit, IdleProcessor, histVars
  <2>2. \A r \in Sessions : ~Launching(r)
    BY <1>10 DEF TimeoutCommit, ProcessorAt, Launching
  <2>3. Kept
    BY <2>1, <2>2 DEF RunningTasks, Settled, Exists, NothingElseRuns, EndsAreSettled
  <2>4. QED
    BY <1>2, <2>3
<1>11. ASSUME NEW late \in SUBSET Sessions, TimeoutScan(late) PROVE Repair'
  <2>1. UNCHANGED <<status, terminal, agent, silenced>> /\ processor'.pc = "timeout"
    BY <1>11 DEF TimeoutScan, IdleProcessor, dbVars, histVars
  <2>2. \A r \in Sessions : ~Launching(r)
    BY <1>11 DEF TimeoutScan, ProcessorAt, Launching
  <2>3. QED
    BY <1>3, <2>1, <2>2
<1>12. QED
  BY <1>4, <1>5, <1>6, <1>7, <1>8, <1>9, <1>10, <1>11 DEF ProcessorStep

\* The end of a process, and what comes before it.
LEMMA RepairShutdown ==
    ASSUME TypeOK, Repair, Crash \/ Exit \/ StopProcessor \/ CancelAgents, ~Aged
    PROVE  Repair'
<1> USE DEF Repair, TypeOK
<1>1. CASE EndProcess
  <2>1. /\ server' = "recovering" /\ agent' = [s \in Sessions |-> NoAgent]
        /\ handler' = [h \in Handlers |-> Idle] /\ processor' = IdleProcessor
        /\ UNCHANGED <<status, terminal, silenced>>
    BY <1>1 DEF EndProcess, dbVars, histVars
  <2>2. \A s \in Sessions : status[s] = "running" => s \in recovery'.todo
    BY <1>1 DEF EndProcess, NoRecovery
  <2>3. NothingElseRuns'
    BY <2>1 DEF NothingElseRuns, NoAgent, Idle
  <2>4. RowWasThere' /\ EndsAreSettled'
    BY <2>1 DEF RowWasThere, EndsAreSettled, RunningTasks, NoAgent, Idle, IdleProcessor
  <2>5. RunningIsHeld'
    BY <2>1, <2>2 DEF RunningIsHeld
  <2>6. QED
    BY <2>3, <2>4, <2>5
<1>2. CASE StopProcessor
  <2>1. /\ UNCHANGED <<status, terminal, agent, silenced, handler>>
        /\ server' = "stopping" /\ processor' = IdleProcessor
    BY <1>2 DEF StopProcessor, dbVars, histVars
  <2>2. QED
    BY <2>1 DEF NothingElseRuns, RowWasThere, EndsAreSettled, RunningIsHeld, RunningTasks, Settled,
                IdleProcessor
<1>3. CASE CancelAgents
  <2>1. /\ UNCHANGED <<status, terminal, handler, processor>> /\ server' = "cancelling"
        /\ silenced' = silenced \cup Cancelling
    BY <1>3 DEF CancelAgents, dbVars
  <2>2. \A s \in Sessions :
           IF s \in RunningTasks THEN agent'[s] \in Interrupted(agent[s])
                                 ELSE agent'[s] = agent[s]
    BY <1>3 DEF CancelAgents, Interruptions
  <2>3. \A s \in RunningTasks :
           /\ agent'[s].pc # "none" /\ agent'[s].final # "running"
           /\ agent'[s].pc \in {"finishing", "committed"} =>
                 agent[s].pc \in {"finishing", "cancelling", "committed"}
    BY <2>2, InterruptedIs DEF NothingElseRuns, RunningTasks, AgentTypes
  <2>4. RunningTasks' = RunningTasks
    BY <2>2, <2>3 DEF RunningTasks
  <2>5. \A s \in Sessions : Settled(s) => Settled(s)'
    BY <2>1 DEF Settled
  <2>6. \A s \in Sessions : agent[s].pc = "cancelling" => s \in silenced'
    BY <2>1 DEF Cancelling
  <2>7. NothingElseRuns'
    BY <2>1, <2>2, <2>3 DEF NothingElseRuns
  <2>8. RowWasThere'
    BY <2>1, <2>4 DEF RowWasThere
  <2>9. EndsAreSettled'
    <3>1. \A s \in Sessions : agent'[s].pc \in {"finishing", "committed"} => Settled(s)'
      BY <2>2, <2>3, <2>5, <2>6 DEF EndsAreSettled, Settled
    <3>2. \A h \in Handlers : handler[h].pc # "idle" => handler[h].session \in Sessions
      BY DEF HandlerTypes
    <3>3. QED
      BY <2>1, <2>4, <2>5, <3>1, <3>2 DEF EndsAreSettled
  <2>10. RunningIsHeld'
    BY <2>1 DEF RunningIsHeld
  <2>11. QED
    BY <2>7, <2>8, <2>9, <2>10
<1>4. QED
  BY <1>1, <1>2, <1>3 DEF Crash, Exit

\* The lifespan takes up what was running.
LEMMA RepairRecovery ==
    ASSUME TypeOK, RowInv, Repair, RecoverStep \/ RecoverAbort
    PROVE  Repair'
<1> USE DEF Repair, TypeOK
<1>1. /\ server = "recovering" /\ ~queueOn
      /\ UNCHANGED <<terminal, agent, silenced, handler, processor>>
  BY DEF RecoverStep, RecoverSession, RecoverCommit, RecoverAbort, RowInv, RecoveryIsAlone,
         dbVars, histVars
<1>2. /\ \A s \in Sessions : agent[s] = NoAgent
      /\ \A h \in Handlers : handler[h] = Idle
      /\ processor = IdleProcessor
  BY <1>1 DEF RowInv, RecoveryIsAlone
<1>3. NothingElseRuns' /\ RowWasThere' /\ EndsAreSettled'
  BY <1>1, <1>2 DEF NothingElseRuns, RowWasThere, EndsAreSettled, RunningTasks, NoAgent, Idle,
                    IdleProcessor
<1>4. ASSUME NEW s \in Sessions, RecoverSession(s) PROVE RunningIsHeld'
  <2>1. /\ UNCHANGED <<status, server>> /\ recovery'.todo = recovery.todo \ {s}
        /\ recovery'.staged[s] # "none"
        /\ \A r \in Sessions \ {s} : recovery'.staged[r] = recovery.staged[r]
    BY <1>4 DEF RecoverSession, LifeTypes, dbVars
  <2>2. QED
    BY <1>1, <2>1 DEF RunningIsHeld
<1>5. CASE RecoverCommit
  <2>1. server' = "up" /\ recovery.todo = {}
        /\ \A s \in Sessions : status'[s] = IF recovery.staged[s] = "none"
                                             THEN status[s] ELSE recovery.staged[s]
    BY <1>5 DEF RecoverCommit
  <2>2. \A s \in Sessions : recovery.staged[s] # "running"
    BY DEF RowInv, RecoveryWritesStatuses
  <2>3. QED
    BY <1>1, <1>3, <2>1, <2>2 DEF RunningIsHeld
<1>6. CASE RecoverAbort
  <2>1. server' = "up" /\ ~queueOn'
    BY <1>1, <1>6 DEF RecoverAbort
  <2>2. QED
    BY <1>3, <2>1 DEF RunningIsHeld
<1>7. QED
  BY <1>3, <1>4, <1>5, <1>6 DEF RecoverStep

\* Where no call of Redis fails and a recovery takes every session, a session
\* that is shown as running has an agent, or one that is about to start or was
\* about to, or it can be seen that its last agent ended; and what works on a
\* session has seen its row, so that what it announces is kept.
THEOREM RepairInvariant == Spec => []RepairInv
<1>1. Init => RepairInv
  BY DEF Init, RepairInv, Repair, NothingElseRuns, RowWasThere, EndsAreSettled, RunningIsHeld,
         RunningTasks, NoAgent, Idle, IdleProcessor
<1>2. TypeOK /\ RowInv /\ RepairInv /\ [Next]_vars => RepairInv'
  <2> SUFFICES ASSUME TypeOK, RowInv, Repair, [Next]_vars, Healthy PROVE Repair'
    BY DEF RepairInv, Healthy
  <2>1. CASE UNCHANGED vars
    BY <2>1 DEF Repair, NothingElseRuns, RowWasThere, EndsAreSettled, RunningIsHeld, RunningTasks,
                Settled, Launching, vars, dbVars, lifeVars, histVars
  <2>2. ~(\E h \in Handlers : HandlerRedisFault(h)) /\ ~ProcessorRedisFault /\ ~Aged
    BY DEF Healthy, HandlerRedisFault, ProcessorRedisFault
  <2>3. CASE Next
    BY <2>2, <2>3, RepairRequest, RepairServe, RepairAgent, RepairProcessor, RepairShutdown,
       RepairRecovery DEF Next
  <2>4. QED
    BY <2>1, <2>3
<1>3. QED
  BY <1>1, <1>2, TypeCorrect, RowInvariant, PTL DEF Spec

\* A session that is shown as running and in nobody's hands has a terminal
\* event, from which list_sessions repairs it, but for one whose agent was
\* cancelled again before it had announced the first cancellation.
THEOREM RunningIsRepairable == Spec => []Repairable
<1>1. RepairInv => Repairable
  <2> SUFFICES ASSUME Repair, server = "up", queueOn, NEW s \in Sessions \ silenced,
                      status[s] = "running", ~InHands(s)
               PROVE  terminal[s] # "none"
    BY DEF Repairable, RepairInv, Healthy
  <2>1. s \in RunningTasks \/ Settled(s) \/ Launching(s)
    BY DEF Repair, RunningIsHeld
  <2>2. s \notin RunningTasks /\ ~Launching(s)
    BY DEF InHands, Launching
  <2>3. QED
    BY <2>1, <2>2 DEF Settled
<1>2. QED
  BY <1>1, RepairInvariant, PTL
-----------------------------------------------------------------------------
(* Every execution was paid for *)

\* Nothing that a recovery does is rolled back, and it takes every session.
Payable == MaxQueueSize = 0 /\ ~RedisFaults /\ ~Aged

\* Requests for s that may still start an execution or put it into the queue.
Asks(h, s) ==
    /\ handler[h].session = s
    /\ handler[h].pc \in {"quota", "scard", "daily", "start", "zadd"}
Asking(s) == {h \in Handlers : Asks(h, s)}
Waiting(s) == IF \E e \in queue : e.session = s THEN 1 ELSE 0
Taken(s) ==
    IF processor.session = s
       /\ processor.pc \in {"load", "commit", "increment", "sadd", "count", "start"}
    THEN 1 ELSE 0

\* Executions of s that were started or may follow without another request, and
\* what was asked for.
Claims(s) == starts[s] + Cardinality(Asking(s)) + Waiting(s) + Taken(s) - requests[s]

\* A recovery puts s into the queue now and records the attempt at its end.
Owed(s) ==
    IF server = "recovering"
       /\ (recovery.staged[s] = "queued" \/ (s \in recovery.todo /\ ~GiveUp(s)))
    THEN 1 ELSE 0

\* A session is in the queue once.
OneEntry == \A e, f \in queue : e.session = f.session => e = f

\* While sessions are recovered, each that is to be queued, or was, is still
\* running or queued in the database: a recovery that starts again takes it too.
Recoverable ==
    server = "recovering" =>
        \A s \in Sessions :
            /\ recovery.staged[s] = "queued" =>
                  status[s] \in {"running", "queued"} /\ ~GiveUp(s)
            /\ s \in recovery.todo => status[s] \in {"running", "queued"}

Balance ==
    \A s \in Sessions :
        /\ starts[s] - requests[s] <= attempts[s]
        /\ Claims(s) <= attempts[s] + Owed(s)

Paid == OneEntry /\ Recoverable /\ Balance
PaidInv == Payable => Paid

LEMMA AskingFinite ==
    ASSUME NEW s \in Sessions
    PROVE  /\ Asking(s) \in SUBSET Handlers /\ Asking(s)' \in SUBSET Handlers
           /\ IsFiniteSet(Asking(s)) /\ IsFiniteSet(Asking(s)')
           /\ Cardinality(Asking(s)) \in Nat /\ Cardinality(Asking(s))' \in Nat
<1>1. Asking(s) \in SUBSET Handlers /\ Asking(s)' \in SUBSET Handlers
  BY DEF Asking
<1>2. QED
  BY <1>1, SchedulerAssumption, FS_Subset, FS_CardinalityType

\* How a step of handler h changes who asks for s.
LEMMA AskingStep ==
    ASSUME NEW h \in Handlers, NEW s \in Sessions,
           \A g \in Handlers \ {h} : handler'[g] = handler[g]
    PROVE  Cardinality(Asking(s))' =
              Cardinality(Asking(s)) + (IF Asks(h, s)' THEN 1 ELSE 0)
                                     - (IF Asks(h, s) THEN 1 ELSE 0)
<1>1. \A g \in Handlers \ {h} : Asks(g, s)' <=> Asks(g, s)
  BY DEF Asks
<1>2. CASE Asks(h, s) /\ ~Asks(h, s)'
  <2>1. h \in Asking(s) /\ \A g \in Handlers : g \in Asking(s)' <=> g \in Asking(s) \ {h}
    BY <1>1, <1>2 DEF Asking
  <2>2. Asking(s)' = Asking(s) \ {h}
    BY <2>1, AskingFinite
  <2>3. Cardinality(Asking(s) \ {h}) = Cardinality(Asking(s)) - 1
    BY <2>1, AskingFinite, FS_RemoveElement
  <2>4. Cardinality(Asking(s))' = Cardinality(Asking(s)) - 1
    BY <2>2, <2>3
  <2>5. QED
    BY <1>2, <2>4, AskingFinite
<1>3. CASE ~Asks(h, s) /\ Asks(h, s)'
  <2>1. h \notin Asking(s) /\ \A g \in Handlers : g \in Asking(s)' <=> g \in Asking(s) \cup {h}
    BY <1>1, <1>3 DEF Asking
  <2>2. Asking(s)' = Asking(s) \cup {h}
    BY <2>1, AskingFinite
  <2>3. Cardinality(Asking(s) \cup {h}) = Cardinality(Asking(s)) + 1
    BY <2>1, AskingFinite, FS_AddElement
  <2>4. Cardinality(Asking(s))' = Cardinality(Asking(s)) + 1
    BY <2>2, <2>3
  <2>5. QED
    BY <1>3, <2>4, AskingFinite
<1>4. CASE Asks(h, s) <=> Asks(h, s)'
  <2>1. Asking(s)' = Asking(s)
    BY <1>1, <1>4 DEF Asking
  <2>2. QED
    BY <1>4, <2>1, AskingFinite
<1>5. QED
  BY <1>2, <1>3, <1>4

LEMMA ClaimTypes ==
    ASSUME TypeOK, NEW s \in Sessions
    PROVE  /\ starts[s] \in Nat /\ requests[s] \in Nat /\ attempts[s] \in Nat
           /\ Cardinality(Asking(s)) \in Nat
           /\ Waiting(s) \in {0, 1} /\ Taken(s) \in {0, 1} /\ Owed(s) \in {0, 1}
BY AskingFinite DEF TypeOK, DbTypes, HistTypes, Waiting, Taken, Owed

\* While no recovery runs, it is enough that no session gains a claim.
LEMMA PaidKept ==
    ASSUME TypeOK, TypeOK', Paid, server # "recovering", server' # "recovering",
           OneEntry', UNCHANGED attempts, \A s \in Sessions : Claims(s)' <= Claims(s)
    PROVE  Paid'
<1>1. Recoverable'
  BY DEF Recoverable
<1>2. ASSUME NEW s \in Sessions
      PROVE  starts'[s] - requests'[s] <= attempts'[s] /\ Claims(s)' <= attempts'[s] + Owed(s)'
  <2>1. Owed(s) = 0 /\ Owed(s)' = 0
    BY DEF Owed
  <2>2. Claims(s)' <= Claims(s) /\ Claims(s) <= attempts[s] + Owed(s) /\ attempts'[s] = attempts[s]
    BY <1>2 DEF Paid, Balance
  <2>3. /\ starts[s] \in Nat /\ requests[s] \in Nat /\ attempts[s] \in Nat
        /\ Cardinality(Asking(s)) \in Nat /\ Waiting(s) \in {0, 1} /\ Taken(s) \in {0, 1}
    BY <1>2, ClaimTypes
  <2>4. /\ starts'[s] \in Nat /\ requests'[s] \in Nat /\ attempts'[s] \in Nat
        /\ Cardinality(Asking(s))' \in Nat /\ Waiting(s)' \in {0, 1} /\ Taken(s)' \in {0, 1}
    BY <1>2, AskingFinite DEF TypeOK, DbTypes, HistTypes, Waiting, Taken
  <2>5. QED
    BY <2>1, <2>2, <2>3, <2>4 DEF Claims
<1>3. QED
  BY <1>1, <1>2 DEF Paid, Balance

\* A step of handler h that leaves the queue and the processor alone.
LEMMA PaidMoves ==
    ASSUME TypeOK, TypeOK', Paid, NEW h \in Handlers, server = "up",
           \A g \in Handlers \ {h} : handler'[g] = handler[g],
           UNCHANGED <<server, attempts, queue, processor>>,
           \A s \in Sessions :
              starts'[s] + (IF Asks(h, s)' THEN 1 ELSE 0) - requests'[s] <=
                 starts[s] + (IF Asks(h, s) THEN 1 ELSE 0) - requests[s]
    PROVE  Paid'
<1>1. OneEntry'
  BY DEF Paid, OneEntry
<1>2. ASSUME NEW s \in Sessions PROVE Claims(s)' <= Claims(s)
  <2>1. Waiting(s)' = Waiting(s) /\ Taken(s)' = Taken(s)
    BY DEF Waiting, Taken
  <2>2. Cardinality(Asking(s))' =
              Cardinality(Asking(s)) + (IF Asks(h, s)' THEN 1 ELSE 0)
                                     - (IF Asks(h, s) THEN 1 ELSE 0)
    BY <1>2, AskingStep
  <2>3. /\ starts[s] \in Nat /\ requests[s] \in Nat
        /\ Cardinality(Asking(s)) \in Nat /\ Waiting(s) \in {0, 1} /\ Taken(s) \in {0, 1}
    BY <1>2, ClaimTypes
  <2>4. starts'[s] \in Nat /\ requests'[s] \in Nat /\ Cardinality(Asking(s))' \in Nat
    BY <1>2, AskingFinite DEF TypeOK, HistTypes
  <2>5. QED
    BY <1>2, <2>1, <2>2, <2>3, <2>4 DEF Claims
<1>3. QED
  BY <1>1, <1>2, PaidKept

\* A step of handler h that starts nothing and asks for nothing new.
LEMMA PaidQuiet ==
    ASSUME TypeOK, TypeOK', Paid, NEW h \in Handlers, server = "up",
           \A g \in Handlers \ {h} : handler'[g] = handler[g],
           UNCHANGED <<server, attempts, queue, processor, starts, requests>>,
           \A s \in Sessions : Asks(h, s)' => Asks(h, s)
    PROVE  Paid'
<1>1. ASSUME NEW s \in Sessions
      PROVE  starts'[s] + (IF Asks(h, s)' THEN 1 ELSE 0) - requests'[s] <=
                starts[s] + (IF Asks(h, s) THEN 1 ELSE 0) - requests[s]
  <2>1. starts[s] \in Nat /\ requests[s] \in Nat
    BY <1>1, ClaimTypes
  <2>2. QED
    BY <1>1, <2>1
<1>2. QED
  BY <1>1, PaidMoves
\* A request arrives, and is served.
LEMMA PaidHandler ==
    ASSUME TypeOK, TypeOK', Paid, MaxQueueSize = 0, NEW h \in Handlers,
           Request(h) \/ Serve(h) \/ CancelAgain(h)
    PROVE  Paid'
<1> USE DEF TypeOK
<1>1. server = "up" /\ UNCHANGED <<server, attempts, processor>>
  BY DEF Request, RunTask, StartTask, CancelTask, DeleteSession, ListSessions, Arrive, Serve,
         CancelAgain, StartTaskAccept, CheckGlobal, CheckUser, CheckDaily, StartNow,
         MarkUserActive, Enqueue, CommitRunning, CommitQueued, CommitFailed, CancelDecide,
         CancelWait, CommitCancelled, CommitDeleted, ListTerminal, CommitRepair, Commit, At,
         dbVars, lifeVars
<1>2. ASSUME NEW s \in Sessions, RunTask(h, s) PROVE Paid'
  <2>1. /\ handler[h].pc = "idle" /\ UNCHANGED <<queue, starts>>
        /\ requests' = [requests EXCEPT ![s] = @ + 1]
        /\ handler' = [handler EXCEPT ![h] = [pc |-> "quota", session |-> s,
                                              loaded |-> "pending", verdict |-> "none"]]
    BY <1>2 DEF RunTask, Arrive, At, redisVars
  <2>2. \A r \in Sessions : ~Asks(h, r) /\ (Asks(h, r)' => r = s)
    BY <2>1 DEF Asks, HandlerTypes
  <2>3. \A g \in Handlers \ {h} : handler'[g] = handler[g]
    BY <2>1 DEF HandlerTypes
  <2>4. ASSUME NEW r \in Sessions
        PROVE  starts'[r] + (IF Asks(h, r)' THEN 1 ELSE 0) - requests'[r] <=
                  starts[r] + (IF Asks(h, r) THEN 1 ELSE 0) - requests[r]
    <3>1. /\ starts'[r] = starts[r] /\ starts[r] \in Nat /\ requests[r] \in Nat
          /\ requests'[r] = IF r = s THEN requests[r] + 1 ELSE requests[r]
      BY <2>1, <2>4 DEF HistTypes
    <3>2. QED
      BY <2>2, <2>4, <3>1
  <2>5. QED
    BY <1>1, <2>1, <2>3, <2>4, PaidMoves
<1>3. ASSUME NEW s \in Sessions,
             StartTask(h, s) \/ CancelTask(h, s) \/ DeleteSession(h, s) \/ ListSessions(h, s)
      PROVE  Paid'
  <2>1. PICK pc \in {"is_running", "cancel", "commit_deleted", "list"} :
           handler' = [handler EXCEPT ![h] = [pc |-> pc, session |-> s,
                                              loaded |-> status[s], verdict |-> "none"]]
    BY <1>3 DEF StartTask, CancelTask, DeleteSession, ListSessions, Arrive
  <2>2. UNCHANGED <<queue, starts, requests>>
    BY <1>3 DEF StartTask, CancelTask, DeleteSession, ListSessions, redisVars
  <2>3. /\ \A g \in Handlers \ {h} : handler'[g] = handler[g]
        /\ \A r \in Sessions : ~Asks(h, r)'
    BY <2>1 DEF Asks, HandlerTypes
  <2>4. QED
    BY <1>1, <2>2, <2>3, PaidQuiet
<1>4. CASE StartTaskAccept(h) /\ Goto(h, "quota")
  <2>1. /\ handler[h].pc = "is_running" /\ UNCHANGED <<queue, starts>>
        /\ requests' = [requests EXCEPT ![Session(h)] = @ + 1]
    BY <1>4 DEF StartTaskAccept, Goto, Done, Idle, HandlerTypes, At, redisVars
  <2>2. /\ \A g \in Handlers \ {h} : handler'[g] = handler[g]
        /\ \A r \in Sessions : ~Asks(h, r) /\ (Asks(h, r)' => r = Session(h))
    BY <1>4, <2>1 DEF Goto, Asks, Session, HandlerTypes
  <2>3. Session(h) \in Sessions
    BY <2>1, HandlerSession
  <2>4. ASSUME NEW r \in Sessions
        PROVE  starts'[r] + (IF Asks(h, r)' THEN 1 ELSE 0) - requests'[r] <=
                  starts[r] + (IF Asks(h, r) THEN 1 ELSE 0) - requests[r]
    <3>1. /\ starts'[r] = starts[r] /\ starts[r] \in Nat /\ requests[r] \in Nat
          /\ requests'[r] = IF r = Session(h) THEN requests[r] + 1 ELSE requests[r]
      BY <2>1, <2>3, <2>4 DEF HistTypes
    <3>2. QED
      BY <2>2, <2>4, <3>1
  <2>5. QED
    BY <1>1, <2>1, <2>2, <2>4, PaidMoves
<1>5. CASE StartTaskAccept(h) /\ Done(h)
  <2>1. handler[h].pc = "is_running" /\ handler'[h].pc = "idle"
    BY <1>5 DEF StartTaskAccept, At, Done, Idle, HandlerTypes
  <2>2. UNCHANGED <<queue, starts, requests>>
    BY <1>5, <2>1 DEF StartTaskAccept, Goto, HandlerTypes, redisVars
  <2>3. /\ \A g \in Handlers \ {h} : handler'[g] = handler[g]
        /\ \A r \in Sessions : ~Asks(h, r)'
    BY <1>5, <2>1 DEF Asks, Done, HandlerTypes
  <2>4. QED
    BY <1>1, <2>2, <2>3, PaidQuiet
<1>6. CASE StartNow(h) /\ Session(h) \notin RunningTasks
  <2>1. /\ handler[h].pc = "start" /\ UNCHANGED <<queue, requests>> /\ Spawn(Session(h))
        /\ \E pc \in {"sadd", "commit_running"} : Goto(h, pc)
    BY <1>6 DEF StartNow, At, redisVars
  <2>2. Session(h) \in Sessions
    BY <2>1, HandlerSession
  <2>3. /\ \A g \in Handlers \ {h} : handler'[g] = handler[g]
        /\ Asks(h, Session(h)) /\ \A r \in Sessions : ~Asks(h, r)'
    BY <2>1, <2>2 DEF Goto, Asks, Session, HandlerTypes
  <2>4. ASSUME NEW r \in Sessions
        PROVE  starts'[r] + (IF Asks(h, r)' THEN 1 ELSE 0) - requests'[r] <=
                  starts[r] + (IF Asks(h, r) THEN 1 ELSE 0) - requests[r]
    <3>1. /\ requests'[r] = requests[r] /\ starts[r] \in Nat /\ requests[r] \in Nat
          /\ starts'[r] = IF r = Session(h) THEN starts[r] + 1 ELSE starts[r]
      BY <2>1, <2>2, <2>4 DEF HistTypes, Spawn
    <3>2. QED
      BY <2>3, <2>4, <3>1
  <2>5. QED
    BY <1>1, <2>1, <2>3, <2>4, PaidMoves
<1>7. CASE \/ StartNow(h) /\ Session(h) \in RunningTasks
           \/ CheckGlobal(h) \/ CheckUser(h) \/ CheckDaily(h)
           \/ MarkUserActive(h) \/ CancelDecide(h) \/ CancelWait(h) \/ CancelAgain(h)
           \/ CommitRunning(h) \/ CommitQueued(h) \/ CommitFailed(h) \/ CommitCancelled(h)
           \/ CommitDeleted(h) \/ CommitRepair(h)
  <2>1. UNCHANGED <<queue, starts, requests>>
    BY <1>7 DEF StartNow, CheckGlobal, CheckUser, CheckDaily, MarkUserActive, CancelDecide,
                CancelWait, CancelAgain, CommitRunning, CommitQueued, CommitFailed,
                CommitCancelled, CommitDeleted, CommitRepair, Commit, redisVars, histVars
  <2>2. \/ Done(h)
        \/ \E pc \in HandlerPC \ {"quota", "scard", "daily", "start", "zadd"} : Goto(h, pc)
        \/ /\ handler[h].pc \in {"quota", "scard", "daily"}
           /\ \E pc \in {"scard", "daily", "start", "zadd"} : Goto(h, pc)
    BY <1>7 DEF StartNow, CheckGlobal, CheckUser, CheckDaily, MarkUserActive, CancelDecide,
                CancelWait, CancelAgain, CommitRunning, CommitQueued, CommitFailed,
                CommitCancelled, CommitDeleted, CommitRepair, Commit, HandlerPC, At
  <2>3. /\ \A g \in Handlers \ {h} : handler'[g] = handler[g]
        /\ \A r \in Sessions : Asks(h, r)' => Asks(h, r)
    BY <2>2 DEF Goto, Done, Idle, Asks, HandlerTypes
  <2>4. QED
    BY <1>1, <2>1, <2>3, PaidQuiet
<1>8. CASE ListTerminal(h)
  <2>1. /\ UNCHANGED <<queue, starts, requests>>
        /\ \A g \in Handlers \ {h} : handler'[g] = handler[g]
        /\ handler'[h].pc \in {"commit_repair", "idle"}
    BY <1>8 DEF ListTerminal, Done, Idle, HandlerTypes, redisVars, histVars
  <2>2. \A r \in Sessions : ~Asks(h, r)'
    BY <2>1 DEF Asks
  <2>3. QED
    BY <1>1, <2>1, <2>2, PaidQuiet
<1>9. CASE Enqueue(h)
  <2> DEFINE s == Session(h)
  <2>1. PICK e \in [session: Sessions, score: Int] :
           /\ e.session = s /\ queue' = Without(s) \cup {e}
           /\ handler[h].pc = "zadd" /\ Goto(h, "commit_queued")
           /\ UNCHANGED <<starts, requests>>
    <3>1. handler[h].pc = "zadd" /\ s \in Sessions /\ User(h) \in Users
      BY <1>9, HandlerSession DEF Enqueue, At
    <3>2. ~QueueFull
      BY DEF QueueFull
    <3>3. Entry(s, Priority[User(h)]) \in [session: Sessions, score: Int]
      BY <3>1, EntryTypes, SchedulerAssumption
    <3>4. Entry(s, Priority[User(h)]).session = s
      BY DEF Entry
    <3>5. QED
      BY <1>9, <3>1, <3>2, <3>3, <3>4 DEF Enqueue
  <2>2. OneEntry'
    BY <2>1 DEF Paid, OneEntry, Without
  <2>3. /\ s \in Sessions /\ \A g \in Handlers \ {h} : handler'[g] = handler[g]
        /\ Asks(h, s) /\ \A r \in Sessions : ~Asks(h, r)' /\ (Asks(h, r) => r = s)
    BY <2>1, HandlerSession DEF Goto, Asks, Session, HandlerTypes
  <2>4. \A r \in Sessions \ {s} : Waiting(r)' = Waiting(r)
    BY <2>1 DEF Waiting, Without
  <2>5. \A r \in Sessions : Waiting(r)' \in {0, 1} /\ Taken(r)' = Taken(r)
    BY <1>1 DEF Waiting, Taken
  <2>6. ASSUME NEW r \in Sessions PROVE Claims(r)' <= Claims(r)
    <3>1. Cardinality(Asking(r))' =
              Cardinality(Asking(r)) + (IF Asks(h, r)' THEN 1 ELSE 0)
                                     - (IF Asks(h, r) THEN 1 ELSE 0)
      BY <2>3, <2>6, AskingStep
    <3>2. /\ starts[r] \in Nat /\ requests[r] \in Nat
          /\ Cardinality(Asking(r)) \in Nat /\ Waiting(r) \in {0, 1} /\ Taken(r) \in {0, 1}
      BY <2>6, ClaimTypes
    <3>3. UNCHANGED <<starts, requests>>
      BY <2>1
    <3>4. Waiting(r)' <= Waiting(r) + (IF Asks(h, r) THEN 1 ELSE 0)
      BY <2>3, <2>4, <2>5, <2>6, <3>2
    <3>5. QED
      BY <2>3, <2>5, <2>6, <3>1, <3>2, <3>3, <3>4 DEF Claims
  <2>7. QED
    BY <1>1, <2>2, <2>6, PaidKept
<1>10. StartTaskAccept(h) => Goto(h, "quota") \/ Done(h)
  BY DEF StartTaskAccept
<1>11. QED
  BY <1>2, <1>3, <1>4, <1>5, <1>6, <1>7, <1>8, <1>9, <1>10 DEF Request, Serve
\* Agents, and the lifespan's shutdown, neither ask nor queue nor start.
LEMMA PaidFrame ==
    ASSUME TypeOK, TypeOK', Paid, server # "recovering", server' # "recovering",
           UNCHANGED <<attempts, queue, handler, starts, requests>>,
           \A s \in Sessions : Taken(s)' <= Taken(s)
    PROVE  Paid'
<1>1. OneEntry'
  BY DEF Paid, OneEntry
<1>2. ASSUME NEW s \in Sessions PROVE Claims(s)' <= Claims(s)
  <2>1. Waiting(s)' = Waiting(s) /\ Asking(s)' = Asking(s)
    BY DEF Waiting, Asking, Asks
  <2>2. Cardinality(Asking(s))' = Cardinality(Asking(s))
    BY <2>1
  <2>3. /\ starts[s] \in Nat /\ requests[s] \in Nat
        /\ Cardinality(Asking(s)) \in Nat /\ Waiting(s) \in {0, 1} /\ Taken(s) \in {0, 1}
    BY <1>2, ClaimTypes
  <2>4. Taken(s)' \in {0, 1} /\ Taken(s)' <= Taken(s)
    BY <1>2 DEF Taken
  <2>5. QED
    BY <1>2, <2>1, <2>2, <2>3, <2>4 DEF Claims
<1>3. QED
  BY <1>1, <1>2, PaidKept

LEMMA PaidAgent ==
    ASSUME TypeOK, TypeOK', Paid, NEW s \in Sessions,
           AgentStep(s) \/ AgentEstablish(s) \/ MarkUserInactive(s)
    PROVE  Paid'
<1>1. /\ server # "recovering"
      /\ UNCHANGED <<server, processor, attempts, queue, handler, starts, requests>>
  BY DEF AgentStep, AgentEnter, AgentFinish, AgentCommit, AgentCancelled, AgentCleanup,
         AgentEstablish, MarkUserInactive, Alive, dbVars, redisVars, lifeVars, histVars
<1>2. \A r \in Sessions : Taken(r)' = Taken(r) /\ Taken(r) \in {0, 1}
  BY <1>1 DEF Taken
<1>3. QED
  BY <1>1, <1>2, PaidFrame

\* The processor takes a task from the queue and starts it.
LEMMA PaidProcessor ==
    ASSUME TypeOK, TypeOK', Paid,
           ProcessorStep \/ \E late \in SUBSET Sessions : TimeoutScan(late)
    PROVE  Paid'
<1> USE DEF TypeOK
<1> DEFINE p == processor.session
<1>1. /\ server = "up" /\ queueOn
      /\ UNCHANGED <<server, attempts, handler, requests>>
  BY DEF ProcessorStep, Peek, ProcessorQuota, Dequeue, LoadSession, StartQueued,
         IncrementGlobal, ProcessorMarkActive, IncrementDaily, ProcessorSpawn, Undo,
         TimeoutRemove, TimeoutCommit, TimeoutScan, ProcessorAt, dbVars, lifeVars, histVars
<1>2. \A r \in Sessions : Cardinality(Asking(r))' = Cardinality(Asking(r))
  <2>1. \A r \in Sessions : Asking(r)' = Asking(r)
    BY <1>1 DEF Asking, Asks
  <2>2. QED
    BY <2>1
<1>3. CASE \/ Peek \/ ProcessorQuota \/ LoadSession \/ StartQueued
           \/ IncrementGlobal \/ ProcessorMarkActive \/ IncrementDaily \/ Undo
           \/ TimeoutCommit \/ \E late \in SUBSET Sessions : TimeoutScan(late)
  <2>1. UNCHANGED <<queue, starts>>
    BY <1>3 DEF Peek, ProcessorQuota, LoadSession, StartQueued, IncrementGlobal,
                ProcessorMarkActive, IncrementDaily, Undo, TimeoutCommit, TimeoutScan,
                redisVars, histVars
  <2>2. \A r \in Sessions : Taken(r)' <= Taken(r)
    <3>1. CASE Peek \/ ProcessorQuota \/ Undo \/ TimeoutCommit
               \/ \E late \in SUBSET Sessions : TimeoutScan(late)
      <4>1. processor'.pc \notin {"load", "commit", "increment", "sadd", "count", "start"}
        <5>1. CASE Peek
          BY <5>1, PeekMoves
        <5>2. CASE ProcessorQuota
          BY <5>2 DEF ProcessorQuota, ProcessorGoto, ProcessorTypes, IdleProcessor
        <5>3. CASE Undo
          BY <5>3 DEF Undo, ProcessorGoto, ProcessorTypes, IdleProcessor
        <5>4. CASE TimeoutCommit
          BY <5>4 DEF TimeoutCommit, IdleProcessor
        <5>5. ASSUME NEW late \in SUBSET Sessions, TimeoutScan(late)
              PROVE  processor'.pc = "timeout"
          BY <5>5 DEF TimeoutScan, IdleProcessor
        <5>6. QED
          BY <3>1, <5>1, <5>2, <5>3, <5>4, <5>5
      <4>2. QED
        BY <4>1 DEF Taken
    <3>2. CASE LoadSession \/ StartQueued \/ IncrementGlobal \/ ProcessorMarkActive
               \/ IncrementDaily
      <4>1. /\ processor.pc \in {"load", "commit", "increment", "sadd", "count"}
            /\ processor'.session = p \/ processor' = IdleProcessor
        BY <3>2 DEF LoadSession, StartQueued, IncrementGlobal, ProcessorMarkActive,
                    IncrementDaily, ProcessorAt, ProcessorGoto, ProcessorTypes
      <4>2. QED
        BY <4>1 DEF Taken, IdleProcessor
    <3>3. QED
      BY <1>3, <3>1, <3>2
  <2>3. QED
    BY <1>1, <2>1, <2>2, PaidFrame
<1>4. CASE Dequeue
  <2>1. CASE processor' = IdleProcessor
    <3>1. processor'.pc = "idle" /\ UNCHANGED starts
      BY <1>4, <2>1 DEF Dequeue, IdleProcessor, histVars
    <3>2. UNCHANGED queue
      <4>1. ASSUME NEW e \in Minimal,
                   processor' = [processor EXCEPT !.pc = "load", !.session = e.session]
            PROVE  processor'.pc = "load"
        BY <4>1 DEF ProcessorTypes
      <4>2. QED
        BY <1>4, <3>1, <4>1 DEF Dequeue
    <3>3. \A r \in Sessions : Taken(r)' <= Taken(r)
      BY <3>1 DEF Taken
    <3>4. QED
      BY <1>1, <3>1, <3>2, <3>3, PaidFrame
  <2>2. CASE \E e \in Minimal :
               /\ queue' = queue \ {e}
               /\ processor' = [processor EXCEPT !.pc = "load", !.session = e.session]
    <3>1. PICK e \in queue :
               /\ queue' = queue \ {e}
               /\ processor' = [processor EXCEPT !.pc = "load", !.session = e.session]
      BY <2>2 DEF Minimal
    <3>2. OneEntry'
      BY <3>1 DEF Paid, OneEntry
    <3>3. \A r \in Sessions :
             /\ Taken(r) = 0 /\ Taken(r)' = IF r = e.session THEN 1 ELSE 0
             /\ Waiting(r)' = IF r = e.session THEN 0 ELSE Waiting(r)
             /\ r = e.session => Waiting(r) = 1
      <4>1. processor.pc = "dequeue" /\ processor'.pc = "load" /\ processor'.session = e.session
        BY <1>4, <3>1 DEF Dequeue, ProcessorAt, ProcessorTypes
      <4>2. \A f \in queue : f.session = e.session => f = e
        BY DEF Paid, OneEntry
      <4>3. QED
        BY <3>1, <4>1, <4>2 DEF Taken, Waiting
    <3>4. ASSUME NEW r \in Sessions PROVE Claims(r)' <= Claims(r)
      <4>1. /\ starts[r] \in Nat /\ requests[r] \in Nat
            /\ Cardinality(Asking(r)) \in Nat /\ Waiting(r) \in {0, 1}
        BY <3>4, ClaimTypes
      <4>2. UNCHANGED <<starts, requests>>
        BY <1>4 DEF Dequeue, histVars
      <4>3. QED
        BY <1>2, <3>3, <3>4, <4>1, <4>2 DEF Claims
    <3>5. QED
      BY <1>1, <3>2, <3>4, PaidKept
  <2>3. QED
    BY <1>4, <2>1, <2>2 DEF Dequeue
<1>5. CASE ProcessorSpawn
  <2>1. p \in Sessions /\ processor.pc = "start" /\ UNCHANGED queue
    BY <1>5, ProcessorSession DEF ProcessorSpawn, ProcessorAt, redisVars
  <2>2. CASE p \in RunningTasks
    <3>1. UNCHANGED starts /\ processor'.pc = "undo"
      BY <1>5, <2>2 DEF ProcessorSpawn, ProcessorGoto, ProcessorTypes
    <3>2. \A r \in Sessions : Taken(r)' <= Taken(r)
      BY <3>1 DEF Taken
    <3>3. QED
      BY <1>1, <2>1, <3>1, <3>2, PaidFrame
  <2>3. CASE p \notin RunningTasks
    <3>1. starts' = [starts EXCEPT ![p] = @ + 1] /\ processor' = IdleProcessor
      BY <1>5, <2>3 DEF ProcessorSpawn, Spawn
    <3>2. \A r \in Sessions : Taken(r)' = 0 /\ Taken(r) = IF r = p THEN 1 ELSE 0
      BY <2>1, <3>1 DEF Taken, IdleProcessor
    <3>3. OneEntry' /\ \A r \in Sessions : Waiting(r)' = Waiting(r)
      BY <2>1 DEF Paid, OneEntry, Waiting
    <3>4. ASSUME NEW r \in Sessions PROVE Claims(r)' <= Claims(r)
      <4>1. /\ starts[r] \in Nat /\ requests[r] \in Nat
            /\ Cardinality(Asking(r)) \in Nat /\ Waiting(r) \in {0, 1}
        BY <3>4, ClaimTypes
      <4>2. /\ requests'[r] = requests[r]
            /\ starts'[r] = IF r = p THEN starts[r] + 1 ELSE starts[r]
        BY <1>1, <2>1, <3>1, <3>4 DEF HistTypes
      <4>3. QED
        BY <1>2, <3>2, <3>3, <3>4, <4>1, <4>2 DEF Claims
    <3>5. QED
      BY <1>1, <3>3, <3>4, PaidKept
  <2>4. QED
    BY <2>2, <2>3
<1>6. ASSUME NEW s \in Sessions, TimeoutRemove(s) PROVE Paid'
  <2>1. /\ queue' \subseteq queue /\ UNCHANGED starts
        /\ processor'.pc = "timeout"
    BY <1>6 DEF TimeoutRemove, Without, ProcessorAt, ProcessorTypes, histVars
  <2>2. OneEntry'
    BY <2>1 DEF Paid, OneEntry
  <2>3. \A r \in Sessions : Waiting(r)' <= Waiting(r) /\ Waiting(r)' \in {0, 1} /\ Taken(r)' = 0
    BY <2>1 DEF Waiting, Taken
  <2>4. ASSUME NEW r \in Sessions PROVE Claims(r)' <= Claims(r)
    <3>1. /\ starts[r] \in Nat /\ requests[r] \in Nat /\ Taken(r) \in {0, 1}
          /\ Cardinality(Asking(r)) \in Nat /\ Waiting(r) \in {0, 1}
      BY <2>4, ClaimTypes
    <3>2. QED
      BY <1>1, <1>2, <2>1, <2>3, <2>4, <3>1 DEF Claims
  <2>5. QED
    BY <1>1, <2>2, <2>4, PaidKept
<1>7. QED
  BY <1>3, <1>4, <1>5, <1>6 DEF ProcessorStep
\* The end of a process, and what comes before it.
LEMMA PaidShutdown ==
    ASSUME TypeOK, TypeOK', RowInv, Paid, ~Aged, Crash \/ Exit \/ StopProcessor \/ CancelAgents
    PROVE  Paid'
<1> USE DEF TypeOK
<1>1. CASE StopProcessor \/ CancelAgents
  <2>1. /\ server # "recovering" /\ server' # "recovering"
        /\ UNCHANGED <<attempts, queue, handler, starts, requests>>
        /\ processor' = processor \/ processor' = IdleProcessor
    BY <1>1 DEF StopProcessor, CancelAgents, dbVars, redisVars, histVars
  <2>2. \A s \in Sessions : Taken(s)' <= Taken(s)
    BY <2>1 DEF Taken, IdleProcessor
  <2>3. QED
    BY <2>1, <2>2, PaidFrame
<1>2. CASE EndProcess
  <2>1. /\ server' = "recovering" /\ handler' = [h \in Handlers |-> Idle]
        /\ processor' = IdleProcessor
        /\ UNCHANGED <<status, established, attempts, queue, starts, requests>>
    BY <1>2 DEF EndProcess, dbVars, redisVars, histVars
  <2>2. /\ \A s \in Sessions : s \in recovery'.todo <=> status[s] \in {"running", "queued"}
        /\ \A s \in Sessions : recovery'.staged[s] = "none"
    <3>1. PICK todo \in SUBSET {s \in Sessions : status[s] \in {"running", "queued"}} :
             /\ \A s \in Sessions : status[s] \in {"running", "queued"} => s \in todo
             /\ recovery' = [NoRecovery EXCEPT !.todo = todo]
      BY <1>2 DEF EndProcess
    <3>2. recovery'.todo = todo /\ \A s \in Sessions : recovery'.staged[s] = "none"
      BY <3>1 DEF NoRecovery
    <3>3. QED
      BY <3>1, <3>2
  <2>3. OneEntry' /\ Recoverable'
    BY <2>1, <2>2 DEF Paid, OneEntry, Recoverable
  <2>4. \A s \in Sessions : GiveUp(s)' <=> GiveUp(s)
    BY <2>1 DEF GiveUp
  <2>5. \A s \in Sessions : Owed(s) <= Owed(s)'
    BY <2>1, <2>2, <2>4 DEF Owed, Paid, Recoverable
  <2>6. \A s \in Sessions : Waiting(s)' = Waiting(s) /\ Taken(s)' = 0
    BY <2>1 DEF Waiting, Taken, IdleProcessor
  <2>7. \A s \in Sessions : Cardinality(Asking(s))' = 0
    <3>1. \A s \in Sessions : Asking(s)' = {}
      BY <2>1 DEF Asking, Asks, Idle
    <3>2. QED
      BY <3>1, FS_EmptySet
  <2>8. ASSUME NEW s \in Sessions
        PROVE  starts'[s] - requests'[s] <= attempts'[s] /\ Claims(s)' <= attempts'[s] + Owed(s)'
    <3>1. /\ starts[s] \in Nat /\ requests[s] \in Nat /\ attempts[s] \in Nat
          /\ Cardinality(Asking(s)) \in Nat
          /\ Waiting(s) \in {0, 1} /\ Taken(s) \in {0, 1} /\ Owed(s) \in {0, 1}
      BY <2>8, ClaimTypes
    <3>2. starts[s] - requests[s] <= attempts[s] /\ Claims(s) <= attempts[s] + Owed(s)
      BY <2>8 DEF Paid, Balance
    <3>3. Owed(s)' \in {0, 1} /\ Owed(s) <= Owed(s)'
      BY <2>5, <2>8 DEF Owed
    <3>4. QED
      BY <2>1, <2>6, <2>7, <2>8, <3>1, <3>2, <3>3 DEF Claims
  <2>9. QED
    BY <2>3, <2>8 DEF Paid, Balance
<1>3. QED
  BY <1>1, <1>2 DEF Crash, Exit

\* The lifespan puts sessions into the queue and records that at its end.
LEMMA PaidRecovery ==
    ASSUME TypeOK, TypeOK', RowInv, Paid, MaxQueueSize = 0, RecoverStep
    PROVE  Paid'
<1> USE DEF TypeOK
<1>1. server = "recovering" /\ UNCHANGED <<handler, processor, starts, requests>>
  BY DEF RecoverStep, RecoverSession, RecoverCommit, histVars
<1>2. \A r \in Sessions : Taken(r)' = Taken(r) /\ Taken(r) = 0 /\ Asking(r) = {} /\ Asking(r)' = {}
  BY <1>1 DEF Taken, Asking, Asks, RowInv, RecoveryIsAlone, Idle, IdleProcessor
<1>3. \A r \in Sessions : Cardinality(Asking(r)) = 0 /\ Cardinality(Asking(r))' = 0
  BY <1>2, FS_EmptySet
<1>4. ASSUME NEW s \in Sessions, RecoverSession(s) PROVE Paid'
  <2>1. /\ s \in recovery.todo /\ server' = "recovering"
        /\ UNCHANGED <<status, established, attempts>>
        /\ recovery'.todo = recovery.todo \ {s}
        /\ \A r \in Sessions \ {s} : recovery'.staged[r] = recovery.staged[r]
    BY <1>1, <1>4 DEF RecoverSession, LifeTypes, dbVars
  <2>2. \A r \in Sessions : GiveUp(r)' <=> GiveUp(r)
    BY <2>1 DEF GiveUp
  <2>3. /\ \A r \in Sessions \ {s} : Owed(r)' = Owed(r)
        /\ \A r \in Sessions : Waiting(r)' \in {0, 1} /\ Owed(r)' \in {0, 1}
    BY <1>1, <2>1, <2>2 DEF Owed, Waiting
  <2>4. CASE GiveUp(s)
    <3>1. recovery'.staged[s] = "failed" /\ UNCHANGED queue
      BY <1>4, <2>4 DEF RecoverSession, LifeTypes
    <3>2. OneEntry' /\ Recoverable'
      BY <1>1, <2>1, <2>2, <3>1 DEF Paid, OneEntry, Recoverable
    <3>3. Owed(s) = 0 /\ \A r \in Sessions : Waiting(r)' = Waiting(r)
      BY <1>1, <2>1, <2>4, <3>1 DEF Owed, Waiting, Paid, Recoverable
    <3>4. ASSUME NEW r \in Sessions
          PROVE  /\ starts'[r] - requests'[r] <= attempts'[r]
                 /\ Claims(r)' <= attempts'[r] + Owed(r)'
      <4>1. starts[r] \in Nat /\ requests[r] \in Nat /\ attempts[r] \in Nat
            /\ Waiting(r) \in {0, 1}
        BY <3>4, ClaimTypes
      <4>2. starts[r] - requests[r] <= attempts[r] /\ Claims(r) <= attempts[r] + Owed(r)
        BY <3>4 DEF Paid, Balance
      <4>3. Owed(r) <= Owed(r)' /\ Owed(r) \in {0, 1} /\ Owed(r)' \in {0, 1}
        BY <2>3, <3>3, <3>4, ClaimTypes
      <4>4. QED
        BY <1>1, <1>2, <1>3, <2>1, <3>3, <3>4, <4>1, <4>2, <4>3 DEF Claims
    <3>5. QED
      BY <3>2, <3>4 DEF Paid, Balance
  <2>5. CASE ~GiveUp(s)
    <3>1. PICK priority \in Nat :
             recovery'.staged[s] = "queued" /\ queue' = Without(s) \cup {Entry(s, priority)}
      BY <1>4, <2>5 DEF RecoverSession, LifeTypes, PriorityAutoResume, PriorityQueuedRecovery
    <3>2. Entry(s, priority).session = s
      BY DEF Entry
    <3>3. OneEntry'
      BY <3>1, <3>2 DEF Paid, OneEntry, Without
    <3>4. Recoverable'
      BY <1>1, <2>1, <2>2, <2>5 DEF Paid, Recoverable
    <3>5. Owed(s)' = 1 /\ \A r \in Sessions \ {s} : Waiting(r)' = Waiting(r)
      BY <2>1, <3>1, <3>2 DEF Owed, Waiting, Without
    <3>6. ASSUME NEW r \in Sessions
          PROVE  /\ starts'[r] - requests'[r] <= attempts'[r]
                 /\ Claims(r)' <= attempts'[r] + Owed(r)'
      <4>1. /\ starts[r] \in Nat /\ requests[r] \in Nat /\ attempts[r] \in Nat
            /\ Waiting(r) \in {0, 1} /\ Owed(r) \in {0, 1}
        BY <3>6, ClaimTypes
      <4>2. starts[r] - requests[r] <= attempts[r] /\ Claims(r) <= attempts[r] + Owed(r)
        BY <3>6 DEF Paid, Balance
      <4>3. starts'[r] = starts[r] /\ requests'[r] = requests[r] /\ attempts'[r] = attempts[r]
        BY <1>1, <2>1
      <4>4. CASE r = s
        BY <1>2, <1>3, <2>3, <3>5, <4>1, <4>2, <4>3, <4>4 DEF Claims
      <4>5. CASE r # s
        BY <1>2, <1>3, <2>3, <3>5, <3>6, <4>1, <4>2, <4>3, <4>5 DEF Claims
      <4>6. QED
        BY <4>4, <4>5
    <3>7. QED
      BY <3>3, <3>4, <3>6 DEF Paid, Balance
  <2>6. QED
    BY <2>4, <2>5
<1>5. CASE RecoverCommit
  <2>1. /\ server' = "up" /\ recovery.todo = {} /\ UNCHANGED queue
        /\ \A r \in Sessions :
              attempts'[r] = IF recovery.staged[r] = "queued" THEN attempts[r] + 1
                                                             ELSE attempts[r]
    BY <1>5 DEF RecoverCommit, redisVars
  <2>2. OneEntry' /\ Recoverable'
    BY <2>1 DEF Paid, OneEntry, Recoverable
  <2>3. ASSUME NEW r \in Sessions
        PROVE  /\ starts'[r] - requests'[r] <= attempts'[r]
               /\ Claims(r)' <= attempts'[r] + Owed(r)'
    <3>1. /\ starts[r] \in Nat /\ requests[r] \in Nat /\ attempts[r] \in Nat
          /\ Waiting(r) \in {0, 1}
      BY <2>3, ClaimTypes
    <3>2. starts[r] - requests[r] <= attempts[r] /\ Claims(r) <= attempts[r] + Owed(r)
      BY <2>3 DEF Paid, Balance
    <3>3. attempts'[r] = attempts[r] + Owed(r) /\ Owed(r)' = 0 /\ Owed(r) \in {0, 1}
      BY <1>1, <2>1, <2>3, <3>1 DEF Owed
    <3>4. Waiting(r)' = Waiting(r)
      BY <2>1 DEF Waiting
    <3>5. QED
      BY <1>1, <1>2, <1>3, <2>3, <3>1, <3>2, <3>3, <3>4 DEF Claims
  <2>4. QED
    BY <2>2, <2>3 DEF Paid, Balance
<1>6. QED
  BY <1>4, <1>5 DEF RecoverStep

\* Where the queue is not bounded, no call of Redis fails and a recovery takes
\* every session: an execution that was started, that waits in the queue, that
\* the processor took from it or that a request may still start was asked for,
\* or is a resume attempt that is on record or that this recovery will record.
THEOREM PaidInvariant == Spec => []PaidInv
<1>1. Init => PaidInv
  <2> SUFFICES ASSUME Init PROVE Paid
    BY DEF PaidInv
  <2>1. OneEntry /\ Recoverable
    BY DEF Init, OneEntry, Recoverable
  <2>2. ASSUME NEW s \in Sessions
        PROVE  starts[s] - requests[s] <= attempts[s] /\ Claims(s) <= attempts[s] + Owed(s)
    <3>1. starts[s] = 0 /\ requests[s] = 0 /\ attempts[s] = 0
      BY <2>2 DEF Init
    <3>2. Waiting(s) = 0 /\ Taken(s) = 0 /\ Owed(s) = 0
      BY DEF Init, Waiting, Taken, Owed, IdleProcessor
    <3>3. Asking(s) = {}
      BY DEF Init, Asking, Asks, Idle
    <3>4. Cardinality(Asking(s)) = 0
      BY <3>3, FS_EmptySet
    <3>5. QED
      BY <3>1, <3>2, <3>4 DEF Claims
  <2>3. QED
    BY <2>1, <2>2 DEF Paid, Balance
<1>2. TypeOK /\ TypeOK' /\ RowInv /\ PaidInv /\ [Next]_vars => PaidInv'
  <2> SUFFICES ASSUME TypeOK, TypeOK', RowInv, Paid, [Next]_vars, Payable PROVE Paid'
    BY DEF PaidInv, Payable
  <2>1. MaxQueueSize = 0 /\ ~RedisFaults /\ ~Aged
    BY DEF Payable
  <2>2. CASE UNCHANGED vars
    <3>1. /\ OneEntry' /\ Recoverable'
          /\ \A s \in Sessions : Claims(s)' = Claims(s) /\ Owed(s)' = Owed(s)
      <4>1. UNCHANGED <<queue, recovery, server, status, attempts, established, starts, requests,
                        handler, processor>>
        BY <2>2 DEF vars, dbVars, redisVars, lifeVars, histVars
      <4>2. OneEntry' /\ Recoverable'
        BY <4>1 DEF Paid, OneEntry, Recoverable, GiveUp
      <4>3. \A s \in Sessions : Asking(s)' = Asking(s)
        BY <4>1 DEF Asking, Asks
      <4>4. \A s \in Sessions : Owed(s)' = Owed(s) /\ Waiting(s)' = Waiting(s) /\ Taken(s)' = Taken(s)
        BY <4>1 DEF Owed, Waiting, Taken, GiveUp
      <4>5. \A s \in Sessions : Claims(s)' = Claims(s)
        BY <4>1, <4>3, <4>4 DEF Claims
      <4>6. QED
        BY <4>2, <4>4, <4>5
    <3>2. UNCHANGED <<attempts, starts, requests>>
      BY <2>2 DEF vars, dbVars, histVars
    <3>3. QED
      BY <3>1, <3>2 DEF Paid, Balance
  <2>3. ~(\E h \in Handlers : HandlerRedisFault(h)) /\ ~ProcessorRedisFault /\ ~RecoverAbort
    BY <2>1 DEF HandlerRedisFault, ProcessorRedisFault, RecoverAbort, QueueFull
  <2>4. CASE Next
    BY <2>1, <2>3, <2>4, PaidHandler, PaidAgent, PaidProcessor, PaidShutdown, PaidRecovery DEF Next
  <2>5. QED
    BY <2>2, <2>4
<1>3. QED
  BY <1>1, <1>2, TypeCorrect, RowInvariant, PTL DEF Spec

\* No interleaving of requests, processor, crashes and recoveries runs a session
\* once more than users asked for and the recorded resume attempts allow.
THEOREM StartsArePaid == Spec => []PaidStarts
<1>1. TypeOK /\ PaidInv => PaidStarts
  BY DEF PaidInv, Paid, Balance, Payable, PaidStarts, TypeOK, HistTypes, DbTypes
<1>2. QED
  BY <1>1, PaidInvariant, TypeCorrect, PTL
=============================================================================
