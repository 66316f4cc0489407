------------------------- MODULE EventStreamProofs -------------------------
(***************************************************************************)
(* Types of EventStream, and that a subscription skips nothing, for every  *)
(* bound and any order of publication.                                     *)
(***************************************************************************)
EXTENDS EventStream, TLAPS

\* Numbers taken from the database or from the tracer do not run ahead of the
\* events created.
Bounded ==
    /\ \A e \in table : e.seq <= count
    /\ \A t \in tasks : t.event.seq <= count

\* What TypeOK says of a client that has stopped.
Quiet == stopped => source = "none" /\ connects = 0 /\ ~heartbeat /\ ~polling

TypeInv == TypeOK /\ Bounded

USE DEF Kinds, Terminal, ErrorSeq, Stages, Steps

LEMMA ConstantTypes == /\ MaxEvents \in Nat \ {0, 1} /\ Retries \in Nat /\ MaxFailures \in Nat
                       /\ StreamingError \in Event /\ NoPoll \subseteq Event
                       /\ Messages \subseteq {"partial", "plain", "question", "position"}
  BY StreamAssumption DEF StreamingError, NoPoll, Event

\* The numbers of a set of events.
LEMMA SeqsBounded ==
  ASSUME NEW S \in SUBSET Event, NEW m \in Nat, \A e \in S : e.seq <= m
  PROVE  Greatest(Seqs(S)) \subseteq 0 .. m
  BY DEF Greatest, Seqs, Event

LEMMA SeqsType ==
  ASSUME NEW S \in SUBSET Event
  PROVE  Seqs(S) \subseteq 1 .. ErrorSeq
  BY DEF Seqs, Event

\* A new event has a number of its own or a used one, never a later one.
LEMMA NewEventType ==
  ASSUME TypeInv, NEW seq \in 1 .. count + 1, NEW kind \in Kinds,
         NEW step \in Steps,
         NewEvent(seq, kind, step)
  PROVE  /\ count' \in 1 .. MaxEvents
         /\ count' = count + 1
         /\ tasks' \subseteq [event : Event, step : Steps]
         /\ \A t \in tasks' : t.event.seq <= count'
  <1>1. count + 1 \in 1 .. MaxEvents
    BY ConstantTypes DEF NewEvent, TypeInv, TypeOK
  <1>. DEFINE new == [event |-> [id |-> count + 1, seq |-> seq, kind |-> kind], step |-> step]
  <1>2. new \in [event : Event, step : Steps]
    BY <1>1, ConstantTypes DEF TypeInv, TypeOK, Event
  <1>3. new.event.seq <= count + 1
    BY DEF TypeInv, TypeOK
  <1>. QED  BY <1>1, <1>2, <1>3 DEF NewEvent, TypeInv, TypeOK, Bounded, Event

LEMMA AdvanceType ==
  ASSUME TypeInv, NEW t \in tasks,
         NEW step \in Steps, Advance(t, step)
  PROVE  /\ tasks' \subseteq [event : Event, step : Steps]
         /\ \A u \in tasks' : u.event.seq <= count
  <1>. DEFINE moved == [t EXCEPT !.step = step]
  <1>1. t \in [event : Event, step : Steps]
    BY DEF TypeInv, TypeOK
  <1>2. /\ moved \in [event : Event, step : Steps]
        /\ moved.event = t.event
    BY <1>1
  <1>. QED  BY <1>2 DEF Advance, TypeInv, TypeOK, Bounded

LEMMA LastSequenceType ==
  ASSUME TypeInv, NEW n \in 0 .. MaxEvents, LastSequence(n)
  PROVE  n \in 0 .. count /\ failures' \in 0 .. MaxFailures
  <1>1. table \in SUBSET Event /\ count \in Nat /\ \A e \in table : e.seq <= count
    BY DEF TypeInv, TypeOK, Bounded
  <1>2. Greatest(Seqs(table)) \subseteq 0 .. count
    BY <1>1, SeqsBounded
  <1>3. failures' \in 0 .. MaxFailures
    BY ConstantTypes DEF LastSequence, Fails, TypeInv, TypeOK
  <1>. QED  BY <1>1, <1>2, <1>3 DEF LastSequence

LEMMA FailsType ==
  ASSUME TypeInv, Fails
  PROVE  failures' \in 0 .. MaxFailures
  BY ConstantTypes DEF Fails, TypeInv, TypeOK

\* What onEvent leaves behind.
LEMMA ShowType ==
  ASSUME TypeInv, NEW events \in SUBSET Event, Show(events)
  PROVE  /\ seen' \subseteq 1 .. ErrorSeq
         /\ shown' \subseteq Event /\ repeated' \subseteq shown'
         /\ stopped' \in BOOLEAN /\ polling' \in BOOLEAN
         /\ heartbeat' \in BOOLEAN /\ connects' \in Nat
         /\ source' \in {"none", source}
         /\ conn' \in {conn, Closed}
         /\ Quiet'
  <1>1. Seqs(events) \subseteq 1 .. ErrorSeq
    BY SeqsType
  <1>2. stopped' \in BOOLEAN
    BY DEF Show
  <1>3. polling' \in BOOLEAN /\ heartbeat' \in BOOLEAN
    BY DEF Show
  <1>4. Quiet'
    BY DEF Show, Quiet
  <1>. QED  BY <1>1, <1>2, <1>3, <1>4 DEF Show, TypeInv, TypeOK

LEMMA ClosedType == Closed \in [open : BOOLEAN, start : 0 .. ErrorSeq, cursor : {0},
                                sent : SUBSET (1 .. ErrorSeq)]
  BY ConstantTypes DEF Closed

\* A client with a source or a timer has not stopped, and it tries again.
LEMMA RetryType ==
  ASSUME TypeInv, Retry, heartbeat' \in {heartbeat, FALSE}, source # "none" \/ heartbeat
  PROVE  /\ attempts' \in Nat /\ connects' \in Nat
         /\ source' = "none"
         /\ heartbeat' \in BOOLEAN /\ polling' \in BOOLEAN
         /\ label' \in {"reconnecting", "polling"}
         /\ poll' \subseteq Event
         /\ lastId' \in 0 .. ErrorSeq
         /\ seen' \subseteq 1 .. ErrorSeq
         /\ shown' \subseteq Event /\ repeated' \subseteq shown'
         /\ stopped' \in BOOLEAN
         /\ Quiet'
  <1>1. ~stopped /\ stopped' = stopped
    BY DEF Retry, TypeInv, TypeOK
  <1>2. attempts' \in Nat
    BY DEF Retry, TypeInv, TypeOK
  <1>3. connects' \in Nat
    BY DEF Retry, TypeInv, TypeOK
  <1>4. source' = "none" /\ label' \in {"reconnecting", "polling"}
    BY DEF Retry
  <1>5. polling' = polling \/ polling' = TRUE
    BY DEF Retry
  <1>6. Quiet'
    BY <1>1 DEF Quiet
  <1>. QED  BY <1>2, <1>3, <1>4, <1>5, <1>6 DEF Retry, TypeInv, TypeOK

-----------------------------------------------------------------------------
LEMMA InitType == Init => TypeInv
  <1>. SUFFICES ASSUME Init PROVE TypeInv
    OBVIOUS
  <1>1. FirstMessage \in Event /\ FirstMessage.seq = 1
    BY ConstantTypes DEF FirstMessage, Event
  <1>2. stream \in Seq(Event) /\ table \subseteq Event /\ wire \in Seq(Event)
    BY <1>1 DEF Init
  <1>3. \A e \in table : e.seq <= count
    BY <1>1 DEF Init
  <1>4. conn \in [open : BOOLEAN, start : 0 .. ErrorSeq, cursor : 0 .. Len(stream),
                  sent : SUBSET (1 .. ErrorSeq)]
    BY <1>2, ConstantTypes DEF Init, Closed
  <1>5. count \in 1 .. MaxEvents /\ tracerSeq \in 0 .. count /\ attempts \in Nat
    BY ConstantTypes DEF Init
  <1>6. lastId \in 0 .. ErrorSeq /\ failures \in 0 .. MaxFailures
    BY ConstantTypes DEF Init
  <1>7. poll \subseteq Event
    BY ConstantTypes DEF Init
  <1>8. TypeOK
    BY <1>2, <1>4, <1>5, <1>6, <1>7 DEF Init, TypeOK
  <1>9. Bounded
    BY <1>3, ConstantTypes DEF Init, Bounded
  <1>. QED  BY <1>8, <1>9 DEF TypeInv

\* What a step leaves alone.
Rest == <<conn, wire, client>>

\* The events created by the agent and the endpoints.
LEMMA MessageType ==
  ASSUME TypeInv, UNCHANGED <<stream, table, Rest>>, agent' \in Stages, scan' \in BOOLEAN,
         tracerSeq' \in 0 .. count', failures' \in 0 .. MaxFailures,
         count' \in 1 .. MaxEvents, count' = count + 1,
         tasks' \subseteq [event : Event, step : Steps],
         \A t \in tasks' : t.event.seq <= count'
  PROVE  TypeInv'
  <1>1. UNCHANGED <<stream, table, conn, wire>> /\ UNCHANGED client
    BY DEF Rest
  <1>2. conn' \in [open : BOOLEAN, start : 0 .. ErrorSeq, cursor : 0 .. Len(stream'),
                   sent : SUBSET (1 .. ErrorSeq)]
    BY <1>1 DEF TypeInv, TypeOK
  <1>3. \A e \in table' : e.seq <= count'
    BY <1>1 DEF TypeInv, TypeOK, Bounded, Event
  <1>4. TypeOK'
    BY <1>1, <1>2 DEF TypeInv, TypeOK, client
  <1>5. Bounded'
    BY <1>1, <1>3 DEF TypeInv, Bounded, client
  <1>. QED  BY <1>4, <1>5 DEF TypeInv

LEMMA EmitType ==
  ASSUME TypeInv, NEW kind \in Kinds, Emit(kind),
         agent' \in Stages,
         scan' \in BOOLEAN
  PROVE  TypeInv'
  <1>1. tracerSeq + 1 \in 1 .. count + 1
    BY DEF TypeInv, TypeOK
  <1>2. NewEvent(tracerSeq + 1, kind, "publish") /\ tracerSeq' = tracerSeq + 1
    BY DEF Emit
  <1>3. /\ count' \in 1 .. MaxEvents
        /\ count' = count + 1
        /\ tasks' \subseteq [event : Event, step : Steps]
        /\ \A t \in tasks' : t.event.seq <= count'
    BY <1>1, <1>2, NewEventType
  <1>4. tracerSeq' \in 0 .. count'
    BY <1>1, <1>2, <1>3
  <1>5. failures' \in 0 .. MaxFailures /\ UNCHANGED <<stream, table, Rest>>
    BY DEF Emit, TypeInv, TypeOK, Rest
  <1>. QED  BY <1>3, <1>4, <1>5, MessageType

\* A number from the database.
LEMMA DirectType ==
  ASSUME TypeInv, NEW n \in 0 .. MaxEvents, LastSequence(n), NEW kind \in Kinds,
         NewEvent(n + 1, kind, "record"),
         UNCHANGED <<tracerSeq, scan, stream, table, conn, wire, client>>,
         agent' \in Stages
  PROVE  TypeInv'
  <1>1. n \in 0 .. count /\ failures' \in 0 .. MaxFailures
    BY LastSequenceType
  <1>2. n + 1 \in 1 .. count + 1
    BY <1>1 DEF TypeInv, TypeOK
  <1>3. /\ count' \in 1 .. MaxEvents
        /\ count' = count + 1
        /\ tasks' \subseteq [event : Event, step : Steps]
        /\ \A t \in tasks' : t.event.seq <= count'
    BY <1>2, NewEventType
  <1>4. tracerSeq' \in 0 .. count' /\ scan' \in BOOLEAN
    BY <1>3 DEF TypeInv, TypeOK
  <1>5. UNCHANGED <<stream, table, Rest>>
    BY DEF Rest
  <1>. QED  BY <1>1, <1>3, <1>4, <1>5, MessageType

LEMMA QueueEventType ==
  ASSUME TypeInv, NEW kind \in Kinds, EmitQueueEvent(kind), agent' \in Stages
  PROVE  TypeInv'
  <1>1. PICK n \in 0 .. MaxEvents : LastSequence(n) /\ NewEvent(n + 1, kind, "record")
    BY DEF EmitQueueEvent
  <1>2. UNCHANGED <<tracerSeq, scan, stream, table, conn, wire, client>>
    BY DEF EmitQueueEvent
  <1>. QED  BY <1>1, <1>2, DirectType

LEMMA PublishType ==
  ASSUME TypeInv, NEW t \in tasks, Publish(t)
  PROVE  TypeInv'
  <1>1. t.event \in Event
    BY DEF TypeInv, TypeOK
  <1>2. /\ tasks' \subseteq [event : Event, step : Steps]
        /\ \A u \in tasks' : u.event.seq <= count
    <2>1. CASE tasks' = tasks \ {t}
      BY <2>1 DEF TypeInv, TypeOK, Bounded
    <2>2. CASE Advance(t, "persist")
      BY <2>2, AdvanceType
    <2>. QED  BY <2>1, <2>2 DEF Publish
  <1>3. stream' \in Seq(Event) /\ Len(stream') >= Len(stream)
    <2>1. stream' = stream \/ stream' = Append(stream, t.event)
      BY DEF Publish, Append1
    <2>2. stream \in Seq(Event)
      BY DEF TypeInv, TypeOK
    <2>. QED  BY <1>1, <2>1, <2>2
  <1>4. failures' \in 0 .. MaxFailures
    BY FailsType DEF Publish, TypeInv, TypeOK
  <1>5. conn' \in [open : BOOLEAN, start : 0 .. ErrorSeq, cursor : 0 .. Len(stream'),
                   sent : SUBSET (1 .. ErrorSeq)]
    BY <1>3 DEF Publish, TypeInv, TypeOK
  <1>. QED  BY <1>2, <1>3, <1>4, <1>5 DEF Publish, TypeInv, TypeOK, Bounded, client

LEMMA PersistType ==
  ASSUME TypeInv, NEW t \in tasks, Persist(t)
  PROVE  TypeInv'
  <1>1. failures' \in 0 .. MaxFailures
    BY FailsType DEF Persist, TypeInv, TypeOK
  <1>2. table' \subseteq Event /\ \A e \in table' : e.seq <= count
    BY DEF Persist, TypeInv, TypeOK, Bounded
  <1>3. /\ tasks' \subseteq [event : Event, step : Steps]
        /\ \A u \in tasks' : u.event.seq <= count
    BY DEF Persist, TypeInv, TypeOK, Bounded
  <1>. QED  BY <1>1, <1>2, <1>3 DEF Persist, TypeInv, TypeOK, Bounded, client

LEMMA RecordType ==
  ASSUME TypeInv, NEW t \in tasks, Record(t)
  PROVE  TypeInv'
  <1>1. failures' \in 0 .. MaxFailures
    BY FailsType DEF Record, TypeInv, TypeOK
  <1>2. table' \subseteq Event /\ \A e \in table' : e.seq <= count
    BY DEF Record, TypeInv, TypeOK, Bounded
  <1>3. /\ tasks' \subseteq [event : Event, step : Steps]
        /\ \A u \in tasks' : u.event.seq <= count
    BY AdvanceType DEF Record
  <1>. QED  BY <1>1, <1>2, <1>3 DEF Record, TypeInv, TypeOK, Bounded, client
\* A new connection starts after a number of an event that was shown.
LEMMA ConnectType ==
  ASSUME TypeInv, Connect
  PROVE  /\ source' = "connecting" /\ label' = "reconnecting" /\ attempts' = 0
         /\ connects' = 0 /\ heartbeat' = FALSE
         /\ polling' = polling /\ poll' = poll /\ shown' = shown /\ repeated' = repeated
         /\ seen' = {} /\ stopped' = FALSE
         /\ lastId' \in 0 .. ErrorSeq
  <1>1. {e \in shown : e.kind # "user"} \in SUBSET Event
    BY DEF TypeInv, TypeOK
  <1>2. ErrorSeq \in Nat /\ \A e \in Event : e.seq <= ErrorSeq
    BY ConstantTypes DEF Event
  <1>3. Greatest(Seqs({e \in shown : e.kind # "user"})) \subseteq 0 .. ErrorSeq
    BY <1>1, <1>2, SeqsBounded
  <1>. QED  BY <1>3 DEF Connect

LEMMA AnnounceType ==
  ASSUME TypeInv, NEW t \in tasks, Announce(t)
  PROVE  TypeInv'
  <1>1. t.event \in Event
    BY DEF TypeInv, TypeOK
  <1>2. /\ tasks' \subseteq [event : Event, step : Steps]
        /\ \A u \in tasks' : u.event.seq <= count
    BY DEF Announce, TypeInv, TypeOK, Bounded
  <1>3. stream' \in Seq(Event) /\ Len(stream') >= Len(stream)
    <2>1. stream' = stream \/ stream' = Append(stream, t.event)
      BY DEF Announce, Append1
    <2>2. stream \in Seq(Event)
      BY DEF TypeInv, TypeOK
    <2>. QED  BY <1>1, <2>1, <2>2
  <1>4. failures' \in 0 .. MaxFailures
    BY FailsType DEF Announce, TypeInv, TypeOK
  <1>5. conn' \in [open : BOOLEAN, start : 0 .. ErrorSeq, cursor : 0 .. Len(stream'),
                   sent : SUBSET (1 .. ErrorSeq)]
    BY <1>3 DEF Announce, TypeInv, TypeOK
  <1>6. agent' \in Stages
    BY DEF Announce, TypeInv, TypeOK
  <1>7. UNCHANGED <<count, tracerSeq, scan, table, wire>>
    BY DEF Announce
  <1>8. CASE UNCHANGED client
    BY <1>2, <1>3, <1>4, <1>5, <1>6, <1>7, <1>8 DEF TypeInv, TypeOK, Bounded, client
  <1>9. CASE Connect
    <2>1. /\ source' = "connecting" /\ label' = "reconnecting" /\ attempts' = 0
          /\ connects' = 0 /\ heartbeat' = FALSE
          /\ polling' = polling /\ poll' = poll /\ shown' = shown /\ repeated' = repeated
          /\ seen' = {} /\ stopped' = FALSE
          /\ lastId' \in 0 .. ErrorSeq
      BY <1>9, ConnectType
    <2>2. stopped' = FALSE
      BY <2>1
    <2>3. TypeOK'
      BY <2>1, <2>2, <1>2, <1>3, <1>4, <1>5, <1>6, <1>7 DEF TypeInv, TypeOK
    <2>4. Bounded'
      BY <2>1, <2>2, <1>2, <1>7 DEF TypeInv, Bounded
    <2>. QED  BY <2>3, <2>4 DEF TypeInv
  <1>. QED  BY <1>8, <1>9 DEF Announce

-----------------------------------------------------------------------------
(* Steps of the subscription and the client: the emitters stay.            *)

LEMMA FrameType ==
  ASSUME TypeInv, UNCHANGED emitters, failures' \in 0 .. MaxFailures,
         conn' \in [open : BOOLEAN, start : 0 .. ErrorSeq, cursor : 0 .. Len(stream),
                    sent : SUBSET (1 .. ErrorSeq)],
         wire' \in Seq(Event),
         source' \in {"none", "connecting", "open"},
         label' \in {"connected", "reconnecting", "polling", "degraded"},
         attempts' \in Nat, connects' \in Nat, heartbeat' \in BOOLEAN,
         polling' \in BOOLEAN, stopped' \in BOOLEAN,
         poll' \subseteq Event, lastId' \in 0 .. ErrorSeq, seen' \subseteq 1 .. ErrorSeq,
         shown' \subseteq Event, repeated' \subseteq shown', Quiet'
  PROVE  TypeInv'
  BY DEF TypeInv, TypeOK, Bounded, Quiet, emitters

\* The generator's steps.
LEMMA ConnType ==
  ASSUME TypeInv, UNCHANGED <<emitters, client>>, failures' \in 0 .. MaxFailures,
         conn' \in [open : BOOLEAN, start : 0 .. ErrorSeq, cursor : 0 .. Len(stream),
                    sent : SUBSET (1 .. ErrorSeq)],
         wire' \in Seq(Event)
  PROVE  TypeInv'
  <1>1. UNCHANGED emitters
    OBVIOUS
  <1>2. UNCHANGED client
    OBVIOUS
  <1>3. Quiet'
    BY <1>2 DEF TypeInv, TypeOK, Quiet, client
  <1>. QED  BY <1>1, <1>2, <1>3, FrameType DEF TypeInv, TypeOK, client

LEMMA ClosedFits ==
  ASSUME TypeInv
  PROVE  Closed \in [open : BOOLEAN, start : 0 .. ErrorSeq, cursor : 0 .. Len(stream),
                     sent : SUBSET (1 .. ErrorSeq)]
  <1>1. Len(stream) \in Nat
    BY DEF TypeInv, TypeOK
  <1>. QED  BY <1>1, ConstantTypes DEF Closed

LEMMA OpenType == TypeInv /\ Open => TypeInv'
  <1>. SUFFICES ASSUME TypeInv, Open PROVE TypeInv'
    OBVIOUS
  <1>1. PICK n \in FirstRead(lastId) :
           conn' = [open |-> TRUE, start |-> lastId, cursor |-> n, sent |-> {}]
    BY DEF Open, Subscribe
  <1>2. conn' \in [open : BOOLEAN, start : 0 .. ErrorSeq, cursor : 0 .. Len(stream),
                   sent : SUBSET (1 .. ErrorSeq)]
    BY <1>1 DEF FirstRead, TypeInv, TypeOK
  <1>3. UNCHANGED emitters
    BY DEF Open, Subscribe
  <1>4. Quiet'
    BY DEF Open, Subscribe, TypeInv, TypeOK, Quiet
  <1>. QED  BY <1>2, <1>3, <1>4, FrameType DEF Open, Subscribe, TypeInv, TypeOK

LEMMA ForwardType == TypeInv /\ Forward => TypeInv'
  <1>. SUFFICES ASSUME TypeInv, Forward PROVE TypeInv'
    OBVIOUS
  <1>. DEFINE e == stream[conn.cursor + 1]
  <1>0. /\ conn \in [open : BOOLEAN, start : 0 .. ErrorSeq, cursor : 0 .. Len(stream),
                     sent : SUBSET (1 .. ErrorSeq)]
        /\ wire \in Seq(Event) /\ stream \in Seq(Event) /\ failures \in 0 .. MaxFailures
    BY DEF TypeInv, TypeOK
  <1>1. conn.cursor + 1 \in 1 .. Len(stream)
    BY <1>0 DEF Forward, NextEntry
  <1>2. e \in Event
    BY <1>0, <1>1
  <1>3. [conn EXCEPT !.cursor = @ + 1] \in
             [open : BOOLEAN, start : 0 .. ErrorSeq, cursor : 0 .. Len(stream),
              sent : SUBSET (1 .. ErrorSeq)]
    BY <1>0, <1>1
  <1>4. [open |-> TRUE, start |-> conn.start, cursor |-> conn.cursor + 1,
         sent |-> conn.sent \cup {e.seq}] \in
             [open : BOOLEAN, start : 0 .. ErrorSeq, cursor : 0 .. Len(stream),
              sent : SUBSET (1 .. ErrorSeq)]
    <2>1. e.seq \in 1 .. ErrorSeq
      BY <1>2 DEF Event
    <2>. HIDE DEF e
    <2>. QED  BY <1>0, <1>1, <2>1
  <1>5. wire' = wire \/ wire' = Append(wire, e)
    BY DEF Forward, NextEntry
  <1>6. wire' \in Seq(Event)
    <2>. HIDE DEF e
    <2>1. wire \in Seq(Event)
      BY <1>0
    <2>. QED  BY <2>1, <1>2, <1>5
  <1>7. conn' \in [open : BOOLEAN, start : 0 .. ErrorSeq, cursor : 0 .. Len(stream),
                   sent : SUBSET (1 .. ErrorSeq)]
    BY <1>3, <1>4, ClosedFits DEF Forward, NextEntry
  <1>8. UNCHANGED <<emitters, client>> /\ failures' = failures
    BY DEF Forward, NextEntry
  <1>. QED  BY <1>0, <1>6, <1>7, <1>8, ConnType

\* Steps that close the subscription, with or without a last frame.
LEMMA CloseType ==
  ASSUME TypeInv, NEW e \in Event, UNCHANGED <<emitters, client>>, conn' = Closed,
         wire' \in {wire, Append(wire, e)}, Fails \/ UNCHANGED failures
  PROVE  TypeInv'
  <1>1. wire' \in Seq(Event)
    <2>1. wire \in Seq(Event)
      BY DEF TypeInv, TypeOK
    <2>. QED  BY <2>1
  <1>2. failures' \in 0 .. MaxFailures
    BY FailsType DEF TypeInv, TypeOK
  <1>. QED  BY <1>1, <1>2, ClosedFits, ConnType

LEMMA ServerStopsType == TypeInv /\ (Heartbeat \/ BreakStream \/ StopSubscriber) => TypeInv'
  <1>. SUFFICES ASSUME TypeInv PROVE (Heartbeat \/ BreakStream \/ StopSubscriber) => TypeInv'
    OBVIOUS
  <1>1. ASSUME Heartbeat PROVE TypeInv'
    <2>1. PICK e \in table : wire' = Append(wire, e)
      BY <1>1 DEF Heartbeat
    <2>2. e \in Event
      BY DEF TypeInv, TypeOK
    <2>3. UNCHANGED <<emitters, client>> /\ conn' = Closed /\ UNCHANGED failures
      BY <1>1 DEF Heartbeat
    <2>. QED  BY <2>1, <2>2, <2>3, CloseType
  <1>2. ASSUME BreakStream PROVE TypeInv'
    <2>1. /\ UNCHANGED <<emitters, client>> /\ conn' = Closed /\ Fails
          /\ wire' = Append(wire, StreamingError)
      BY <1>2 DEF BreakStream
    <2>. QED  BY <2>1, ConstantTypes, CloseType
  <1>3. ASSUME StopSubscriber PROVE TypeInv'
    <2>1. UNCHANGED <<emitters, client>> /\ conn' = Closed /\ Fails /\ wire' = wire
      BY <1>3 DEF StopSubscriber
    <2>. QED  BY <2>1, ConstantTypes, CloseType
  <1>. QED  BY <1>1, <1>2, <1>3

LEMMA ReceiveType == TypeInv /\ Receive => TypeInv'
  <1>. SUFFICES ASSUME TypeInv, Receive PROVE TypeInv'
    OBVIOUS
  <1>1. wire \in Seq(Event) /\ wire # <<>>
    BY DEF Receive, TypeInv, TypeOK
  <1>2. Head(wire) \in Event /\ Tail(wire) \in Seq(Event)
    BY <1>1
  <1>. DEFINE events == IF Head(wire).seq \in seen THEN {} ELSE {Head(wire)}
  <1>3. events \in SUBSET Event /\ Show(events)
    BY <1>2 DEF Receive
  <1>. HIDE DEF events
  <1>4. /\ seen' \subseteq 1 .. ErrorSeq
        /\ shown' \subseteq Event /\ repeated' \subseteq shown'
        /\ stopped' \in BOOLEAN /\ polling' \in BOOLEAN
        /\ heartbeat' \in BOOLEAN /\ connects' \in Nat
        /\ source' \in {"none", source}
        /\ conn' \in {conn, Closed}
        /\ Quiet'
    BY <1>3, ShowType
  <1>5. conn' \in [open : BOOLEAN, start : 0 .. ErrorSeq, cursor : 0 .. Len(stream),
                   sent : SUBSET (1 .. ErrorSeq)]
    BY <1>4, ClosedFits DEF TypeInv, TypeOK
  <1>6. wire' \in Seq(Event)
    BY <1>1, <1>2 DEF Receive
  <1>7. lastId' \in 0 .. ErrorSeq
    BY <1>2, ConstantTypes DEF Receive, Event
  <1>8. UNCHANGED <<emitters, label, attempts, poll, failures>>
    BY DEF Receive
  <1>9. UNCHANGED emitters
    BY <1>8
  <1>. QED  BY <1>4, <1>5, <1>6, <1>7, <1>8, <1>9, FrameType DEF TypeInv, TypeOK, Bounded

LEMMA PollAnswerType == TypeInv /\ PollAnswer => TypeInv'
  <1>. SUFFICES ASSUME TypeInv, PollAnswer PROVE TypeInv'
    OBVIOUS
  <1>1. PICK events \in SUBSET {e \in poll : e.seq \notin seen} :
           /\ Show(events)
           /\ LET handled == {e \in poll : \A f \in events : f.kind \in Terminal => e.seq <= f.seq}
              IN \E n \in Greatest(Seqs(handled) \cup {lastId}) : lastId' = n
    BY DEF PollAnswer
  <1>2. events \in SUBSET Event
    BY DEF TypeInv, TypeOK
  <1>3. /\ seen' \subseteq 1 .. ErrorSeq
        /\ shown' \subseteq Event /\ repeated' \subseteq shown'
        /\ stopped' \in BOOLEAN /\ polling' \in BOOLEAN
        /\ heartbeat' \in BOOLEAN /\ connects' \in Nat
        /\ source' \in {"none", source}
        /\ conn' \in {conn, Closed}
        /\ Quiet'
    BY <1>1, <1>2, ShowType
  <1>. DEFINE handled == {e \in poll : \A f \in events : f.kind \in Terminal => e.seq <= f.seq}
  <1>4. handled \in SUBSET Event
    BY DEF TypeInv, TypeOK
  <1>5. lastId' \in Seqs(handled) \cup {lastId, 0}
    BY <1>1 DEF Greatest
  <1>6. lastId' \in 0 .. ErrorSeq
    <2>. HIDE DEF handled
    <2>1. Seqs(handled) \subseteq 1 .. ErrorSeq
      BY <1>4, SeqsType
    <2>. QED  BY <1>5, <2>1, ConstantTypes DEF TypeInv, TypeOK
  <1>7. conn' \in [open : BOOLEAN, start : 0 .. ErrorSeq, cursor : 0 .. Len(stream),
                   sent : SUBSET (1 .. ErrorSeq)]
    BY <1>3, ClosedFits DEF TypeInv, TypeOK
  <1>8. wire' \in Seq(Event)
    BY DEF PollAnswer, TypeInv, TypeOK
  <1>9. label' \in {"connected", "reconnecting", "polling", "degraded"} /\ poll' \subseteq Event
    BY ConstantTypes DEF PollAnswer, TypeInv, TypeOK
  <1>10. UNCHANGED emitters /\ UNCHANGED <<attempts, failures>>
    BY DEF PollAnswer
  <1>. QED  BY <1>3, <1>6, <1>7, <1>8, <1>9, <1>10, FrameType DEF TypeInv, TypeOK, Bounded

LEMMA LostType == TypeInv /\ (StreamEnds \/ Drop \/ HeartbeatTimeout) => TypeInv'
  <1>. SUFFICES ASSUME TypeInv, StreamEnds \/ Drop \/ HeartbeatTimeout PROVE TypeInv'
    OBVIOUS
  <1>1. /\ Retry /\ UNCHANGED emitters
        /\ heartbeat' \in {heartbeat, FALSE} /\ (source # "none" \/ heartbeat)
    BY DEF StreamEnds, Drop, HeartbeatTimeout
  <1>2. /\ attempts' \in Nat /\ connects' \in Nat
        /\ source' = "none"
        /\ heartbeat' \in BOOLEAN /\ polling' \in BOOLEAN
        /\ label' \in {"reconnecting", "polling"}
        /\ poll' \subseteq Event
        /\ lastId' \in 0 .. ErrorSeq
        /\ seen' \subseteq 1 .. ErrorSeq
        /\ shown' \subseteq Event /\ repeated' \subseteq shown'
        /\ stopped' \in BOOLEAN
        /\ Quiet'
    BY <1>1, RetryType
  <1>3. failures' \in 0 .. MaxFailures
    BY FailsType DEF StreamEnds, Drop, HeartbeatTimeout, TypeInv, TypeOK
  <1>4. conn' \in [open : BOOLEAN, start : 0 .. ErrorSeq, cursor : 0 .. Len(stream),
                   sent : SUBSET (1 .. ErrorSeq)]
    BY ClosedFits DEF StreamEnds, Drop, HeartbeatTimeout, TypeInv, TypeOK
  <1>5. wire' \in Seq(Event)
    <2>1. wire \in Seq(Event)
      BY DEF TypeInv, TypeOK
    <2>2. wire' = wire \/ wire' = <<>>
      BY DEF StreamEnds, Drop, HeartbeatTimeout
    <2>3. <<>> \in Seq(Event)
      OBVIOUS
    <2>. QED  BY <2>1, <2>2, <2>3
  <1>. QED  BY <1>1, <1>2, <1>3, <1>4, <1>5, FrameType

LEMMA ClientType ==
  TypeInv /\ (Reconnect \/ Upgrade \/ Poll \/ PollFails) => TypeInv'
  <1>. SUFFICES ASSUME TypeInv PROVE (Reconnect \/ Upgrade \/ Poll \/ PollFails) => TypeInv'
    OBVIOUS
  <1>1. ASSUME Reconnect PROVE TypeInv'
    <2>1. UNCHANGED emitters /\ conn' = Closed /\ wire' = <<>> /\ source' = "connecting"
      BY <1>1 DEF Reconnect, Dial
    <2>2. connects \in Nat /\ ~stopped
      BY <1>1 DEF Reconnect, TypeInv, TypeOK
    <2>3. connects' \in Nat /\ Quiet'
      BY <1>1, <2>2 DEF Reconnect, Quiet
    <2>4. wire' \in Seq(Event)
      BY <2>1
    <2>. QED  BY <1>1, <2>1, <2>3, <2>4, ClosedFits, FrameType DEF Reconnect, TypeInv, TypeOK
  <1>2. ASSUME Upgrade PROVE TypeInv'
    <2>1. UNCHANGED emitters /\ conn' = Closed /\ wire' = <<>> /\ source' = "connecting"
      BY <1>2 DEF Upgrade, Dial
    <2>2. Quiet'
      BY <1>2 DEF Upgrade, Quiet, TypeInv, TypeOK
    <2>3. wire' \in Seq(Event)
      BY <2>1
    <2>. QED  BY <1>2, <2>1, <2>2, <2>3, ClosedFits, FrameType DEF Upgrade, TypeInv, TypeOK
  <1>3. ASSUME Poll PROVE TypeInv'
    <2>1. UNCHANGED emitters /\ Quiet'
      BY <1>3 DEF Poll, Quiet, TypeInv, TypeOK
    <2>2. poll' \subseteq Event
      BY <1>3 DEF Poll, TypeInv, TypeOK
    <2>. QED  BY <1>3, <2>1, <2>2, FrameType DEF Poll, TypeInv, TypeOK
  <1>4. ASSUME PollFails PROVE TypeInv'
    <2>1. UNCHANGED emitters /\ Quiet'
      BY <1>4 DEF PollFails, Quiet, TypeInv, TypeOK
    <2>2. poll' \subseteq Event /\ failures' \in 0 .. MaxFailures
      BY <1>4, ConstantTypes, FailsType DEF PollFails
    <2>. QED  BY <1>4, <2>1, <2>2, FrameType DEF PollFails, TypeInv, TypeOK
  <1>. QED  BY <1>1, <1>2, <1>3, <1>4

-----------------------------------------------------------------------------
LEMMA RunType == TypeInv /\ Run => TypeInv'
  <1>. SUFFICES ASSUME TypeInv PROVE Run => TypeInv'
    OBVIOUS
  <1>1. ASSUME StartTracer PROVE TypeInv'
    <2>1. PICK n \in 0 .. MaxEvents : LastSequence(n) /\ tracerSeq' = n
      BY <1>1 DEF StartTracer
    <2>2. n \in 0 .. count /\ failures' \in 0 .. MaxFailures
      BY <2>1, LastSequenceType
    <2>3. /\ UNCHANGED <<count, tasks, stream, table, conn, wire, client>>
          /\ agent' = "running" /\ scan' = FALSE
      BY <1>1 DEF StartTracer
    <2>. QED  BY <2>1, <2>2, <2>3 DEF TypeInv, TypeOK, Bounded, client
  <1>2. ASSUME NEW kind \in Terminal, EmitEnd(kind) PROVE TypeInv'
    <2>1. /\ agent' \in Stages
          /\ Emit(kind)
      BY <1>2 DEF EmitEnd
    <2>2. scan' \in BOOLEAN
      BY <1>2 DEF EmitEnd, TypeInv, TypeOK
    <2>. QED  BY <2>1, <2>2, EmitType
  <1>3. ASSUME Finish PROVE TypeInv'
    BY <1>3 DEF Finish, TypeInv, TypeOK, Bounded, client
  <1>4. ASSUME Queued PROVE TypeInv'
    <2>1. CASE Dequeue
      BY <2>1, QueueEventType DEF Dequeue
    <2>2. CASE StartQueued
      BY <2>2 DEF StartQueued, TypeInv, TypeOK, Bounded, client
    <2>3. CASE TimeoutQueued
      BY <2>3, QueueEventType DEF TimeoutQueued
    <2>. QED  BY <1>4, <2>1, <2>2, <2>3 DEF Queued
  <1>. QED  BY <1>1, <1>2, <1>3, <1>4 DEF Run, EndRun

LEMMA MessagesType == TypeInv /\ Message => TypeInv'
  <1>. SUFFICES ASSUME TypeInv PROVE Message => TypeInv'
    OBVIOUS
  <1>0. agent \in Stages
        /\ scan \in BOOLEAN
    BY DEF TypeInv, TypeOK
  <1>1. ASSUME NEW kind \in {"partial", "plain"}, EmitMessage(kind) PROVE TypeInv'
    BY <1>0, <1>1, EmitType DEF EmitMessage
  <1>2. ASSUME EmitAlert PROVE TypeInv'
    BY <1>0, <1>2, EmitType DEF EmitAlert
  <1>3. ASSUME Ask PROVE TypeInv'
    <2>1. PICK n \in 0 .. MaxEvents : LastSequence(n) /\ NewEvent(n + 1, "plain", "record")
      BY <1>3 DEF Ask
    <2>2. UNCHANGED <<tracerSeq, scan, stream, table, conn, wire, client>> /\ agent' = agent
      BY <1>3 DEF Ask
    <2>. QED  BY <1>0, <2>1, <2>2, DirectType
  <1>4. ASSUME Submit PROVE TypeInv'
    <2>1. PICK n \in 0 .. MaxEvents : LastSequence(n) /\ NewEvent(n + 1, "user", "record")
      BY <1>4 DEF Submit
    <2>2. /\ UNCHANGED <<tracerSeq, scan, stream, table, conn, wire, client>>
          /\ agent' = "submitted"
      BY <1>4 DEF Submit
    <2>. QED  BY <2>1, <2>2, DirectType
  <1>5. ASSUME UpdatePosition PROVE TypeInv'
    BY <1>0, <1>5, QueueEventType DEF UpdatePosition
  <1>. QED  BY <1>1, <1>2, <1>3, <1>4, <1>5 DEF Message

LEMMA StepType == TypeInv /\ [Next]_vars => TypeInv'
  <1>. SUFFICES ASSUME TypeInv, [Next]_vars PROVE TypeInv'
    OBVIOUS
  <1>1. CASE Run
    BY <1>1, RunType
  <1>2. CASE Task
    BY <1>2, PublishType, PersistType, RecordType, AnnounceType DEF Task
  <1>3. CASE Message
    BY <1>3, MessagesType
  <1>4. CASE Serve
    BY <1>4, OpenType, ForwardType, ServerStopsType DEF Serve
  <1>5. CASE Follow
    BY <1>5, ReceiveType, LostType, ClientType DEF Follow
  <1>6. CASE PollTable
    BY <1>6, PollAnswerType, ClientType DEF PollTable
  <1>7. CASE Upgrade
    BY <1>7, ClientType
  <1>8. CASE Failure
    BY <1>8, ServerStopsType, LostType, ClientType DEF Failure
  <1>9. CASE UNCHANGED vars
    BY <1>9 DEF TypeInv, TypeOK, Bounded, vars, emitters, client
  <1>. QED  BY <1>1, <1>2, <1>3, <1>4, <1>5, <1>6, <1>7, <1>8, <1>9 DEF Next

\* The parts keep their types, whatever fails and in whatever order events are
\* published: no number runs ahead of the events created, and a client that has
\* stopped has no connection and no timer left.
THEOREM TypeCorrect == Spec => []TypeOK
  <1>1. TypeInv => TypeOK
    BY DEF TypeInv
  <1>. QED  BY <1>1, InitType, StepType, PTL DEF Spec

-----------------------------------------------------------------------------
(* No event is skipped.  The invariant splits the promise in two: what the *)
(* generator has gone past is in its set of numbers, and the set's numbers *)
(* are shown or on the wire.  The client drops a frame only for a number   *)
(* that it has shown.                                                      *)

Delivered == Seqs(shown) \cup {wire[k].seq : k \in 1 .. Len(wire)}

SkipInv ==
    /\ seen \subseteq Seqs(shown)
    /\ conn.open =>
         /\ \A i \in 1 .. conn.cursor :
              stream[i].seq > conn.start => stream[i].seq \in conn.sent
         /\ conn.sent \subseteq Delivered

\* Steps that close the subscription, or keep it and take nothing away.
LEMMA KeptSkip ==
  ASSUME TypeInv, SkipInv, seen' \subseteq Seqs(shown)',
         stream' = stream \/ \E e \in Event : stream' = Append(stream, e),
         conn' = Closed \/ (conn' = conn /\ Delivered \subseteq Delivered')
  PROVE  SkipInv'
  <1>1. CASE conn' = Closed
    BY <1>1 DEF SkipInv, Closed
  <1>2. CASE conn' = conn /\ Delivered \subseteq Delivered'
    <2>1. stream \in Seq(Event) /\ conn.cursor \in 0 .. Len(stream)
      BY DEF TypeInv, TypeOK
    <2>2. \A i \in 1 .. conn.cursor : stream'[i] = stream[i]
      BY <2>1
    <2>. QED  BY <1>2, <2>2 DEF SkipInv
  <1>. QED  BY <1>1, <1>2

LEMMA DeliveredGrows ==
  ASSUME TypeInv, shown \subseteq shown',
         wire' = wire \/ \E e \in Event : wire' = Append(wire, e)
  PROVE  Delivered \subseteq Delivered'
  <1>1. Seqs(shown) \subseteq Seqs(shown)'
    BY DEF Seqs
  <1>2. {wire[k].seq : k \in 1 .. Len(wire)} \subseteq {wire'[k].seq : k \in 1 .. Len(wire')}
    <2>1. wire \in Seq(Event)
      BY DEF TypeInv, TypeOK
    <2>2. Len(wire) <= Len(wire') /\ Len(wire) \in Nat /\ Len(wire') \in Nat
      BY <2>1
    <2>3. \A k \in 1 .. Len(wire) : wire'[k] = wire[k]
      BY <2>1
    <2>. QED  BY <2>2, <2>3
  <1>. QED  BY <1>1, <1>2 DEF Delivered

LEMMA InitSkip == Init => SkipInv
  BY DEF Init, SkipInv, Closed

\* The emitters only add to the stream.
LEMMA EmittersSkip ==
  ASSUME TypeInv, SkipInv, Run \/ Task \/ Message
  PROVE  SkipInv'
  <1>1. UNCHANGED <<conn, wire, shown>>
    <2>1. CASE Run
      BY <2>1 DEF Run, EndRun, StartTracer, EmitEnd, Emit, Finish, Queued, Dequeue,
             StartQueued, TimeoutQueued, EmitQueueEvent, client
    <2>2. CASE Task
      BY <2>2 DEF Task, Publish, Persist, Record, Announce, Connect, client
    <2>3. CASE Message
      BY <2>3 DEF Message, EmitMessage, EmitAlert, Emit, Ask, Submit, UpdatePosition,
             EmitQueueEvent, client
    <2>. QED  BY <2>1, <2>2, <2>3
  <1>2. seen' \in {seen, {}}
    <2>1. CASE Run
      BY <2>1 DEF Run, EndRun, StartTracer, EmitEnd, Emit, Finish, Queued, Dequeue,
             StartQueued, TimeoutQueued, EmitQueueEvent, client
    <2>2. CASE Task
      BY <2>2 DEF Task, Publish, Persist, Record, Announce, Connect, client
    <2>3. CASE Message
      BY <2>3 DEF Message, EmitMessage, EmitAlert, Emit, Ask, Submit, UpdatePosition,
             EmitQueueEvent, client
    <2>. QED  BY <2>1, <2>2, <2>3
  <1>3. stream' = stream \/ \E e \in Event : stream' = Append(stream, e)
    <2>1. CASE Run
      BY <2>1 DEF Run, EndRun, StartTracer, EmitEnd, Emit, Finish, Queued, Dequeue,
             StartQueued, TimeoutQueued, EmitQueueEvent
    <2>2. CASE Task
      <3>1. PICK t \in tasks : Publish(t) \/ Persist(t) \/ Record(t) \/ Announce(t)
        BY <2>2 DEF Task
      <3>2. t.event \in Event
        BY DEF TypeInv, TypeOK
      <3>. QED  BY <3>1, <3>2 DEF Publish, Persist, Record, Announce, Append1
    <2>3. CASE Message
      BY <2>3 DEF Message, EmitMessage, EmitAlert, Emit, Ask, Submit, UpdatePosition,
             EmitQueueEvent
    <2>. QED  BY <2>1, <2>2, <2>3
  <1>4. seen' \subseteq Seqs(shown)'
    BY <1>1, <1>2 DEF SkipInv, Seqs
  <1>5. Delivered \subseteq Delivered'
    BY <1>1, DeliveredGrows
  <1>. QED  BY <1>1, <1>3, <1>4, <1>5, KeptSkip

\* A subscription starts behind numbers the client had.
LEMMA OpenSkip ==
  ASSUME TypeInv, SkipInv, Open
  PROVE  SkipInv'
  <1>1. PICK n \in FirstRead(lastId) :
           conn' = [open |-> TRUE, start |-> lastId, cursor |-> n, sent |-> {}]
    BY DEF Open, Subscribe
  <1>2. UNCHANGED <<stream, seen, shown>>
    BY DEF Open, Subscribe, emitters
  <1>3. n \in 0 .. Len(stream) /\ (n = 0 \/ \A i \in 1 .. n : stream[i].seq <= lastId)
    BY <1>1 DEF FirstRead
  <1>4. lastId \in Nat /\ \A i \in 1 .. n : stream[i].seq \in Nat
    <2>1. stream \in Seq(Event) /\ lastId \in 0 .. ErrorSeq
      BY DEF TypeInv, TypeOK
    <2>2. \A i \in 1 .. n : stream[i] \in Event
      BY <1>3, <2>1
    <2>. QED  BY <2>1, <2>2, ConstantTypes DEF Event
  <1>5. \A i \in 1 .. n : ~(stream[i].seq > lastId)
    BY <1>3, <1>4
  <1>. QED  BY <1>1, <1>2, <1>5 DEF SkipInv, Seqs

LEMMA ForwardSkip ==
  ASSUME TypeInv, SkipInv, Forward
  PROVE  SkipInv'
  <1>. DEFINE e == stream[conn.cursor + 1]
  <1>1. /\ conn \in [open : BOOLEAN, start : 0 .. ErrorSeq, cursor : 0 .. Len(stream),
                     sent : SUBSET (1 .. ErrorSeq)]
        /\ stream \in Seq(Event) /\ wire \in Seq(Event)
    BY DEF TypeInv, TypeOK
  <1>2. conn.cursor + 1 \in 1 .. Len(stream) /\ conn.open
    BY <1>1 DEF Forward, NextEntry
  <1>3. e \in Event
    BY <1>1, <1>2
  <1>4. UNCHANGED <<stream, seen, shown>>
    BY DEF Forward, NextEntry, emitters, client
  <1>5. seen' \subseteq Seqs(shown)'
    BY <1>4 DEF SkipInv, Seqs
  <1>. HIDE DEF e
  <1>6. CASE ~Fresh(e)
    <2>1. conn' = [conn EXCEPT !.cursor = @ + 1] /\ wire' = wire
      BY <1>6 DEF Forward, NextEntry, e
    <2>2. conn'.cursor = conn.cursor + 1 /\ conn'.sent = conn.sent /\ conn'.start = conn.start
      BY <1>1, <2>1
    <2>3. e.seq > conn.start => e.seq \in conn.sent
      BY <1>6 DEF Fresh
    <2>4. \A i \in 1 .. conn.cursor + 1 : stream[i].seq > conn.start => stream[i].seq \in conn.sent
      BY <1>1, <1>2, <2>3 DEF SkipInv, e
    <2>5. Delivered' = Delivered
      BY <2>1, <1>4 DEF Delivered, Seqs
    <2>. QED  BY <1>2, <1>4, <1>5, <2>2, <2>4, <2>5 DEF SkipInv
  <1>7. CASE Fresh(e) /\ e.kind \in Terminal
    <2>1. conn' = Closed
      BY <1>7 DEF Forward, NextEntry, e
    <2>. QED  BY <1>5, <2>1 DEF SkipInv, Closed
  <1>8. CASE Fresh(e) /\ e.kind \notin Terminal
    <2>1. /\ conn' = [open |-> TRUE, start |-> conn.start,
                     cursor |-> conn.cursor + 1, sent |-> conn.sent \cup {e.seq}]
          /\ wire' = Append(wire, e)
      BY <1>8 DEF Forward, NextEntry, e
    <2>2. \A i \in 1 .. conn.cursor + 1 :
             stream[i].seq > conn.start => stream[i].seq \in conn.sent \cup {e.seq}
      BY <1>1, <1>2 DEF SkipInv, e
    <2>3. Delivered \subseteq Delivered'
      BY <1>3, <1>4, <2>1, DeliveredGrows
    <2>4. e.seq \in Delivered'
      <3>1. wire'[Len(wire')] = e /\ Len(wire') \in 1 .. Len(wire')
        BY <1>1, <1>3, <2>1
      <3>. QED  BY <3>1 DEF Delivered
    <2>. QED  BY <1>2, <1>4, <1>5, <2>1, <2>2, <2>3, <2>4 DEF SkipInv
  <1>. QED  BY <1>6, <1>7, <1>8

\* A shown event is shown for good, and a number is seen when it is shown.
LEMMA ShowSkip ==
  ASSUME SkipInv, NEW events, Show(events)
  PROVE  seen' \subseteq Seqs(shown)' /\ shown \subseteq shown'
  <1>1. Seqs(events) \subseteq Seqs(shown)' /\ Seqs(shown) \subseteq Seqs(shown)'
    BY DEF Show, Seqs
  <1>. QED  BY <1>1 DEF Show, SkipInv

LEMMA ReceiveSkip ==
  ASSUME TypeInv, SkipInv, Receive
  PROVE  SkipInv'
  <1>1. wire \in Seq(Event) /\ wire # <<>> /\ stream' = stream
    BY DEF Receive, TypeInv, TypeOK, emitters
  <1>. DEFINE events == IF Head(wire).seq \in seen THEN {} ELSE {Head(wire)}
  <1>2. Show(events)
    BY DEF Receive
  <1>. HIDE DEF events
  <1>3. seen' \subseteq Seqs(shown)' /\ shown \subseteq shown'
    BY <1>2, ShowSkip
  <1>4. CASE stopped'
    <2>1. conn' = Closed
      BY <1>2, <1>4 DEF Show
    <2>. QED  BY <1>1, <1>3, <2>1, KeptSkip
  <1>5. CASE ~stopped'
    <2>1. conn' = conn /\ wire' = Tail(wire)
      BY <1>2, <1>5 DEF Show, Receive
    <2>2. Head(wire).seq \in Seqs(shown)'
      <3>1. CASE Head(wire).seq \in seen
        BY <1>3, <3>1 DEF SkipInv, Seqs
      <3>2. CASE Head(wire).seq \notin seen
        BY <1>2, <3>2 DEF Show, Seqs, events
      <3>. QED  BY <3>1, <3>2
    <2>3. \A k \in 1 .. Len(wire) :
             k = 1 \/ (k - 1 \in 1 .. Len(Tail(wire)) /\ wire[k] = Tail(wire)[k - 1])
      BY <1>1
    <2>4. {wire[k].seq : k \in 1 .. Len(wire)} \subseteq Delivered'
      <3>. SUFFICES ASSUME NEW k \in 1 .. Len(wire) PROVE wire[k].seq \in Delivered'
        OBVIOUS
      <3>1. CASE k = 1
        <4>1. wire[k] = Head(wire)
          BY <1>1, <3>1
        <4>. QED  BY <2>2, <4>1 DEF Delivered
      <3>2. CASE k - 1 \in 1 .. Len(Tail(wire)) /\ wire[k] = Tail(wire)[k - 1]
        BY <2>1, <3>2 DEF Delivered
      <3>. QED  BY <2>3, <3>1, <3>2
    <2>5. Seqs(shown) \subseteq Delivered'
      BY <1>3 DEF Delivered, Seqs
    <2>6. Delivered \subseteq Delivered'
      BY <2>4, <2>5 DEF Delivered
    <2>. QED  BY <1>1, <1>3, <2>1, <2>6, KeptSkip
  <1>. QED  BY <1>4, <1>5

LEMMA PollAnswerSkip ==
  ASSUME TypeInv, SkipInv, PollAnswer
  PROVE  SkipInv'
  <1>1. PICK events \in SUBSET {e \in poll : e.seq \notin seen} : Show(events)
    BY DEF PollAnswer
  <1>2. seen' \subseteq Seqs(shown)' /\ shown \subseteq shown'
    BY <1>1, ShowSkip
  <1>3. stream' = stream
    BY DEF PollAnswer, emitters
  <1>4. CASE stopped'
    <2>1. conn' = Closed
      BY <1>1, <1>4 DEF Show
    <2>. QED  BY <1>2, <1>3, <2>1, KeptSkip
  <1>5. CASE ~stopped'
    <2>1. conn' = conn /\ wire' = wire
      BY <1>1, <1>5 DEF Show, PollAnswer
    <2>2. Delivered \subseteq Delivered'
      BY <1>2, <2>1, DeliveredGrows
    <2>. QED  BY <1>2, <1>3, <2>1, <2>2, KeptSkip
  <1>. QED  BY <1>4, <1>5

\* The other steps close the subscription or do not touch what the invariant
\* speaks of.
LEMMA OtherSkip ==
  ASSUME TypeInv, SkipInv,
         \/ Heartbeat \/ BreakStream \/ StopSubscriber
         \/ StreamEnds \/ Drop \/ HeartbeatTimeout
         \/ Reconnect \/ Upgrade \/ Poll \/ PollFails \/ UNCHANGED vars
  PROVE  SkipInv'
  <1>1. UNCHANGED <<stream, seen, shown>>
    BY DEF Heartbeat, BreakStream, StopSubscriber, StreamEnds, Drop, HeartbeatTimeout,
           Retry, Reconnect, Upgrade, Poll, PollFails, vars, emitters, client
  <1>2. seen' \subseteq Seqs(shown)'
    BY <1>1 DEF SkipInv, Seqs
  <1>3. conn' = Closed \/ (conn' = conn /\ wire' = wire)
    BY DEF Heartbeat, BreakStream, StopSubscriber, StreamEnds, Drop, HeartbeatTimeout,
           Reconnect, Upgrade, Dial, Poll, PollFails, vars
  <1>4. wire' = wire => Delivered' = Delivered
    BY <1>1 DEF Delivered, Seqs
  <1>. QED  BY <1>1, <1>2, <1>3, <1>4, KeptSkip

LEMMA StepSkip == TypeInv /\ SkipInv /\ [Next]_vars => SkipInv'
  BY EmittersSkip, OpenSkip, ForwardSkip, ReceiveSkip, PollAnswerSkip, OtherSkip
     DEF Next, Serve, Follow, PollTable, Failure

\* Each number the generator has gone past and the client did not have is shown
\* or on its way, for every order of publication, every interleaving of the
\* stream with polling, and any number of reconnections.
THEOREM SkipsNothing == Spec => []NothingSkipped
  <1>1. SkipInv => NothingSkipped
    BY DEF SkipInv, NothingSkipped, Delivered
  <1>. QED  BY <1>1, InitType, StepType, InitSkip, StepSkip, PTL DEF Spec

-----------------------------------------------------------------------------
(* No event of the agent is shown twice.  What might be is what was shown  *)
(* before the client forgot the numbers it had seen, when its user wrote   *)
(* again.  All of that lies behind the client and everything on its way.   *)

Own(e) == e.kind # "user" /\ e # StreamingError

Again == {e \in shown : Own(e) /\ e.seq \notin seen}

Frames == {wire[k] : k \in 1 .. Len(wire)}

UserTasks == {t \in tasks : t.event.kind = "user"}

Real(e) == e = StreamingError \/ e.seq <= MaxEvents

StopInv == stopped => ~conn.open /\ wire = <<>>

\* The user's message is alone on its way, and nothing is on the way to him.
SubmitInv ==
    /\ \A t, u \in UserTasks : t = u
    /\ UserTasks # {} => agent = "submitted" /\ stopped /\ poll = NoPoll

RealInv ==
    /\ \A i \in 1 .. Len(stream) : Real(stream[i])
    /\ \A e \in Frames \cup poll \cup shown : Real(e)

Before(f) == \A e \in Again : e.seq < f.seq

PastInv ==
    /\ \A e \in Again : e.seq <= lastId /\ (conn.open => e.seq <= conn.start)
    /\ \A f \in Frames : Before(f)
    /\ poll # NoPoll => \A f \in poll : Before(f)

OnceInv == repeated = {} /\ StopInv /\ SubmitInv /\ RealInv /\ PastInv

LEMMA Numbers ==
  ASSUME TypeInv
  PROVE  /\ Again \subseteq Event /\ Frames \subseteq Event /\ poll \subseteq Event
         /\ \A e \in Event : e.seq \in Nat
         /\ lastId \in Nat /\ conn.start \in Nat /\ MaxEvents \in Nat
         /\ \A e \in table : Real(e)
         /\ \A t \in tasks : Real(t.event) /\ t.event \in Event
         /\ Real(StreamingError)
  <1>1. Frames \subseteq Event
    <2>1. wire \in Seq(Event)
      BY DEF TypeInv, TypeOK
    <2>. QED  BY <2>1 DEF Frames
  <1>2. /\ Again \subseteq Event /\ poll \subseteq Event
        /\ lastId \in Nat /\ conn.start \in Nat /\ MaxEvents \in Nat
    BY ConstantTypes DEF TypeInv, TypeOK, Again
  <1>3. count \in 1 .. MaxEvents /\ table \subseteq Event /\ \A t \in tasks : t.event \in Event
    BY DEF TypeInv, TypeOK
  <1>4. \A e \in Event : e.seq \in Nat
    BY ConstantTypes DEF Event
  <1>5. \A e \in table : Real(e)
    BY <1>2, <1>3, <1>4 DEF TypeInv, Bounded, Real
  <1>6. \A t \in tasks : Real(t.event)
    BY <1>2, <1>3, <1>4 DEF TypeInv, Bounded, Real
  <1>. QED  BY <1>1, <1>2, <1>3, <1>4, <1>5, <1>6 DEF Real

LEMMA InitOnce == Init => OnceInv
  <1>. SUFFICES ASSUME Init PROVE OnceInv
    OBVIOUS
  <1>1. Frames = {} /\ Again = {} /\ UserTasks = {}
    BY DEF Init, Frames, Again, UserTasks
  <1>2. Real(FirstMessage)
    BY ConstantTypes DEF Real, FirstMessage
  <1>3. RealInv
    BY <1>1, <1>2 DEF Init, RealInv, NoPoll, Real
  <1>. QED  BY <1>1, <1>3 DEF Init, OnceInv, StopInv, Closed, SubmitInv, PastInv, Before

\* The emitters touch the tasks, the stream and the table.
LEMMA EmittersOnce ==
  ASSUME TypeInv, OnceInv, UNCHANGED <<conn, wire, client>>, SubmitInv',
         stream' = stream \/ \E t \in tasks : stream' = Append(stream, t.event)
  PROVE  OnceInv'
  <1>1. UNCHANGED <<seen, shown, repeated, stopped, poll, lastId, conn, wire>>
    BY DEF client
  <1>2. Again' = Again /\ Frames' = Frames
    BY <1>1 DEF Again, Frames
  <1>3. \A i \in 1 .. Len(stream') : Real(stream'[i])
    <2>1. stream \in Seq(Event)
      BY DEF TypeInv, TypeOK
    <2>2. CASE stream' = stream
      BY <2>2 DEF OnceInv, RealInv
    <2>3. ASSUME NEW t \in tasks, stream' = Append(stream, t.event)
          PROVE  \A i \in 1 .. Len(stream') : Real(stream'[i])
      <3>1. Real(t.event) /\ t.event \in Event
        BY Numbers
      <3>2. \A i \in 1 .. Len(stream') : stream'[i] = t.event \/ (i \in 1 .. Len(stream) /\ stream'[i] = stream[i])
        BY <2>1, <2>3, <3>1
      <3>. QED  BY <3>1, <3>2 DEF OnceInv, RealInv
    <2>. QED  BY <2>2, <2>3
  <1>4. RealInv'
    BY <1>1, <1>2, <1>3 DEF OnceInv, RealInv
  <1>5. PastInv' /\ StopInv'
    BY <1>1, <1>2 DEF OnceInv, PastInv, Before, StopInv
  <1>. QED  BY <1>1, <1>4, <1>5 DEF OnceInv

\* A new event that is not the user's.
LEMMA OwnEvent ==
  ASSUME SubmitInv, NEW seq, NEW kind, kind # "user", NEW step, NewEvent(seq, kind, step),
         agent = "submitted" => agent' = agent, UNCHANGED client
  PROVE  SubmitInv'
  <1>1. UserTasks' = UserTasks
    BY DEF NewEvent, UserTasks
  <1>. QED  BY <1>1 DEF SubmitInv, client

LEMMA EmitOnce ==
  ASSUME TypeInv, OnceInv, NEW kind, kind # "user", Emit(kind),
         agent = "submitted" => agent' = agent
  PROVE  OnceInv'
  <1>1. NewEvent(tracerSeq + 1, kind, "publish") /\ UNCHANGED <<stream, conn, wire, client>>
    BY DEF Emit
  <1>2. SubmitInv
    BY DEF OnceInv
  <1>3. SubmitInv'
    BY <1>1, <1>2, OwnEvent
  <1>. QED  BY <1>1, <1>3, EmittersOnce

LEMMA QueueEventOnce ==
  ASSUME TypeInv, OnceInv, NEW kind, kind # "user", EmitQueueEvent(kind),
         agent = "submitted" => agent' = agent
  PROVE  OnceInv'
  <1>1. PICK n \in 0 .. MaxEvents : NewEvent(n + 1, kind, "record")
    BY DEF EmitQueueEvent
  <1>2. UNCHANGED <<stream, conn, wire, client>>
    BY DEF EmitQueueEvent
  <1>3. SubmitInv
    BY DEF OnceInv
  <1>4. SubmitInv'
    BY <1>1, <1>2, <1>3, OwnEvent
  <1>. QED  BY <1>2, <1>4, EmittersOnce

LEMMA RunOnce ==
  ASSUME TypeInv, OnceInv, Run
  PROVE  OnceInv'
  <1>1. ASSUME StartTracer \/ Finish \/ StartQueued PROVE OnceInv'
    <2>1. UNCHANGED <<tasks, stream, conn, wire, client>> /\ agent # "submitted"
      BY <1>1 DEF StartTracer, Finish, StartQueued
    <2>2. SubmitInv'
      BY <2>1 DEF OnceInv, SubmitInv, UserTasks, client
    <2>. QED  BY <2>1, <2>2, EmittersOnce
  <1>2. ASSUME NEW kind \in Terminal, EmitEnd(kind) PROVE OnceInv'
    BY <1>2, EmitOnce DEF EmitEnd
  <1>3. ASSUME Dequeue \/ TimeoutQueued PROVE OnceInv'
    BY <1>3, QueueEventOnce DEF Dequeue, TimeoutQueued
  <1>. QED  BY <1>1, <1>2, <1>3 DEF Run, Queued, EndRun

LEMMA MessageOnce ==
  ASSUME TypeInv, OnceInv, Message
  PROVE  OnceInv'
  <1>1. ASSUME NEW kind \in {"partial", "plain"}, EmitMessage(kind) PROVE OnceInv'
    BY <1>1, EmitOnce DEF EmitMessage
  <1>2. ASSUME EmitAlert PROVE OnceInv'
    BY <1>2, EmitOnce DEF EmitAlert
  <1>3. ASSUME UpdatePosition PROVE OnceInv'
    BY <1>3, QueueEventOnce DEF UpdatePosition
  <1>4. ASSUME Ask PROVE OnceInv'
    <2>1. PICK n \in 0 .. MaxEvents : NewEvent(n + 1, "plain", "record")
      BY <1>4 DEF Ask
    <2>2. UNCHANGED <<agent, stream, conn, wire, client>>
      BY <1>4 DEF Ask
    <2>3. SubmitInv
      BY DEF OnceInv
    <2>4. SubmitInv'
      BY <2>1, <2>2, <2>3, OwnEvent
    <2>. QED  BY <2>2, <2>4, EmittersOnce
  <1>5. ASSUME Submit PROVE OnceInv'
    <2>1. PICK n \in 0 .. MaxEvents : NewEvent(n + 1, "user", "record")
      BY <1>5 DEF Submit
    <2>2. /\ UNCHANGED <<stream, conn, wire, client>>
          /\ stopped /\ poll = NoPoll /\ agent = "done" /\ agent' = "submitted"
      BY <1>5 DEF Submit
    <2>3. UserTasks = {}
      BY <2>2 DEF OnceInv, SubmitInv
    <2>4. \E new : UserTasks' \subseteq {new}
      BY <2>1, <2>3 DEF NewEvent, UserTasks
    <2>5. SubmitInv'
      BY <2>2, <2>4 DEF SubmitInv, client
    <2>. QED  BY <2>2, <2>5, EmittersOnce
  <1>. QED  BY <1>1, <1>2, <1>3, <1>4, <1>5 DEF Message

\* A task that goes on or ends.
LEMMA TaskSubmit ==
  ASSUME SubmitInv, NEW t \in tasks, t \in [event : Event, step : Steps],
         tasks' = tasks \ {t} \/ \E step \in Steps : Advance(t, step)
  PROVE  /\ \A u, v \in UserTasks' : u = v
         /\ t.event.kind = "user" \/ UserTasks' # {} => UserTasks # {}
         /\ t.event.kind = "user" /\ tasks' = tasks \ {t} => UserTasks' = {}
  <1>1. CASE tasks' = tasks \ {t}
    BY <1>1 DEF SubmitInv, UserTasks
  <1>2. ASSUME NEW step \in Steps, Advance(t, step)
        PROVE  /\ \A u, v \in UserTasks' : u = v
               /\ t.event.kind = "user" \/ UserTasks' # {} => UserTasks # {}
    <2>. DEFINE moved == [t EXCEPT !.step = step]
    <2>1. moved.event = t.event
      OBVIOUS
    <2>2. tasks' = (tasks \ {t}) \cup {moved}
      BY <1>2 DEF Advance
    <2>. HIDE DEF moved
    <2>3. CASE t.event.kind = "user"
      BY <2>1, <2>2, <2>3 DEF SubmitInv, UserTasks
    <2>4. CASE t.event.kind # "user"
      BY <2>1, <2>2, <2>4 DEF SubmitInv, UserTasks
    <2>. QED  BY <2>3, <2>4
  <1>3. ASSUME NEW step \in Steps, Advance(t, step), tasks' = tasks \ {t} PROVE UserTasks' = {} \/ t.event.kind # "user"
    BY <1>3 DEF SubmitInv, UserTasks
  <1>. QED  BY <1>1, <1>2, <1>3

LEMMA TaskOnce ==
  ASSUME TypeInv, OnceInv, Task
  PROVE  OnceInv'
  <1>1. PICK t \in tasks : Publish(t) \/ Persist(t) \/ Record(t) \/ Announce(t)
    BY DEF Task
  <1>2. t \in [event : Event, step : Steps] /\ SubmitInv
    BY DEF TypeInv, TypeOK, OnceInv
  <1>3. tasks' = tasks \ {t} \/ \E step \in Steps : Advance(t, step)
    BY <1>1 DEF Publish, Persist, Record, Announce
  <1>4. /\ \A u, v \in UserTasks' : u = v
        /\ t.event.kind = "user" \/ UserTasks' # {} => UserTasks # {}
        /\ t.event.kind = "user" /\ tasks' = tasks \ {t} => UserTasks' = {}
    BY <1>2, <1>3, TaskSubmit
  <1>5. stream' = stream \/ stream' = Append(stream, t.event)
    BY <1>1 DEF Publish, Persist, Record, Announce, Append1
  <1>6. UNCHANGED <<conn, wire>>
    BY <1>1 DEF Publish, Persist, Record, Announce
  <1>7. CASE UNCHANGED client /\ (UserTasks' # {} => agent' = agent)
    <2>1. SubmitInv'
      BY <1>2, <1>4, <1>7 DEF SubmitInv, client
    <2>. QED  BY <1>5, <1>6, <1>7, <2>1, EmittersOnce
  <1>8. CASE t.event.kind = "user" /\ Connect /\ tasks' = tasks \ {t}
    <2>1. stopped /\ poll = NoPoll /\ ~conn.open /\ wire = <<>>
      BY <1>2, <1>4, <1>8 DEF OnceInv, SubmitInv, StopInv
    <2>2. /\ UNCHANGED <<poll, shown, repeated>> /\ seen' = {} /\ ~stopped'
          /\ \A n \in Seqs({e \in shown : e.kind # "user"}) : n <= lastId'
      BY <1>8 DEF Connect, Greatest
    <2>3. Frames' = {} /\ Frames = {} /\ UserTasks' = {}
      BY <1>4, <1>6, <1>8, <2>1 DEF Frames
    <2>4. \A e \in Again' : e.seq <= lastId'
      BY <2>2 DEF Again, Own, Seqs
    <2>5. PastInv' /\ SubmitInv' /\ StopInv'
      BY <1>6, <2>1, <2>2, <2>3, <2>4 DEF PastInv, SubmitInv, StopInv
    <2>6. \A i \in 1 .. Len(stream') : Real(stream'[i])
      <3>1. stream \in Seq(Event) /\ t.event \in Event /\ Real(t.event)
        BY Numbers DEF TypeInv, TypeOK
      <3>2. \A i \in 1 .. Len(stream') : stream'[i] = t.event \/ (i \in 1 .. Len(stream) /\ stream'[i] = stream[i])
        BY <1>5, <3>1
      <3>. QED  BY <3>1, <3>2 DEF OnceInv, RealInv
    <2>7. RealInv'
      BY <2>2, <2>3, <2>6 DEF OnceInv, RealInv
    <2>. QED  BY <2>2, <2>5, <2>7 DEF OnceInv
  <1>9. CASE Announce(t)
    BY <1>4, <1>7, <1>8, <1>9 DEF Announce
  <1>10. CASE Publish(t) \/ Persist(t) \/ Record(t)
    BY <1>7, <1>10 DEF Publish, Persist, Record
  <1>. QED  BY <1>1, <1>9, <1>10

\* Steps that show nothing.  What they put on its way comes after what might be
\* shown again.
LEMMA QuietOnce ==
  ASSUME TypeInv, OnceInv, UNCHANGED <<emitters, lastId, seen, shown, repeated, stopped>>,
         stopped => ~conn'.open /\ wire' = <<>> /\ (poll' = poll \/ poll' = NoPoll),
         conn'.open => conn'.start = lastId \/ (conn.open /\ conn'.start = conn.start),
         \A f \in Frames' : f \in Frames \/ (Real(f) /\ Before(f)),
         poll' \in {poll, NoPoll} \/ \A f \in poll' : Real(f) /\ Before(f)
  PROVE  OnceInv'
  <1>1. UNCHANGED <<tasks, agent, stream>>
    BY DEF emitters
  <1>2. Again' = Again /\ UserTasks' = UserTasks
    BY <1>1 DEF Again, UserTasks
  <1>3. StopInv'
    BY DEF StopInv
  <1>4. SubmitInv'
    BY <1>1, <1>2 DEF OnceInv, SubmitInv
  <1>5. RealInv'
    <2>1. \A e \in NoPoll : Real(e)
      BY DEF NoPoll, Real
    <2>. QED  BY <1>1, <2>1 DEF OnceInv, RealInv
  <1>6. PastInv'
    BY <1>2 DEF OnceInv, PastInv, Before
  <1>. QED  BY <1>3, <1>4, <1>5, <1>6 DEF OnceInv

LEMMA ServeOnce ==
  ASSUME TypeInv, OnceInv, Open \/ Forward \/ Heartbeat \/ BreakStream \/ StopSubscriber
  PROVE  OnceInv'
  <1>1. wire \in Seq(Event)
    BY DEF TypeInv, TypeOK
  <1>2. \A e \in Event : wire' = Append(wire, e) => \A f \in Frames' : f \in Frames \/ f = e
    <2>. SUFFICES ASSUME NEW e \in Event, wire' = Append(wire, e), NEW k \in 1 .. Len(wire')
                  PROVE  wire'[k] \in Frames \/ wire'[k] = e
      BY DEF Frames
    <2>1. (k \in 1 .. Len(wire) /\ wire'[k] = wire[k]) \/ wire'[k] = e
      BY <1>1
    <2>. QED  BY <2>1 DEF Frames
  <1>3. wire' = wire => Frames' = Frames
    BY DEF Frames
  <1>4. ASSUME Open PROVE OnceInv'
    <2>1. ~stopped
      BY <1>4 DEF Open, Subscribe, TypeInv, TypeOK
    <2>2. conn'.start = lastId
      BY <1>4 DEF Open, Subscribe
    <2>. QED  BY <1>3, <1>4, <2>1, <2>2, QuietOnce DEF Open, Subscribe
  <1>5. ASSUME NEW e \in Event, Real(e), e.seq > conn.start, conn.open,
               wire' = Append(wire, e), UNCHANGED <<emitters, client>>,
               conn' = Closed \/ conn'.start = conn.start
        PROVE  OnceInv'
    <2>1. ~stopped
      BY <1>5 DEF OnceInv, StopInv
    <2>2. Before(e)
      BY <1>5, Numbers DEF OnceInv, PastInv, Before
    <2>3. \A f \in Frames' : f \in Frames \/ (Real(f) /\ Before(f))
      BY <1>2, <1>5, <2>2
    <2>4. conn'.open => conn'.start = conn.start
      BY <1>5 DEF Closed
    <2>. QED  BY <1>5, <2>1, <2>3, <2>4, QuietOnce DEF client
  <1>6. ASSUME Forward PROVE OnceInv'
    <2>. DEFINE e == stream[conn.cursor + 1]
    <2>1. conn.cursor + 1 \in 1 .. Len(stream) /\ stream \in Seq(Event)
      BY <1>6 DEF Forward, NextEntry, TypeInv, TypeOK
    <2>2. e \in Event /\ Real(e)
      BY <2>1 DEF OnceInv, RealInv
    <2>3. UNCHANGED <<emitters, client>> /\ conn.open
      BY <1>6 DEF Forward, NextEntry
    <2>4. conn \in [open : BOOLEAN, start : 0 .. ErrorSeq, cursor : 0 .. Len(stream),
                    sent : SUBSET (1 .. ErrorSeq)]
      BY DEF TypeInv, TypeOK
    <2>. HIDE DEF e
    <2>5. CASE Fresh(e)
      <3>1. wire' = Append(wire, e) /\ (conn' = Closed \/ conn'.start = conn.start)
        BY <1>6, <2>5 DEF Forward, NextEntry, e
      <3>. QED  BY <1>5, <2>2, <2>3, <2>5, <3>1 DEF Fresh
    <2>6. CASE ~Fresh(e)
      <3>1. wire' = wire /\ conn' = [conn EXCEPT !.cursor = @ + 1]
        BY <1>6, <2>6 DEF Forward, NextEntry, e
      <3>2. conn'.start = conn.start
        BY <2>4, <3>1
      <3>3. ~stopped
        BY <2>3 DEF OnceInv, StopInv
      <3>. QED  BY <1>3, <2>3, <3>1, <3>2, <3>3, QuietOnce DEF client
    <2>. QED  BY <2>5, <2>6
  <1>7. ASSUME Heartbeat PROVE OnceInv'
    <2>1. PICK e \in table : e.seq > conn.start /\ wire' = Append(wire, e)
      BY <1>7 DEF Heartbeat
    <2>2. e \in Event /\ Real(e)
      BY Numbers DEF TypeInv, TypeOK
    <2>. QED  BY <1>5, <1>7, <2>1, <2>2 DEF Heartbeat
  <1>8. ASSUME BreakStream PROVE OnceInv'
    <2>1. Before(StreamingError)
      <3>1. \A e \in Again : e.seq <= MaxEvents
        BY DEF OnceInv, RealInv, Real, Again, Own
      <3>2. StreamingError.seq = MaxEvents + 1
        BY DEF StreamingError
      <3>. QED  BY <3>1, <3>2, Numbers DEF Before
    <2>2. \A f \in Frames' : f \in Frames \/ (Real(f) /\ Before(f))
      BY <1>2, <1>8, <2>1, ConstantTypes, Numbers DEF BreakStream
    <2>3. ~stopped /\ ~conn'.open
      BY <1>8 DEF BreakStream, Closed, OnceInv, StopInv
    <2>. QED  BY <1>8, <2>2, <2>3, QuietOnce DEF BreakStream, client
  <1>9. ASSUME StopSubscriber PROVE OnceInv'
    <2>1. ~stopped /\ ~conn'.open
      BY <1>9 DEF StopSubscriber, Closed, OnceInv, StopInv
    <2>. QED  BY <1>3, <1>9, <2>1, QuietOnce DEF StopSubscriber, client
  <1>. QED  BY <1>4, <1>6, <1>7, <1>8, <1>9

\* What is new to the client has not been shown, or is its user's.
LEMMA ShowOnce ==
  ASSUME TypeInv, OnceInv, UserTasks = {}, UNCHANGED emitters,
         NEW events \in SUBSET Event, Show(events),
         \A f \in events : f.seq \notin seen /\ Real(f) /\ Before(f),
         \A e \in Again : e.seq <= lastId',
         wire' = <<>> \/ (~stopped' /\ Frames' \subseteq Frames),
         poll' \in {poll, NoPoll}
  PROVE  OnceInv'
  <1>1. \A e \in events : e \notin Again
    BY Numbers DEF Before
  <1>2. repeated' = {}
    BY <1>1 DEF Show, OnceInv, Again, Own
  <1>3. Again' \subseteq Again
    BY DEF Again, Show, Seqs
  <1>4. StopInv'
    <2>1. stopped' => conn' = Closed /\ wire' = <<>>
      BY DEF Show
    <2>. QED  BY <2>1 DEF StopInv, Closed
  <1>5. UserTasks' = {}
    BY DEF UserTasks, emitters
  <1>6. Frames' \subseteq Frames
    <2>1. CASE wire' = <<>>
      <3>1. Frames' = {}
        BY <2>1 DEF Frames
      <3>. QED  BY <3>1
    <2>. QED  BY <2>1
  <1>7. RealInv'
    <2>1. \A e \in NoPoll : Real(e)
      BY DEF NoPoll, Real
    <2>2. shown' = shown \cup events /\ stream' = stream
      BY DEF Show, emitters
    <2>. QED  BY <1>6, <2>1, <2>2 DEF OnceInv, RealInv
  <1>8. conn'.open => conn' = conn
    BY DEF Show, Closed
  <1>9. PastInv'
    <2>1. \A e \in Again' : e.seq <= lastId' /\ (conn'.open => e.seq <= conn'.start)
      BY <1>3, <1>8 DEF OnceInv, PastInv
    <2>2. \A f \in Frames' : Before(f)'
      BY <1>3, <1>6 DEF OnceInv, PastInv, Before
    <2>3. poll' # NoPoll => \A f \in poll' : Before(f)'
      BY <1>3 DEF OnceInv, PastInv, Before
    <2>. QED  BY <2>1, <2>2, <2>3 DEF PastInv
  <1>. QED  BY <1>2, <1>4, <1>5, <1>7, <1>9 DEF OnceInv, SubmitInv

LEMMA ReceiveOnce ==
  ASSUME TypeInv, OnceInv, Receive
  PROVE  OnceInv'
  <1>1. wire \in Seq(Event) /\ wire # <<>> /\ ~stopped
    BY DEF Receive, TypeInv, TypeOK
  <1>2. Head(wire) \in Frames /\ Head(wire) \in Event
    BY <1>1 DEF Frames
  <1>3. Before(Head(wire)) /\ Real(Head(wire))
    BY <1>2 DEF OnceInv, PastInv, RealInv
  <1>. DEFINE events == IF Head(wire).seq \in seen THEN {} ELSE {Head(wire)}
  <1>4. /\ Show(events) /\ lastId' = Head(wire).seq /\ poll' = poll /\ UNCHANGED emitters
        /\ wire' = IF stopped' THEN <<>> ELSE Tail(wire)
    BY DEF Receive
  <1>5. /\ events \in SUBSET Event
        /\ \A f \in events : f.seq \notin seen /\ Real(f) /\ Before(f)
    BY <1>2, <1>3
  <1>6. \A e \in Again : e.seq <= lastId'
    BY <1>2, <1>3, <1>4, Numbers DEF Before
  <1>7. {Tail(wire)[k] : k \in 1 .. Len(Tail(wire))} \subseteq Frames
    <2>. SUFFICES ASSUME NEW k \in 1 .. Len(Tail(wire)) PROVE Tail(wire)[k] \in Frames
      OBVIOUS
    <2>1. k + 1 \in 1 .. Len(wire) /\ Tail(wire)[k] = wire[k + 1]
      BY <1>1
    <2>. QED  BY <2>1 DEF Frames
  <1>8. wire' = <<>> \/ (~stopped' /\ Frames' \subseteq Frames)
    <2>1. stopped' \in BOOLEAN
      BY <1>4 DEF Show
    <2>2. CASE ~stopped'
      <3>1. wire' = Tail(wire)
        BY <1>4, <2>2
      <3>. QED  BY <1>7, <2>2, <3>1 DEF Frames
    <2>. QED  BY <1>4, <2>1, <2>2
  <1>9. UserTasks = {}
    BY <1>1 DEF OnceInv, SubmitInv
  <1>. HIDE DEF events
  <1>. QED  BY <1>4, <1>5, <1>6, <1>8, <1>9, ShowOnce

LEMMA PollAnswerOnce ==
  ASSUME TypeInv, OnceInv, PollAnswer
  PROVE  OnceInv'
  <1>1. PICK events \in SUBSET {e \in poll : e.seq \notin seen} :
           /\ Show(events)
           /\ LET handled == {e \in poll : \A f \in events : f.kind \in Terminal => e.seq <= f.seq}
              IN \E n \in Greatest(Seqs(handled) \cup {lastId}) : lastId' = n
    BY DEF PollAnswer
  <1>2. /\ poll # NoPoll /\ poll' = NoPoll /\ UNCHANGED emitters
        /\ wire' = IF stopped' THEN <<>> ELSE wire
    BY DEF PollAnswer
  <1>3. lastId <= lastId' /\ lastId' \in Nat
    <2>1. lastId <= lastId'
      BY <1>1 DEF Greatest
    <2>2. lastId' \in 0 .. ErrorSeq
      BY PollAnswerType DEF TypeInv, TypeOK
    <2>. QED  BY <2>1, <2>2, ConstantTypes
  <1>4. \A e \in Again : e.seq <= lastId'
    BY <1>3, Numbers DEF OnceInv, PastInv
  <1>5. events \in SUBSET Event /\ \A f \in events : f.seq \notin seen /\ Real(f) /\ Before(f)
    BY <1>1, <1>2, Numbers DEF OnceInv, PastInv, RealInv
  <1>6. wire' = <<>> \/ (~stopped' /\ Frames' \subseteq Frames)
    <2>1. stopped' \in BOOLEAN
      BY <1>1 DEF Show
    <2>. QED  BY <1>2, <2>1 DEF Frames
  <1>7. UserTasks = {}
    BY <1>2 DEF OnceInv, SubmitInv
  <1>. QED  BY <1>1, <1>2, <1>4, <1>5, <1>6, <1>7, ShowOnce

LEMMA ClientOnce ==
  ASSUME TypeInv, OnceInv,
         \/ StreamEnds \/ Drop \/ HeartbeatTimeout \/ Reconnect \/ Upgrade \/ Poll \/ PollFails
         \/ UNCHANGED vars
  PROVE  OnceInv'
  <1>1. wire' = wire \/ wire' = <<>>
    BY DEF StreamEnds, Drop, HeartbeatTimeout, Reconnect, Upgrade, Dial, Poll, PollFails, vars
  <1>2. Frames' \subseteq Frames
    BY <1>1 DEF Frames
  <1>3. conn' = conn \/ conn' = Closed
    BY DEF StreamEnds, Drop, HeartbeatTimeout, Reconnect, Upgrade, Dial, Poll, PollFails, vars
  <1>4. conn'.open => conn' = conn
    BY <1>3 DEF Closed
  <1>5. UNCHANGED <<emitters, lastId, seen, shown, repeated, stopped>>
    BY DEF StreamEnds, Drop, HeartbeatTimeout, Retry, Reconnect, Upgrade, Poll, PollFails,
           vars, client
  <1>6. stopped => ~conn'.open /\ wire' = <<>>
    BY <1>1, <1>4 DEF OnceInv, StopInv
  <1>7. ASSUME Poll PROVE OnceInv'
    <2>1. ~stopped /\ poll' = {e \in table : e.seq > lastId}
      BY <1>7 DEF Poll, TypeInv, TypeOK
    <2>2. \A f \in poll' : Real(f) /\ Before(f)
      <3>1. \A f \in table : f \in Event /\ Real(f)
        BY Numbers DEF TypeInv, TypeOK
      <3>. QED  BY <2>1, <3>1, Numbers DEF OnceInv, PastInv, Before
    <2>. QED  BY <1>2, <1>4, <1>5, <2>1, <2>2, QuietOnce
  <1>8. ASSUME ~Poll PROVE OnceInv'
    <2>1. poll' \in {poll, NoPoll}
      BY <1>8 DEF StreamEnds, Drop, HeartbeatTimeout, Retry, Reconnect, Upgrade, PollFails,
             vars, client
    <2>. QED  BY <1>2, <1>4, <1>5, <1>6, <2>1, QuietOnce
  <1>. QED  BY <1>7, <1>8

LEMMA StepOnce == TypeInv /\ OnceInv /\ [Next]_vars => OnceInv'
  BY RunOnce, MessageOnce, TaskOnce, ServeOnce, ReceiveOnce, PollAnswerOnce, ClientOnce
     DEF Next, Serve, Follow, PollTable, Failure

\* No event of the agent, of the queue or of a question is handed to the page
\* twice, over reconnections, polls that overlap with the stream, and further
\* messages of the user.
THEOREM ShowsOnce == Spec => []ShownOnce
  <1>1. OnceInv => ShownOnce
    BY DEF OnceInv, ShownOnce
  <1>. QED  BY <1>1, InitType, StepType, InitOnce, StepOnce, PTL DEF Spec

=============================================================================
