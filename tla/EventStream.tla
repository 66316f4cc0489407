---------------------------- MODULE EventStream ----------------------------
(***************************************************************************)
(* How the events of one session reach the web client.                     *)
(*                                                                         *)
(* The agent's tracer numbers events in memory and publishes and persists  *)
(* each of them in a task of its own.  The endpoints and the question tool *)
(* number theirs from the database, record them and publish them.          *)
(* stream_events follows the Redis stream for one subscriber; connectSSE   *)
(* reconnects with the number it received last, and polls the database     *)
(* when the stream does not work.                                          *)
(*                                                                         *)
(* An event is its identity, its number and what the code tells apart      *)
(* about its type: user messages, partial messages (never persisted),      *)
(* errors and cancellations ("error") and agent_complete ("complete"),     *)
(* which end a stream, and everything else ("plain").                      *)
(***************************************************************************)
EXTENDS Naturals, Sequences, FiniteSets

CONSTANTS
    Retries,       \* failures in a row before connectSSE polls (5 in the code)
    MaxEvents,     \* bounds the events of the session
    MaxFailures,   \* bounds lost or stale connections, and calls to Redis, to the
                   \* database and of the history endpoint that fail
    Messages       \* what is emitted while the agent works, partial and other messages
                   \* of its tracer and questions to the user, and while the session
                   \* waits in the queue, its position

ASSUME StreamAssumption ==
    /\ Retries \in Nat
    /\ MaxEvents \in Nat \ {0, 1}
    /\ MaxFailures \in Nat
    /\ Messages \subseteq {"partial", "plain", "question", "position"}

VARIABLES
    count,      \* events created so far, the source of identities
    tracerSeq,  \* EventingTracer._sequence
    agent,      \* where the session's execution is
    scan,       \* a security scan that may still emit an alert is under way
    tasks,      \* events on their way, each with the next step of its task
    stream,     \* session:{id}:events in Redis
    table,      \* the rows of the event table
    conn,       \* event_generator of the client's current subscription
    wire,       \* frames sent and not received
    source,     \* EventSource of the client
    label,      \* connectionState
    attempts,   \* reconnectAttempts
    connects,   \* calls of connect that scheduleReconnect has set a timer for
    heartbeat,  \* heartbeatTimeout is set
    polling,    \* pollInterval is set (and upgradeInterval with it)
    poll,       \* answer of the history endpoint on its way, at most one
    lastId,     \* lastEventId
    seen,       \* seenSequences
    shown,      \* events handed to onEvent
    repeated,   \* agent events handed to onEvent again (history)
    stopped,    \* isClosed or isTerminal
    failures

emitters == <<count, tracerSeq, agent, scan, tasks, stream, table>>
client == <<source, label, attempts, connects, heartbeat, polling, poll, lastId, seen, shown, repeated, stopped>>
vars == <<emitters, conn, wire, client, failures>>

-----------------------------------------------------------------------------
Kinds == {"user", "partial", "plain", "error", "complete"}

\* Where an execution is, between the message that asks for it and its end, and
\* where an event is on its way.
Stages == {"submitted", "queued", "dequeued", "starting", "running", "ended", "complete", "done"}
Steps == {"publish", "persist", "record", "announce"}

\* TERMINAL_EVENTS
Terminal == {"error", "complete"}

\* Number and id of the frame that reports a streaming error: 9998 in the code.
ErrorSeq == MaxEvents + 1

Event == [id : 0 .. MaxEvents, seq : 1 .. ErrorSeq, kind : Kinds]

StreamingError == [id |-> 0, seq |-> ErrorSeq, kind |-> "error"]

NoPoll == {StreamingError}     \* never an answer: it is no row

Closed == [open |-> FALSE, start |-> 0, cursor |-> 0, sent |-> {}]

Seqs(events) == {e.seq : e \in events}

Greatest(S) == {n \in S \cup {0} : \A k \in S : k <= n}

Published(n) == {stream[i] : i \in 1 .. n}

\* agent_runner.is_running
Alive == agent \in {"starting", "running", "ended", "complete"}

\* A call or a connection that fails.
Fails == failures < MaxFailures /\ failures' = failures + 1

\* get_last_sequence: 0 when the read fails.
LastSequence(n) ==
    \/ n \in Greatest(Seqs(table)) /\ UNCHANGED failures
    \/ n = 0 /\ Fails

\* A new event on its way.  The bound keeps one event for an execution that has
\* not announced its end.
NewEvent(seq, kind, step) ==
    /\ count + (IF agent' \in Stages \ {"ended", "complete", "done"} THEN 1 ELSE 0) < MaxEvents
    /\ count' = count + 1
    /\ tasks' = tasks \cup
         {[event |-> [id |-> count + 1, seq |-> seq, kind |-> kind], step |-> step]}

Advance(t, step) == tasks' = (tasks \ {t}) \cup {[t EXCEPT !.step = step]}

Append1(e) == stream' = Append(stream, e)

-----------------------------------------------------------------------------
(* A session whose first message has just been submitted, and was started  *)
(* or put in the queue.                                                    *)

FirstMessage == [id |-> 1, seq |-> 1, kind |-> "user"]

Init ==
    /\ count = 1 /\ tracerSeq = 0 /\ agent \in {"starting", "queued"} /\ scan = FALSE
    /\ tasks = {} /\ stream = <<FirstMessage>> /\ table = {FirstMessage}
    /\ conn = Closed /\ wire = <<>>
    /\ source = "connecting" /\ label = "reconnecting" /\ attempts = 0
    /\ connects = 0 /\ heartbeat = FALSE
    /\ polling = FALSE /\ poll = NoPoll /\ lastId = 0
    /\ seen = {} /\ shown = {} /\ repeated = {} /\ stopped = FALSE
    /\ failures = 0

-----------------------------------------------------------------------------
(* Events of the agent                                                     *)

\* _run_agent creates the tracer with the last number of the database.
StartTracer ==
    /\ agent = "starting"
    /\ agent' = "running"
    /\ \E n \in 0 .. MaxEvents : LastSequence(n) /\ tracerSeq' = n
    /\ scan' = FALSE
    /\ UNCHANGED <<count, tasks, stream, table, conn, wire, client>>

\* EventingTracer.emit_event
Emit(kind) ==
    /\ tracerSeq' = tracerSeq + 1
    /\ NewEvent(tracerSeq', kind, "publish")
    /\ UNCHANGED <<stream, table, conn, wire, client, failures>>

EmitMessage(kind) ==
    /\ agent \in {"running", "ended"}
    /\ UNCHANGED <<agent, scan>>
    /\ Emit(kind)

\* An execution announces its end with errors, completion, or both: after a
\* denied permission the tracer reports the error and then the completion.  No
\* execution completes while a question is being asked.
EmitEnd(kind) ==
    /\ agent \in {"running", "ended"}
    /\ kind = "complete" => \A t \in tasks : t.step \notin {"record", "announce"}
    /\ agent' = (IF kind = "complete" THEN "complete" ELSE "ended")
    /\ scan' = (scan \/ kind = "complete")
    /\ Emit(kind)

\* _trigger_security_scan, whose task outlives the execution.
EmitAlert ==
    /\ scan
    /\ scan' = FALSE
    /\ UNCHANGED agent
    /\ Emit("plain")

\* A variant of Finish: the entry of _running_tasks stays.
FinishRegistered == agent \in {"ended", "complete"} /\ UNCHANGED vars

\* The end of _run_agent.
Finish ==
    /\ agent \in {"ended", "complete"}
    /\ agent' = "done"
    /\ UNCHANGED <<count, tracerSeq, scan, tasks, stream, table, conn, wire, client, failures>>

\* publish_and_persist, first half: a failure to publish is logged.  For partial
\* messages there is no second half, record_event skips them.
Publish(t) ==
    /\ t.step = "publish"
    /\ IF t.event.kind = "partial" THEN tasks' = tasks \ {t} ELSE Advance(t, "persist")
    /\ \/ Append1(t.event) /\ UNCHANGED failures
       \/ Fails /\ UNCHANGED stream
    /\ UNCHANGED <<count, tracerSeq, agent, scan, table, conn, wire, client>>

\* Second half; a failure is logged as well.
Persist(t) ==
    /\ t.step = "persist"
    /\ tasks' = tasks \ {t}
    /\ \/ table' = table \cup {t.event} /\ UNCHANGED failures
       \/ Fails /\ UNCHANGED table
    /\ UNCHANGED <<count, tracerSeq, agent, scan, stream, conn, wire, client>>

-----------------------------------------------------------------------------
(* Events of the question tool, the queue and the endpoints                *)

\* ask_user_question reads the last number of the database.
Ask ==
    /\ "question" \in Messages /\ agent = "running"
    /\ UNCHANGED agent
    /\ \E n \in 0 .. MaxEvents : LastSequence(n) /\ NewEvent(n + 1, "plain", "record")
    /\ UNCHANGED <<tracerSeq, scan, stream, table, conn, wire, client>>

\* _emit_queue_event reads the last number of the database as well.  The
\* processor waits for one event to be announced before it emits the next.
EmitQueueEvent(kind) ==
    /\ \A t \in tasks : t.step \notin {"record", "announce"}
    /\ \E n \in 0 .. MaxEvents : LastSequence(n) /\ NewEvent(n + 1, kind, "record")
    /\ UNCHANGED <<tracerSeq, scan, stream, table, conn, wire, client>>

\* _emit_position_updates
UpdatePosition ==
    /\ "position" \in Messages /\ agent = "queued"
    /\ UNCHANGED agent
    /\ EmitQueueEvent("plain")

\* QueueProcessor._start_task announces queue_started, and starts the agent when
\* that is done.
Dequeue ==
    /\ agent = "queued"
    /\ agent' = "dequeued"
    /\ EmitQueueEvent("plain")

StartQueued ==
    /\ agent = "dequeued"
    /\ \A t \in tasks : t.step \notin {"record", "announce"}
    /\ agent' = "starting"
    /\ UNCHANGED <<count, tracerSeq, scan, tasks, stream, table, conn, wire, client, failures>>

\* _cleanup_timed_out_tasks ends the wait with an error.
TimeoutQueued ==
    /\ agent = "queued"
    /\ agent' = "done"
    /\ EmitQueueEvent("error")

\* start_task on a session that does not run: record_user_message_event.  The
\* client submits when its connection has stopped.
Submit ==
    /\ stopped /\ poll = NoPoll /\ agent = "done"
    /\ agent' = "submitted"
    /\ \E n \in 0 .. MaxEvents : LastSequence(n) /\ NewEvent(n + 1, "user", "record")
    /\ UNCHANGED <<tracerSeq, scan, stream, table, conn, wire, client>>

\* record_event does not report a failure to its callers.
Record(t) ==
    /\ t.step = "record"
    /\ Advance(t, "announce")
    /\ \/ table' = table \cup {t.event} /\ UNCHANGED failures
       \/ Fails /\ UNCHANGED table
    /\ UNCHANGED <<count, tracerSeq, agent, scan, stream, conn, wire, client>>

\* getLastServerSequence and a new connectSSE.
Connect ==
    /\ \E n \in Greatest(Seqs({e \in shown : e.kind # "user"})) : lastId' = n
    /\ source' = "connecting" /\ label' = "reconnecting" /\ attempts' = 0
    /\ connects' = 0 /\ heartbeat' = FALSE
    /\ seen' = {} /\ stopped' = FALSE
    /\ UNCHANGED <<polling, poll, shown, repeated>>

\* publish_event; for a user message start_task goes on to start the agent or to
\* queue the task, and the client connects when it has the answer.  A failure
\* ends the request.
Announce(t) ==
    /\ t.step = "announce"
    /\ tasks' = tasks \ {t}
    /\ \/ /\ Append1(t.event)
          /\ IF t.event.kind = "user" THEN agent' \in {"starting", "queued"} /\ Connect
                                      ELSE UNCHANGED <<agent, client>>
          /\ UNCHANGED failures
       \/ /\ Fails
          /\ agent' = IF t.event.kind = "user" THEN "done" ELSE agent
          /\ UNCHANGED <<stream, client>>
    /\ UNCHANGED <<count, tracerSeq, scan, table, conn, wire>>

-----------------------------------------------------------------------------
(* stream_events and RedisEventHub.subscribe                               *)

\* Where subscribe starts to read: before the first event with a larger number,
\* at the beginning without a number, at the end if there is no such event.
FirstRead(start) ==
    {n \in 0 .. Len(stream) :
        IF start = 0
          THEN n = 0
          ELSE /\ \A i \in 1 .. n : stream[i].seq <= start
               /\ n < Len(stream) => stream[n + 1].seq > start}

\* stream_events begins a generator at the number that the client had.
Subscribe ==
    \E n \in FirstRead(lastId) :
        conn' = [open |-> TRUE, start |-> lastId, cursor |-> n, sent |-> {}]

\* The subscription is accepted; onopen ends polling and starts the heartbeat
\* timer.
Open ==
    /\ source = "connecting"
    /\ source' = "open" /\ label' = "connected"
    /\ attempts' = 0 /\ heartbeat' = TRUE /\ polling' = FALSE
    /\ Subscribe
    /\ UNCHANGED <<emitters, wire, connects, poll, lastId, seen, shown, repeated, stopped, failures>>

\* What the read loop of the subscription yields next, if there is more to read.
NextEntry == stream[conn.cursor + 1]

\* A variant of Fresh: the largest number sent instead of the set of numbers.
FreshAfterLast(e) == \A n \in conn.sent \cup {conn.start} : e.seq > n

\* The generator drops what it has sent and what the client had before.
Fresh(e) == e.seq \notin conn.sent /\ e.seq > conn.start

\* The next event of the stream; a terminal one ends the generator.
Forward ==
    /\ conn.open /\ conn.cursor < Len(stream)
    /\ LET e == NextEntry
       IN IF Fresh(e)
            THEN /\ wire' = Append(wire, e)
                 /\ conn' = IF e.kind \in Terminal THEN Closed
                            ELSE [open |-> TRUE, start |-> conn.start,
                                  cursor |-> conn.cursor + 1, sent |-> conn.sent \cup {e.seq}]
            ELSE /\ conn' = [conn EXCEPT !.cursor = @ + 1]
                 /\ UNCHANGED wire
    /\ UNCHANGED <<emitters, client, failures>>

\* Nothing new in the stream and no execution: the generator looks for the
\* first persisted terminal event after all it has sent.
Heartbeat ==
    /\ conn.open /\ conn.cursor = Len(stream) /\ ~Alive
    /\ \E e \in table :
         /\ e.kind \in Terminal
         /\ \A n \in conn.sent \cup {conn.start} : e.seq > n
         /\ \A f \in table : f.kind \in Terminal /\ f.seq < e.seq
                               => \E n \in conn.sent \cup {conn.start} : f.seq <= n
         /\ wire' = Append(wire, e)
    /\ conn' = Closed
    /\ UNCHANGED <<emitters, client, failures>>

\* Any other exception is reported as an error event, which ends the stream.
BreakStream ==
    /\ conn.open /\ Fails
    /\ wire' = Append(wire, StreamingError)
    /\ conn' = Closed
    /\ UNCHANGED <<emitters, client>>

\* The end of another subscription of the session stops all of them.
StopSubscriber ==
    /\ conn.open /\ Fails
    /\ conn' = Closed
    /\ UNCHANGED <<emitters, wire, client>>

-----------------------------------------------------------------------------
(* connectSSE                                                              *)

\* A variant of Show: cleanup leaves the reconnect timer.
ShowLeavesTimer(events) ==
    /\ seen' = seen \cup Seqs(events)
    /\ shown' = shown \cup events
    /\ repeated' = repeated \cup {e \in events \cap shown : e.kind # "user" /\ e # StreamingError}
    /\ stopped' = (stopped \/ \E e \in events : e.kind \in Terminal)
    /\ source' = (IF stopped' THEN "none" ELSE source)
    /\ heartbeat' = (heartbeat /\ ~stopped') /\ polling' = (polling /\ ~stopped')
    /\ conn' = (IF stopped' THEN Closed ELSE conn)
    /\ UNCHANGED connects

\* onEvent for events whose numbers are new; a terminal one is the last of them
\* and runs cleanup.
Show(events) ==
    /\ seen' = seen \cup Seqs(events)
    /\ shown' = shown \cup events
    /\ repeated' = repeated \cup {e \in events \cap shown : e.kind # "user" /\ e # StreamingError}
    /\ stopped' = (stopped \/ \E e \in events : e.kind \in Terminal)
    /\ source' = (IF stopped' THEN "none" ELSE source)
    /\ connects' = (IF stopped' THEN 0 ELSE connects)
    /\ heartbeat' = (heartbeat /\ ~stopped') /\ polling' = (polling /\ ~stopped')
    /\ conn' = (IF stopped' THEN Closed ELSE conn)

\* A variant of Receive: does not look at the numbers seen.
ReceiveAgain ==
    /\ source = "open" /\ wire # <<>>
    /\ lastId' = Head(wire).seq
    /\ Show({Head(wire)})
    /\ wire' = (IF stopped' THEN <<>> ELSE Tail(wire))
    /\ UNCHANGED <<emitters, label, attempts, poll, failures>>

\* onmessage: the last number follows the frames, up or down.
Receive ==
    /\ source = "open" /\ wire # <<>>
    /\ lastId' = Head(wire).seq
    /\ Show(IF Head(wire).seq \in seen THEN {} ELSE {Head(wire)})
    /\ wire' = (IF stopped' THEN <<>> ELSE Tail(wire))
    /\ UNCHANGED <<emitters, label, attempts, poll, failures>>

\* onerror and the heartbeat timeout close the source: another try after a
\* delay, or polling.  startPolling returns early when polling is on and leaves
\* the label alone.
Retry ==
    /\ source' = "none"
    /\ attempts' = attempts + 1
    /\ IF attempts < Retries
         THEN connects' = connects + 1 /\ label' = "reconnecting" /\ UNCHANGED polling
         ELSE /\ polling' = TRUE
              /\ label' = IF polling THEN "reconnecting" ELSE "polling"
              /\ UNCHANGED connects
    /\ UNCHANGED <<poll, lastId, seen, shown, repeated, stopped>>

\* The response has ended.
StreamEnds ==
    /\ source = "open" /\ ~conn.open /\ wire = <<>>
    /\ Retry
    /\ UNCHANGED <<emitters, conn, wire, heartbeat, failures>>

\* The connection fails, with all that is on its way.
Drop ==
    /\ source # "none" /\ Fails
    /\ conn' = Closed /\ wire' = <<>>
    /\ Retry
    /\ UNCHANGED <<emitters, heartbeat>>

\* Nothing came for too long.  onerror does not clear the timer, so it also
\* fires between two connections, or into the next one.
HeartbeatTimeout ==
    /\ heartbeat /\ Fails
    /\ heartbeat' = FALSE
    /\ conn' = Closed /\ wire' = <<>>
    /\ Retry
    /\ UNCHANGED emitters

\* connect closes the source there is.
Dial == source' = "connecting" /\ conn' = Closed /\ wire' = <<>>

\* reconnectTimeout
Reconnect ==
    /\ connects > 0
    /\ connects' = connects - 1
    /\ Dial
    /\ UNCHANGED <<emitters, label, attempts, heartbeat, polling, poll, lastId, seen, shown,
                   repeated, stopped, failures>>

\* attemptSSEUpgrade; polling goes on.
Upgrade ==
    /\ polling /\ label \in {"polling", "degraded"}
    /\ attempts' = 0
    /\ Dial
    /\ UNCHANGED <<emitters, label, connects, heartbeat, polling, poll, lastId, seen, shown,
                   repeated, stopped, failures>>

\* pollEvents asks for the rows after the last number.
Poll ==
    /\ polling /\ poll = NoPoll
    /\ poll' = {e \in table : e.seq > lastId}
    /\ UNCHANGED <<emitters, conn, wire, source, label, attempts, connects, heartbeat, polling,
                   lastId, seen, shown, repeated, stopped, failures>>

\* The answer is handled in the order of the numbers, whatever has happened
\* since the question: one event for every new number, up to a terminal one.
PollAnswer ==
    /\ poll # NoPoll
    /\ \E events \in SUBSET {e \in poll : e.seq \notin seen} :
         /\ \A e, f \in events : e.seq = f.seq => e = f
         /\ \A e \in events : e.kind \in Terminal => \A f \in events : f.seq <= e.seq
         /\ \A e \in poll : \/ e.seq \in seen \cup Seqs(events)
                            \/ \E f \in events : f.kind \in Terminal /\ f.seq < e.seq
         /\ Show(events)
         /\ LET handled == {e \in poll : \A f \in events : f.kind \in Terminal => e.seq <= f.seq}
            IN \E n \in Greatest(Seqs(handled) \cup {lastId}) : lastId' = n
    /\ wire' = (IF stopped' THEN <<>> ELSE wire)
    /\ poll' = NoPoll
    /\ label' = (IF label = "degraded" THEN "polling" ELSE label)
    /\ UNCHANGED <<emitters, attempts, failures>>

PollFails ==
    /\ poll # NoPoll /\ Fails
    /\ poll' = NoPoll
    /\ label' = "degraded"
    /\ UNCHANGED <<emitters, conn, wire, source, attempts, connects, heartbeat, polling, lastId,
                   seen, shown, repeated, stopped>>

-----------------------------------------------------------------------------
Task == \E t \in tasks : Publish(t) \/ Persist(t) \/ Record(t) \/ Announce(t)

EndRun == \E kind \in Terminal : EmitEnd(kind)

Queued == Dequeue \/ StartQueued \/ TimeoutQueued

Run == Queued \/ StartTracer \/ EndRun \/ Finish

Message ==
    \/ \E kind \in {"partial", "plain"} \cap Messages : EmitMessage(kind)
    \/ EmitAlert \/ Ask \/ UpdatePosition \/ Submit

Serve == Open \/ Forward \/ Heartbeat

Follow == Receive \/ StreamEnds \/ Reconnect

PollTable == Poll \/ PollAnswer

Failure == BreakStream \/ StopSubscriber \/ Drop \/ HeartbeatTimeout \/ PollFails

Next == Run \/ Task \/ Message \/ Serve \/ Follow \/ PollTable \/ Upgrade \/ Failure

Spec == Init /\ [][Next]_vars

\* The event loops of server and browser run what is ready, an execution ends,
\* and timers fire.  Nobody has to write, to submit or to fail, and the timer
\* that goes back from polling to the stream need not fire.
Fairness ==
    /\ WF_vars(Run) /\ WF_vars(Task) /\ WF_vars(Serve)
    /\ WF_vars(Follow) /\ WF_vars(PollTable)

FairSpec == Spec /\ Fairness

-----------------------------------------------------------------------------
\* The state of the parts.  A client that has stopped has no connection and no
\* timer left, though an answer to a poll may still be on its way.
TypeOK ==
    /\ count \in 1 .. MaxEvents
    /\ tracerSeq \in 0 .. count
    /\ agent \in Stages
    /\ scan \in BOOLEAN
    /\ tasks \subseteq [event : Event, step : Steps]
    /\ stream \in Seq(Event)
    /\ table \subseteq Event
    /\ conn \in [open : BOOLEAN, start : 0 .. ErrorSeq, cursor : 0 .. Len(stream),
                 sent : SUBSET (1 .. ErrorSeq)]
    /\ wire \in Seq(Event)
    /\ source \in {"none", "connecting", "open"}
    /\ label \in {"connected", "reconnecting", "polling", "degraded"}
    /\ attempts \in Nat /\ connects \in Nat
    /\ heartbeat \in BOOLEAN /\ polling \in BOOLEAN /\ stopped \in BOOLEAN
    /\ poll \subseteq Event
    /\ lastId \in 0 .. ErrorSeq
    /\ seen \subseteq 1 .. ErrorSeq
    /\ shown \subseteq Event /\ repeated \subseteq shown
    /\ failures \in 0 .. MaxFailures
    /\ stopped => source = "none" /\ connects = 0 /\ ~heartbeat /\ ~polling

\* Whatever the order in which events were published, and after any number of
\* reconnections: each number the generator has gone past and the client did
\* not have when it subscribed is shown or on its way.  The generator keeps a
\* set of numbers, and the position it starts from, for this.
NothingSkipped ==
    conn.open =>
        \A i \in 1 .. conn.cursor :
            stream[i].seq > conn.start =>
                stream[i].seq \in Seqs(shown) \cup {wire[k].seq : k \in 1 .. Len(wire)}

\* No event of the agent is shown twice, over reconnections, overlapping polls
\* and subscriptions, and further messages of the user.
ShownOnce == repeated = {}

\* A persisted terminal event that the client has not gone past ends its
\* connection, whichever of stream, heartbeat and polling brings it.
Behind ==
    {e \in table : e.kind \in Terminal /\ \A f \in shown : f.seq < e.seq}

TerminalReached == []<>(stopped \/ Behind = {})

\* sessions.py:1002 reports an error of the stream as an event.  Its number is
\* larger than all others, so a connection of the same page never gets past it:
\* the following formula does not hold.
TerminalShown ==
    []<>(stopped \/ {e \in table : e.kind \in Terminal /\
                        \A f \in shown \ {StreamingError} : f.seq < e.seq} = {})

\* redis_event_hub.py: consumers never miss events due to race conditions.
\* A client that follows the stream and has received all of it has shown all
\* that was not written by its user.
NeverMissed ==
    (conn.open /\ source = "open" /\ wire = <<>> /\ conn.cursor = Len(stream))
        => {e \in Published(Len(stream)) : e.kind # "user"} \subseteq shown

=============================================================================
