------------------------------ MODULE AgentRun ------------------------------
(***************************************************************************)
(* One run of the agent: the messages of the SDK, which the trace          *)
(* processor turns into events, the texts of which the eventing tracer     *)
(* puts together from the pieces that are streamed, and the ways in which  *)
(* the run ends.  What becomes of an event is the matter of EventStream.   *)
(*                                                                         *)
(* A text is a sequence of pieces: "p", of three characters or more, "s",  *)
(* shorter, "h" and "e", with which a header of fields begins and ends.    *)
(***************************************************************************)
EXTENDS Naturals, FiniteSets, SequencesExt

CONSTANTS
    Texts,        \* texts of the agent
    SubTexts,     \* texts of its subagents: none is also a text of the agent
    Tools,        \* identifiers of tool calls
    Tasks,        \* those that start a subagent
    Saved,        \* those after which a checkpoint is made
    MaxMessages,  \* bounds the messages of a run
    MaxTokens     \* bounds the tokens of a message

VARIABLES
    run,    \* the run: its phase, whether a denial interrupted it, how it ended
    sdk,    \* the message that is being received
    tools,  \* the calls of tools: new, running or done
    tp,     \* the trace processor
    et,     \* the eventing tracer
    saves,  \* the checkpoint tracker: its pending calls, and the checkpoints
    log,    \* the messages among the events, with the outcome they show
    stops,  \* how often the end of a subagent was reported
    hist    \* the messages that the log should hold

runVars == <<run, sdk, tools, tp, et, saves, log, stops, hist>>

NoMessage == [kind |-> "none", rest |-> <<>>, text |-> <<>>, said |-> TRUE, parent |-> "none",
              calls |-> {}, tokens |-> 0]
NoStream == [active |-> FALSE, buffer |-> <<>>, header |-> "unknown", full |-> <<>>]
NoResults == [errors |-> 0, all |-> 0]

RunInit ==
    /\ run \in {[phase |-> "new", partial |-> p, denied |-> FALSE, number |-> 0,
                 completed |-> FALSE, status |-> "none"] : p \in BOOLEAN}
    /\ sdk = NoMessage /\ tools = [t \in Tools |-> "new"]
    /\ tp = [pending |-> {}, subagents |-> {}, hasText |-> FALSE, parent |-> "none", errors |-> 0,
             total |-> 0, current |-> 0, shown |-> 0, cost |-> 0]
    /\ et = [stream |-> NoStream, last |-> <<>>, suppress |-> FALSE, outcomes |-> NoResults]
    /\ saves = [pending |-> {}, made |-> 0]
    /\ log = <<>> /\ stops = [t \in Tasks |-> 0]
    /\ hist = [texts |-> <<>>, since |-> NoResults, ambiguous |-> FALSE, spent |-> 0]

-----------------------------------------------------------------------------
(* The eventing tracer                                                     *)

\* What follows the header, if it is complete.
AfterHeader(text) ==
    LET e == SelectInSeq(text, LAMBDA x : x = "e")
    IN  IF e = 0 THEN <<>> ELSE SubSeq(text, e + 1, Len(text))

Body(text) == IF text # <<>> /\ text[1] = "h" THEN AfterHeader(text) ELSE text

AgentAssumption ==
    /\ {Body(t) : t \in Texts} \intersect SubTexts = {}
    /\ Tasks \union Saved \subseteq Tools /\ "none" \notin Tools
    /\ Texts \union SubTexts \subseteq Seq({"p", "s", "h", "e"}) \ {<<>>}
    /\ {MaxMessages, MaxTokens} \subseteq Nat \ {0}
ASSUME AgentAssumption

\* The stream after some pieces, and the text that they release.
Extract(s) ==
    IF ~Contains(s.buffer, "e") THEN [stream |-> s, text |-> <<>>]
    ELSE [stream |-> [s EXCEPT !.header = "no", !.buffer = <<>>], text |-> AfterHeader(s.buffer)]

Consume(s, pieces) ==
    LET b == [s EXCEPT !.buffer = @ \o pieces]
    IN  CASE s.header = "no" -> [stream |-> s, text |-> pieces]
          [] s.header = "yes" -> Extract(b)
          [] s.header = "unknown" /\ b.buffer = <<"s">> -> [stream |-> b, text |-> <<>>]
          [] s.header = "unknown" /\ b.buffer[1] = "h" -> Extract([b EXCEPT !.header = "yes"])
          [] OTHER -> [stream |-> [b EXCEPT !.header = "no", !.buffer = <<>>], text |-> b.buffer]

\* on_message of a piece.
Partial(piece) ==
    LET c == Consume([et.stream EXCEPT !.active = TRUE], piece)
    IN  et' = [et EXCEPT !.stream = [c.stream EXCEPT !.full = @ \o c.text]]

Status(o) == IF o.errors = 0 THEN "COMPLETE" ELSE IF o.errors = o.all THEN "FAILED" ELSE "PARTIAL"

Logged(text) == log' = Append(log, [text |-> text, status |-> Status(et.outcomes)])

\* The end of a stream: what the buffer holds belongs to it, and an equal message that
\* follows will be its repetition.  A stream of nothing leaves no event.
FinishStream(text) ==
    LET s == et.stream
        c == IF s.full = <<>> /\ text # <<>> THEN Consume(s, text) ELSE [stream |-> s, text |-> <<>>]
        held == IF c.text = <<>> /\ c.stream.header = "unknown" THEN c.stream.buffer ELSE c.text
        full == s.full \o held
    IN  IF full = <<>>
        THEN et' = [et EXCEPT !.stream = NoStream, !.outcomes = NoResults] /\ UNCHANGED log
        ELSE /\ Logged(full)
             /\ et' = [stream |-> NoStream, last |-> full, suppress |-> TRUE, outcomes |-> NoResults]

\* A variant of OnMessage: it does not know what was streamed.
OnMessageAgain(text) ==
    IF et.stream.active THEN FinishStream(text)
    ELSE IF text = <<>> THEN UNCHANGED <<et, log>>
    ELSE Logged(Body(text)) /\ et' = [et EXCEPT !.outcomes = NoResults]

OnMessage(text) ==
    IF et.stream.active THEN FinishStream(text)
    ELSE IF text = <<>> THEN UNCHANGED <<et, log>>
    ELSE IF et.suppress /\ text = et.last
         THEN et' = [et EXCEPT !.suppress = FALSE, !.last = <<>>] /\ UNCHANGED log
    ELSE /\ Logged(Body(text))
         /\ et' = [et EXCEPT !.suppress = FALSE, !.outcomes = NoResults,
                             !.last = IF et.suppress THEN <<>> ELSE @]

-----------------------------------------------------------------------------
(* The trace processor                                                     *)

Shown(p) == [p EXCEPT !.shown = p.total + p.current]

\* Usage while a message is streamed: the largest so far.  The cost is estimated once.
Estimated(p) == [p EXCEPT !.cost = IF @ = 0 THEN p.total + p.current ELSE @]
Usage(p, n) == Shown(Estimated([p EXCEPT !.current = IF n > @ THEN n ELSE @]))

\* The usage of the result joins the totals; what was current is forgotten thereafter.
FinalUsage(p, n) == [Shown(Estimated([p EXCEPT !.total = @ + n])) EXCEPT !.current = 0]

Report(S) == stops' = [t \in Tasks |-> IF t \in S THEN stops[t] + 1 ELSE stops[t]]

\* The init message: agent_start.
AgentStart ==
    /\ run.phase = "new" /\ run' = [run EXCEPT !.phase = "running"]
    /\ UNCHANGED <<sdk, tools, tp, et, saves, log, stops, hist>>

Active == run.phase = "running"
Waits == Active /\ sdk.kind = "none"
Running(S) == {t \in S : tools[t] = "running"}

\* A message of the agent, when it has all results, or of a subagent that runs.
Begin(parent, text, calls, n) ==
    /\ Waits /\ run.number < MaxMessages
    /\ IF parent = "none" THEN Running(Tools) = {} ELSE parent \in Running(Tasks) /\ calls = {}
    /\ text # <<>> \/ calls # {}
    /\ sdk' = [kind |-> IF run.partial THEN "stream" ELSE "blocks", rest |-> text, text |-> text,
               said |-> text = <<>>, parent |-> parent, calls |-> calls,
               tokens |-> n]
    /\ run' = [run EXCEPT !.number = @ + 1] /\ hist' = [hist EXCEPT !.spent = @ + n]

Receives == Active /\ sdk.kind # "none"

\* message_start names the subagent that the message belongs to.
MessageStart(parent, text, calls, n) ==
    /\ Begin(parent, text, calls, n)
    /\ tp' = IF ~run.partial THEN tp
             ELSE [tp EXCEPT !.hasText = FALSE, !.parent = IF parent = "none" THEN @ ELSE parent]
    /\ UNCHANGED <<tools, et, saves, log, stops>>

ToSubagent == tp.parent \in tp.subagents

\* A piece of the text, for the subagent or for the log.
TextDelta ==
    /\ Receives /\ sdk.kind = "stream" /\ sdk.rest # <<>>
    /\ sdk' = [sdk EXCEPT !.rest = Tail(@)]
    /\ tp' = [tp EXCEPT !.hasText = TRUE]
    /\ IF ToSubagent THEN UNCHANGED et ELSE Partial(<<Head(sdk.rest)>>)
    /\ UNCHANGED <<run, tools, saves, log, stops, hist>>

\* The log should hold a text once, when it has been told for the first time, with the
\* results since the text before.
Expected(text, ambiguous) ==
    hist' = [hist EXCEPT !.texts = Append(@, [text |-> Body(text), status |-> Status(hist.since)]),
                         !.since = NoResults, !.ambiguous = @ \/ ambiguous]

\* The text block of the complete message, before or after its stream has stopped.
\* A headed text after its stream, or a short one within it, is taken for another one;
\* of a text that is nothing but a header the stream leaves no event.
TextBlock ==
    LET streamed == run.partial /\ sdk.parent = "none"
        late == streamed /\ sdk.kind # "stream"
    IN  /\ Receives /\ ~sdk.said /\ (run.partial => sdk.rest = <<>>)
        /\ sdk' = [sdk EXCEPT !.said = TRUE]
        /\ OnMessage(sdk.text)
        /\ IF late THEN hist' = [hist EXCEPT !.ambiguous = @ \/ sdk.text[1] = "h"]
           ELSE Expected(sdk.text, streamed /\ (sdk.text = <<"s">> \/ Body(sdk.text) = <<>>))
        /\ UNCHANGED <<run, tools, tp, saves, stops>>

\* message_delta and message_stop: the usage, and the end of the text.
MessageStop ==
    /\ Receives /\ sdk.kind = "stream" /\ sdk.rest = <<>>
    /\ sdk' = [sdk EXCEPT !.kind = "blocks"]
    /\ tp' = [Usage(tp, sdk.tokens) EXCEPT !.hasText = FALSE, !.parent = "none"]
    /\ IF tp.hasText /\ ~ToSubagent THEN OnMessage(<<>>) ELSE UNCHANGED <<et, log>>
    /\ IF sdk.said \/ sdk.parent # "none" THEN UNCHANGED hist ELSE Expected(sdk.text, Body(sdk.text) = <<>>)
    /\ UNCHANGED <<run, tools, saves, stops>>

\* A tool_use block: the trace learns of the call, and of a subagent, and the
\* checkpoint tracker remembers it.
ToolUse(t) ==
    /\ Receives /\ t \in sdk.calls /\ tools[t] = "new"
    /\ tools' = [tools EXCEPT ![t] = "running"]
    /\ sdk' = [sdk EXCEPT !.calls = @ \ {t}]
    /\ tp' = [tp EXCEPT !.pending = @ \union {t}, !.subagents = @ \union ({t} \intersect Tasks)]
    /\ saves' = [saves EXCEPT !.pending = @ \union {t}]
    /\ UNCHANGED <<run, et, log, stops, hist>>

\* The message is complete.
MessageEnd ==
    /\ Receives /\ sdk.said /\ sdk.calls = {} /\ sdk.kind = "blocks"
    /\ sdk' = NoMessage
    /\ UNCHANGED <<run, tools, tp, et, saves, log, stops, hist>>

\* Of several results of one message only the first makes a checkpoint.
Checkpoint(t) ==
    saves' = [pending |-> saves.pending \ {t},
              made |-> IF t \in saves.pending \intersect Saved THEN saves.made + 1 ELSE saves.made]

Add(o, S, E) == [errors |-> o.errors + Cardinality(E), all |-> o.all + Cardinality(S)]

\* A user message with results; E are errors.
ToolResults(S, E, first) ==
    /\ Waits /\ S \subseteq Running(Tools) /\ E \subseteq S /\ first \in S
    /\ tools' = [t \in Tools |-> IF t \in S THEN "done" ELSE tools[t]]
    /\ tp' = [tp EXCEPT !.pending = @ \ S, !.subagents = @ \ S, !.errors = @ + Cardinality(E)]
    /\ Report(tp.subagents \intersect S)
    /\ et' = [et EXCEPT !.outcomes = Add(@, S, E)]
    /\ Checkpoint(first)
    /\ hist' = [hist EXCEPT !.since = Add(@, S, E)]
    /\ UNCHANGED <<run, sdk, log>>

\* A denial interrupts the run: the SDK ends it, whatever runs.
Denied ==
    /\ Active /\ Running(Tools) # {} /\ ~run.denied
    /\ run' = [run EXCEPT !.denied = TRUE]
    /\ UNCHANGED <<sdk, tools, tp, et, saves, log, stops, hist>>

-----------------------------------------------------------------------------
(* The end                                                                 *)

\* The result of the SDK, with the usage of the whole run.
ResultMessage(kind) ==
    /\ Waits /\ (run.denied \/ Running(Tools) = {})
    /\ run' = [run EXCEPT !.phase = kind]
    /\ tp' = FinalUsage(tp, hist.spent)
    /\ UNCHANGED <<sdk, tools, et, saves, log, stops, hist>>

\* A variant of Complete: subagents without a result are left alone.
CompleteOnly(status) ==
    /\ run' = [run EXCEPT !.phase = "over", !.completed = TRUE, !.status = status]
    /\ UNCHANGED <<tp, stops>>

\* Subagents without a result are reported as ended before the run is.
Complete(status) ==
    /\ run' = [run EXCEPT !.phase = "over", !.completed = TRUE, !.status = status]
    /\ Report(tp.subagents) /\ tp' = [tp EXCEPT !.subagents = {}]

\* FAILED when it was interrupted or a tool has failed.
Finish ==
    /\ run.phase = "success"
    /\ Complete(IF run.denied \/ tp.errors > 0 THEN "FAILED" ELSE "COMPLETE")
    /\ UNCHANGED <<sdk, tools, et, saves, log, hist>>

\* An answer that is missing, an error or too long: an exception of the agent.
Invalid ==
    /\ run.phase \in {"is_error", "max_turns"} \/ Waits
    /\ run' = [run EXCEPT !.phase = "over", !.status = "AgentError"]
    /\ UNCHANGED <<sdk, tools, tp, et, saves, log, stops, hist>>

\* Any other exception, the time limit of the run, or its cancellation.
Fail ==
    /\ run.phase # "over"
    /\ run' = [run EXCEPT !.phase = "over", !.status = "exception"]
    /\ UNCHANGED <<sdk, tools, tp, et, saves, log, stops, hist>>

RunNext ==
    \/ AgentStart \/ TextDelta \/ TextBlock \/ MessageStop \/ MessageEnd \/ Denied \/ Finish \/ Invalid \/ Fail
    \/ \E n \in 1 .. MaxTokens :
          \/ \E t \in {<<>>} \union Texts, S \in SUBSET {t \in Tools : tools[t] = "new"} :
                MessageStart("none", t, S, n)
          \/ \E p \in Tasks, t \in SubTexts : MessageStart(p, t, {}, n)
    \/ \E t \in Tools : ToolUse(t)
    \/ \E S \in SUBSET Running(Tools) : \E E \in SUBSET S, first \in S : ToolResults(S, E, first)
    \/ \E kind \in {"success", "is_error", "max_turns"} : ResultMessage(kind)

RunSpec == RunInit /\ [][RunNext]_runVars

-----------------------------------------------------------------------------
RunTypeOK ==
    /\ run.phase \in {"new", "running", "success", "is_error", "max_turns", "over"}
    /\ tools \in [Tools -> {"new", "running", "done"}] /\ stops \in [Tasks -> Nat]
    /\ tp.pending = Running(Tools) /\ tp.subagents \subseteq Tasks
    /\ et.stream.header \in {"unknown", "yes", "no"}

\* Between messages the log holds every text once, in order, without its header and
\* with the outcome of the tools since the text before it, streamed or not.
TextOnce == Waits /\ ~hist.ambiguous => log = hist.texts

\* When the run is reported as complete, every subagent has been reported as ended once.
SubagentsEnd ==
    run.completed => \A t \in Tasks : stops[t] = IF tools[t] = "new" THEN 0 ELSE 1

\* The tokens shown are never more than the tokens used.
ShownIsSpent == tp.shown <= hist.spent

=============================================================================
