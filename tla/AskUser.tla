------------------------------ MODULE AskUser ------------------------------
(***************************************************************************)
(* Questions of an agent to its user, in one session.                      *)
(*                                                                         *)
(* A question and its answers are nothing but rows of the event table.     *)
(* The tool records a question and returns; the execution goes on until    *)
(* it ends by itself, and its end decides from the table whether the       *)
(* session waits for input.  The answer endpoint checks the table, awaits  *)
(* and records.  start_task reads the answers out of the table again and   *)
(* tells them to the next execution, if the session was waiting or         *)
(* cancelled when the request loaded it.                                   *)
(***************************************************************************)
EXTENDS Naturals, Sequences, FiniteSets

CONSTANTS
    Handlers,      \* concurrent requests to the answer endpoint
    ListLimit,     \* rows that list_events returns at most (1000 in the code)
    MaxQuestions,  \* bounds questions
    MaxAnswers,    \* bounds requests to the answer endpoint
    MaxEmits,      \* bounds the agent's other events
    MaxStarts,     \* bounds executions
    MaxAskFailures \* bounds calls to the database or Redis that fail

AskAssumption ==
    /\ IsFiniteSet(Handlers)
    /\ ListLimit \in Nat \ {0}
    /\ {MaxQuestions, MaxAnswers, MaxEmits, MaxStarts, MaxAskFailures} \subseteq Nat

ASSUME AskAssumption

VARIABLES
    table,     \* rows of the session in the event table, in the order of insertion
    status,    \* Session.status
    agent,     \* where the execution is
    found,     \* pending_question, read by an execution that ends
    ask,       \* the call of ask_user_question under way
    asked,     \* questions so far, the source of question_id
    handler,   \* requests to the answer endpoint
    answers,   \* answers so far, each is named by its number
    acked,     \* history: answers reported as submitted
    starter,   \* the request to start_task
    context,   \* answers in the resume context of that request
    starts, failures

askVars == <<table, status, agent, found, ask, asked, handler, answers, acked,
          starter, context, starts, failures>>

-----------------------------------------------------------------------------
Questions == 1 .. MaxQuestions
Answers == 1 .. MaxAnswers
Latest == 0      \* question_id = "latest"; also: no question

Row(type, question, answer, seq) ==
    [type |-> type, question |-> question, answer |-> answer, seq |-> seq]

Idle == [pc |-> "idle", question |-> Latest, answer |-> 0, seq |-> 0, prior |-> {}]

NoAsk == [pc |-> "idle", seq |-> 0]

\* A call to the database or Redis that fails.
CallFails == failures < MaxAskFailures /\ failures' = failures + 1

Rows == DOMAIN table

\* ORDER BY sequence; rows of the same number come in the order of insertion.
Precedes(i, j) == table[i].seq < table[j].seq \/ (table[i].seq = table[j].seq /\ i < j)

\* list_events without after_sequence: the first rows, never the last.
Listed == {i \in Rows : Cardinality({j \in Rows : Precedes(j, i)}) < ListLimit}

RowsOf(type) == {i \in Listed : table[i].type = type}

Unanswered == {i \in RowsOf("pending") :
                  \A k \in RowsOf("answered") : table[k].question # table[i].question}

\* get_pending_question_from_events: the first of the unanswered questions.
PendingQuestion ==
    {table[i].question : i \in {k \in Unanswered : \A j \in Unanswered : ~Precedes(j, k)}}

\* A variant of AnsweredQuestions: the first answer of each question.
AnsweredQuestionsFirst ==
    {<<table[k].question, table[k].answer>> :
        k \in {i \in RowsOf("answered") :
                 \A j \in RowsOf("answered") :
                      table[j].question = table[i].question => ~Precedes(j, i)}}

\* get_answered_questions_from_events: the last answer of each question.
AnsweredQuestions ==
    {<<table[k].question, table[k].answer>> :
        k \in {i \in RowsOf("answered") :
                 /\ \E q \in RowsOf("pending") : table[q].question = table[i].question
                 /\ \A j \in RowsOf("answered") :
                      table[j].question = table[i].question => ~Precedes(i, j)}}

LastSequence ==
    IF table = <<>> THEN 0
    ELSE CHOOSE m \in {table[i].seq : i \in Rows} : \A i \in Rows : table[i].seq <= m

\* A variant of NextSequence: the number that is there.
NextSequenceSame(n) == n = LastSequence /\ UNCHANGED failures

\* get_last_sequence + 1; the number is 0 when the read fails.
NextSequence(n) ==
    \/ n = LastSequence + 1 /\ UNCHANGED failures
    \/ n = 1 /\ CallFails

MaxRows == 2 + MaxQuestions + MaxAnswers + MaxEmits

\* record_event hides its failure from the caller.
Record(row) == \/ table' = Append(table, row) /\ UNCHANGED failures
               \/ CallFails /\ UNCHANGED table

AskInit ==
    /\ table = <<>> /\ status = "running" /\ agent = "running" /\ found = FALSE
    /\ ask = NoAsk /\ asked = 0
    /\ handler = [h \in Handlers |-> Idle] /\ answers = 0 /\ acked = {}
    /\ starter = "idle" /\ context = {} /\ starts = 1 /\ failures = 0

-----------------------------------------------------------------------------
(* The execution and its calls of the tool                                 *)

\* Events of the tracer: agent_start, which establishes the session, and others.
Emit(type) ==
    /\ agent = "running"
    /\ type = "start" <=> \A i \in Rows : table[i].type # "start"
    /\ Cardinality({i \in Rows : table[i].type = "other"}) < MaxEmits \/ type = "start"
    /\ \E n \in 0 .. MaxRows : NextSequence(n) /\ table' = Append(table, Row(type, 0, 0, n))
    /\ UNCHANGED <<status, agent, found, ask, asked, handler, answers, acked, starter, context,
                   starts>>

\* ask_user_question, up to the number of its event.
Ask ==
    /\ agent = "running" /\ ask = NoAsk /\ asked < MaxQuestions
    /\ \E i \in Rows : table[i].type = "start"
    /\ asked' = asked + 1
    /\ \E n \in 0 .. MaxRows : NextSequence(n) /\ ask' = [pc |-> "record", seq |-> n]
    /\ UNCHANGED <<table, status, agent, found, handler, answers, acked, starter, context, starts>>

AskRecord ==
    /\ ask.pc = "record"
    /\ Record(Row("pending", asked, 0, ask.seq))
    /\ ask' = [ask EXCEPT !.pc = "publish"]
    /\ UNCHANGED <<status, agent, found, asked, handler, answers, acked, starter, context, starts>>

\* The stop signals of the result are read by nobody: the execution continues.
AskReturn ==
    /\ ask.pc = "publish"
    /\ ask' = NoAsk
    /\ UNCHANGED failures \/ CallFails
    /\ UNCHANGED <<table, status, agent, found, asked, handler, answers, acked, starter, context,
                   starts>>

\* A variant of AgentEnds: does not look for questions.
AgentEndsUnchecked ==
    /\ agent = "running" /\ ask = NoAsk
    /\ agent' = "exiting" /\ found' = FALSE
    /\ UNCHANGED <<table, status, ask, asked, handler, answers, acked, starter, context, starts,
                   failures>>

\* execute_agent_task has returned; list_events answers with nothing if it fails.
AgentEnds ==
    /\ agent = "running" /\ ask = NoAsk
    /\ agent' = "exiting"
    /\ \/ found' = (PendingQuestion # {}) /\ UNCHANGED failures
       \/ found' = FALSE /\ CallFails
    /\ UNCHANGED <<table, status, ask, asked, handler, answers, acked, starter, context, starts>>

AgentCommit ==
    /\ agent = "exiting"
    /\ agent' = "none" /\ found' = FALSE
    /\ status' = IF found THEN "waiting_for_input" ELSE "complete"
    /\ UNCHANGED <<table, ask, asked, handler, answers, acked, starter, context, starts, failures>>

\* A cancellation or an exception, at any point; questions are not looked at.
AgentAborts(final) ==
    /\ agent \in {"running", "exiting"}
    /\ agent' = "none" /\ found' = FALSE /\ ask' = NoAsk
    /\ status' = final
    /\ UNCHANGED <<table, asked, handler, answers, acked, starter, context, starts, failures>>

-----------------------------------------------------------------------------
(* POST /sessions/{id}/answer                                              *)

Update(h, r) == handler' = [handler EXCEPT ![h] = r]

AnswerVars == <<status, agent, found, ask, asked, starter, context, starts>>

\* submit_answer; "latest" stands for the pending question of this moment.
AnswerBegin(h, target) ==
    /\ handler[h].pc = "idle" /\ answers < MaxAnswers
    /\ answers' = answers + 1
    /\ LET r == [pc |-> "verify", question |-> target, answer |-> answers',
                 seq |-> 0, prior |-> {a.answer : a \in acked}]
       IN IF target = Latest
            THEN \/ /\ PendingQuestion # {}
                    /\ \E q \in PendingQuestion : Update(h, [r EXCEPT !.question = q])
                    /\ UNCHANGED failures
                 \/ PendingQuestion = {} /\ UNCHANGED <<handler, failures>>
                 \/ CallFails /\ UNCHANGED handler
            ELSE Update(h, r) /\ UNCHANGED failures
    /\ UNCHANGED <<table, acked>> /\ UNCHANGED AnswerVars

\* Any pending question will do.
AnswerVerify(h) ==
    /\ handler[h].pc = "verify"
    /\ \/ /\ Update(h, IF PendingQuestion = {} THEN Idle ELSE [handler[h] EXCEPT !.pc = "number"])
          /\ UNCHANGED failures
       \/ Update(h, Idle) /\ CallFails
    /\ UNCHANGED <<table, answers, acked>> /\ UNCHANGED AnswerVars

AnswerNumber(h) ==
    /\ handler[h].pc = "number"
    /\ \E n \in 0 .. MaxRows :
         NextSequence(n) /\ Update(h, [handler[h] EXCEPT !.pc = "record", !.seq = n])
    /\ UNCHANGED <<table, answers, acked>> /\ UNCHANGED AnswerVars

AnswerRecord(h) ==
    /\ handler[h].pc = "record"
    /\ Record(Row("answered", handler[h].question, handler[h].answer, handler[h].seq))
    /\ Update(h, [handler[h] EXCEPT !.pc = "publish"])
    /\ UNCHANGED <<answers, acked>> /\ UNCHANGED AnswerVars

\* A failure to publish is reported as a question that was not found.
AnswerReturn(h) ==
    /\ handler[h].pc = "publish"
    /\ Update(h, Idle)
    /\ \/ /\ acked' = acked \cup {[question |-> handler[h].question, answer |-> handler[h].answer,
                                   prior |-> handler[h].prior]}
          /\ UNCHANGED failures
       \/ CallFails /\ UNCHANGED acked
    /\ UNCHANGED <<table, answers>> /\ UNCHANGED AnswerVars

-----------------------------------------------------------------------------
(* POST /sessions/{id}/task                                                *)

StartVars == <<table, found, ask, asked, handler, answers, acked>>

Established == \E i \in Rows : table[i].type = "start"

\* start_task: context is built for a session that was loaded as cancelled or
\* waiting and that has been established.
StartLoad ==
    /\ starter = "idle" /\ agent = "none" /\ starts < MaxStarts
    /\ starter' = IF status \in {"cancelled", "waiting_for_input"} /\ Established
                    THEN "context" ELSE "go"
    /\ context' = {}
    /\ UNCHANGED <<status, agent, starts, failures>> /\ UNCHANGED StartVars

\* A variant of BuildResumeContext: only the answers to pending questions.
BuildResumeContextPending ==
    /\ starter = "context"
    /\ context' = {p \in AnsweredQuestions : p[1] \in PendingQuestion}
    /\ starter' = "go"
    /\ UNCHANGED <<status, agent, starts, failures>> /\ UNCHANGED StartVars

\* build_resume_context refuses a session whose agent_start is not listed.  A
\* failing second read leaves the answers out.
BuildResumeContext ==
    /\ starter = "context"
    /\ IF RowsOf("start") = {}
         THEN starter' = "idle" /\ UNCHANGED <<context, failures>>
         ELSE /\ starter' = "go"
              /\ \/ context' = AnsweredQuestions /\ UNCHANGED failures
                 \/ context' = {} /\ CallFails
    /\ UNCHANGED <<status, agent, starts>> /\ UNCHANGED StartVars

StartGo ==
    /\ starter = "go"
    /\ starter' = "idle"
    /\ agent' = "running" /\ status' = "running" /\ starts' = starts + 1
    /\ UNCHANGED <<context, failures>> /\ UNCHANGED StartVars

-----------------------------------------------------------------------------
Tool == Ask \/ AskRecord \/ AskReturn

Agent ==
    \/ Emit("start") \/ Emit("other")
    \/ AgentEnds \/ AgentCommit
    \/ AgentAborts("cancelled") \/ AgentAborts("failed")

Answer(h) ==
    \/ \E target \in Questions \cup {Latest} : AnswerBegin(h, target)
    \/ AnswerVerify(h) \/ AnswerNumber(h) \/ AnswerRecord(h) \/ AnswerReturn(h)

Start == StartLoad \/ BuildResumeContext \/ StartGo

AskNext == Tool \/ Agent \/ Start \/ \E h \in Handlers : Answer(h)

AskSpec == AskInit /\ [][AskNext]_askVars

-----------------------------------------------------------------------------
\* Everything has its type.
AskTypeOK ==
    /\ table \in Seq([type : {"start", "other", "pending", "answered"},
                      question : 0 .. MaxQuestions, answer : 0 .. MaxAnswers, seq : 1 .. MaxRows])
    /\ status \in {"running", "waiting_for_input", "complete", "cancelled", "failed"}
    /\ agent \in {"none", "running", "exiting"} /\ found \in BOOLEAN
    /\ ask.pc \in {"idle", "record", "publish"} /\ asked \in 0 .. MaxQuestions
    /\ \A h \in Handlers : handler[h].pc \in {"idle", "verify", "number", "record", "publish"}
    /\ context \subseteq Questions \X Answers
    /\ starter \in {"idle", "context", "go"}

\* list_events answers with all there is.
Whole == Len(table) <= ListLimit

\* A session counts as complete only if no question it has asked is open, although
\* nothing stops the execution after a question and answers arrive at any time
\* (the end of _run_agent, as long as no call fails and the list is whole).
CompleteHasNoOpenQuestion ==
    failures = 0 /\ Whole /\ status = "complete" => Unanswered = {}

\* The resume context has an answer to every question whose answer was reported
\* as submitted (build_resume_context, as long as no call fails and the list is whole).
AnswersAreTold ==
    failures' = 0 /\ Whole /\ BuildResumeContext /\ starter' = "go"
      => \A a \in acked :
           (\E i \in Rows : table[i].type = "pending" /\ table[i].question = a.question)
             => \E p \in context' : p[1] = a.question

\* Of two answers to one question, the second given when the first was already
\* submitted, the resume context never has the first, if the list is whole.
LastAnswerIsTold ==
    failures' = 0 /\ Whole /\ BuildResumeContext
      => \A p \in context', a \in acked : a.question = p[1] => p[2] \notin a.prior

\* An execution that is resumed is told an answer to each question that was
\* answered, and never one that another had replaced when it was given
\* (build_resume_context, _build_answer_map).
ContextHasAnswers == [][AnswersAreTold /\ LastAnswerIsTold]_askVars

\* "latest" is the most recent question that is open (comment in
\* submit_answer_as_event).
LatestIsLast ==
    [][\A h \in Handlers : handler[h].pc = "idle" /\ handler'[h].pc = "verify"
         => handler'[h].question \in {table[i].question :
                i \in {k \in Unanswered : \A j \in Unanswered : ~Precedes(k, j)}}]_askVars

\* The execution that is started after an answer was submitted has the answer in its
\* context (documentation of the tool AskUserQuestion).
AnswerReachesAgent ==
    [][failures = 0 /\ StartGo
         => \A a \in acked : \E p \in context : p[1] = a.question]_askVars

\* A question that is open keeps the session waiting, however many events there
\* are (comment in _run_agent).
OpenQuestionWaits ==
    failures = 0 /\ status = "complete"
        => \A i \in Rows : table[i].type = "pending"
              => \E k \in Rows : table[k].type = "answered" /\ table[k].question = table[i].question

=============================================================================
