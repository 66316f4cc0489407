--------------------------- MODULE AskUserProofs ---------------------------
(***************************************************************************)
(* Theorems about AskUser, for any number of questions, answers, requests  *)
(* and failures.                                                           *)
(***************************************************************************)
EXTENDS AskUser, FiniteSetTheorems, SequenceTheorems, WellFoundedInduction, TLAPS

-----------------------------------------------------------------------------
(* Type correctness *)

RowTypes == [type : {"start", "other", "pending", "answered"},
             question : 0 .. MaxQuestions, answer : 0 .. MaxAnswers, seq : 1 .. MaxRows]

\* Rows are appended with a number, questions and answers with their names.
TableTypes ==
    /\ table \in Seq(RowTypes)
    /\ \A i \in Rows : /\ table[i].type = "pending" => table[i].question \in Questions
                       /\ table[i].type = "answered" =>
                             table[i].question \in Questions /\ table[i].answer \in Answers

\* A sequence number is the largest so far and one.
HasLargest == table # <<>> => \E m \in Rows : \A i \in Rows : table[i].seq <= table[m].seq

ToolTypes ==
    /\ ask \in [pc : {"idle", "record", "publish"}, seq : 0 .. MaxRows]
    /\ ask.pc = "record" => ask.seq \in 1 .. MaxRows /\ asked \in Questions
    /\ asked \in 0 .. MaxQuestions

AnswerPC == {"idle", "verify", "number", "record", "publish"}
AnswerTypes ==
    /\ handler \in [Handlers -> [pc : AnswerPC, question : 0 .. MaxQuestions,
                                 answer : 0 .. MaxAnswers, seq : 0 .. MaxRows,
                                 prior : SUBSET Answers]]
    /\ \A h \in Handlers : handler[h].pc # "idle" =>
          handler[h].question \in Questions /\ handler[h].answer \in Answers
    /\ \A h \in Handlers : handler[h].pc = "record" => handler[h].seq \in 1 .. MaxRows
    /\ answers \in 0 .. MaxAnswers
    /\ acked \subseteq [question : Questions, answer : Answers, prior : SUBSET Answers]

RunTypes ==
    /\ status \in {"running", "waiting_for_input", "complete", "cancelled", "failed"}
    /\ agent \in {"none", "running", "exiting"} /\ found \in BOOLEAN
    /\ context \subseteq Questions \X Answers
    /\ starter \in {"idle", "context", "go"}
    /\ starts \in Nat /\ failures \in Nat

AskTypes == TableTypes /\ HasLargest /\ ToolTypes /\ AnswerTypes /\ RunTypes

-----------------------------------------------------------------------------
(* Nothing asked is left open *)

\* Who has ended, or is about to with nothing found, has no question open, and
\* nobody asks meanwhile.
NothingOpen ==
    /\ agent # "running" => ask = NoAsk
    /\ status = "complete" => agent = "none"
    /\ failures = 0 /\ Whole /\ (status = "complete" \/ (agent = "exiting" /\ ~found)) =>
          Unanswered = {}

-----------------------------------------------------------------------------
(* Every answer that was reported as submitted can be told *)

\* Answers that are still to be recorded are no others'.
AtWork(h) == handler[h].pc \in {"verify", "number", "record"}
AnswersAreOwn ==
    /\ \A h \in Handlers :
          /\ handler[h].pc # "idle" => handler[h].answer <= answers
          /\ \A p \in handler[h].prior : p <= answers
    /\ \A a \in acked : a.answer <= answers /\ \A p \in a.prior : p <= answers
    /\ \A h \in Handlers : AtWork(h) =>
          /\ \A a \in acked : a.answer # handler[h].answer /\ handler[h].answer \notin a.prior
          /\ \A g \in Handlers : /\ handler[h].answer \notin handler[g].prior
                                 /\ g # h /\ handler[g].pc # "idle" =>
                                       handler[g].answer # handler[h].answer

\* The row i answers the question, after the answers before.
Answering(i, question, answer, prior) ==
    /\ table[i].type = "answered"
    /\ table[i].question = question /\ table[i].answer = answer
    /\ \A j \in Rows : table[j].type = "answered" /\ table[j].answer \in prior =>
          table[j].seq < table[i].seq

Stored(question, answer, prior) == \E i \in Rows : Answering(i, question, answer, prior)

AnswersAreStored ==
    failures = 0 =>
        /\ \A a \in acked : Stored(a.question, a.answer, a.prior)
        /\ \A h \in Handlers :
              /\ handler[h].pc = "publish" =>
                    Stored(handler[h].question, handler[h].answer, handler[h].prior)
              /\ handler[h].pc = "record" =>
                    \A j \in Rows : table[j].type = "answered"
                                    /\ table[j].answer \in handler[h].prior =>
                                       table[j].seq < handler[h].seq

\* A request that waits for its context has been told nothing yet.
NothingTold == starter = "context" => context = {}

-----------------------------------------------------------------------------
(* Lemmas about the table *)

LEMMA Bounds ==
    /\ MaxQuestions \in Nat /\ MaxAnswers \in Nat /\ MaxEmits \in Nat /\ MaxStarts \in Nat
    /\ MaxAskFailures \in Nat /\ MaxRows \in Nat /\ ListLimit \in Nat \ {0}
BY AskAssumption DEF AskAssumption, MaxRows

\* Rows are those from 1 to the length of the table.
LEMMA RowsAre ==
    ASSUME TableTypes
    PROVE  /\ Len(table) \in Nat /\ Rows = 1 .. Len(table)
           /\ \A i \in Rows : table[i] \in RowTypes
BY LenProperties, ElementOfSeq DEF TableTypes, Rows

\* An appended row leaves the others where they are.
LEMMA AppendedRow ==
    ASSUME TableTypes, NEW r \in RowTypes, table' = Append(table, r)
    PROVE  /\ table' \in Seq(RowTypes)
           /\ Len(table') = Len(table) + 1 /\ Len(table) \in Nat
           /\ Rows' = Rows \cup {Len(table) + 1} /\ Len(table) + 1 \notin Rows
           /\ \A i \in Rows : table'[i] = table[i]
           /\ table'[Len(table) + 1] = r
<1>1. table \in Seq(RowTypes)
  BY DEF TableTypes
<1>2. /\ table' \in Seq(RowTypes) /\ Len(table') = Len(table) + 1
      /\ \A i \in 1 .. Len(table) : table'[i] = table[i]
      /\ table'[Len(table) + 1] = r
  BY <1>1, AppendProperties
<1>3. Rows = 1 .. Len(table) /\ Len(table) \in Nat
  BY RowsAre
<1>4. Rows' = 1 .. Len(table')
  BY <1>2, LenProperties DEF Rows
<1>5. QED
  BY <1>2, <1>3, <1>4

\* Appending a row keeps the types of the table and its largest number.
LEMMA AppendTypes ==
    ASSUME TableTypes, HasLargest, NEW r \in RowTypes, table' = Append(table, r),
           r.type = "pending" => r.question \in Questions,
           r.type = "answered" => r.question \in Questions /\ r.answer \in Answers
    PROVE  TableTypes' /\ HasLargest'
<1> DEFINE last == Len(table) + 1
<1>1. /\ table' \in Seq(RowTypes) /\ Rows' = Rows \cup {last} /\ last \in Rows'
      /\ \A i \in Rows : table'[i] = table[i]
      /\ table'[last] = r
  BY AppendedRow
<1> HIDE DEF last
<1>2. TableTypes'
  BY <1>1 DEF TableTypes, Questions, Answers
<1>3. \A i \in Rows : table[i].seq \in Nat
  BY RowsAre, Bounds DEF RowTypes
<1>4. r.seq \in Nat
  BY Bounds DEF RowTypes
<1>40. table'[last].seq = r.seq
  BY <1>1
<1>41. \A i \in Rows : table'[i].seq = table[i].seq
  BY <1>1
<1>5. HasLargest'
  <2>1. ASSUME NEW i \in Rows', NEW m \in Nat, r.seq <= m, \A k \in Rows : table[k].seq <= m
        PROVE  table'[i].seq <= m
    <3>1. CASE i = last
      <4>1. table'[i].seq = r.seq
        BY <1>40, <3>1
      <4>2. QED
        BY <2>1, <4>1
    <3>2. CASE i \in Rows
      <4>1. table'[i].seq = table[i].seq
        BY <1>41, <3>2
      <4>2. table[i].seq <= m
        BY <2>1, <3>2
      <4>3. QED
        BY <4>1, <4>2
    <3>3. QED
      BY <1>1, <3>1, <3>2
  <2>2. ASSUME NEW m \in Nat, NEW k \in Rows', table'[k].seq = m,
               r.seq <= m, \A i \in Rows : table[i].seq <= m
        PROVE  HasLargest'
    <3>1. \A i \in Rows' : table'[i].seq <= m
      BY <2>1, <2>2
    <3>2. \A i \in Rows' : table'[i].seq <= table'[k].seq
      BY <2>2, <3>1
    <3>3. QED
      BY <3>2 DEF HasLargest
  <2>3. r.seq <= r.seq
    BY <1>4
  <2>4. CASE table = <<>>
    <3>1. Rows = {}
      BY <2>4, RowsAre, EmptySeq
    <3>2. \A i \in Rows : table[i].seq <= r.seq
      BY <3>1
    <3>3. QED
      BY <1>1, <1>4, <1>40, <2>2, <2>3, <3>2
  <2>5. CASE table # <<>>
    <3>1. PICK m \in Rows : \A i \in Rows : table[i].seq <= table[m].seq
      BY <2>5 DEF HasLargest
    <3>2. table[m].seq \in Nat /\ table'[m].seq = table[m].seq /\ m \in Rows'
      BY <1>1, <1>3, <1>41
    <3>3. CASE table[m].seq <= r.seq
      <4>1. ASSUME NEW i \in Rows PROVE table[i].seq <= r.seq
        <5>1. table[i].seq <= table[m].seq /\ table[i].seq \in Nat
          BY <1>3, <3>1
        <5>2. QED
          BY <1>4, <3>2, <3>3, <5>1
      <4>2. QED
        BY <1>1, <1>4, <1>40, <2>2, <2>3, <4>1
    <3>4. CASE r.seq <= table[m].seq
      BY <2>2, <3>1, <3>2, <3>4
    <3>5. QED
      BY <1>4, <3>2, <3>3, <3>4
  <2>6. QED
    BY <2>4, <2>5
<1>6. QED
  BY <1>2, <1>5

\* The last number is that of no row but the largest.
LEMMA LastIsLargest ==
    ASSUME TableTypes, HasLargest
    PROVE  LastSequence \in Nat /\ \A i \in Rows : table[i].seq <= LastSequence
<1>1. CASE table = <<>>
  <2>1. Rows = {}
    BY <1>1, RowsAre, EmptySeq
  <2>2. QED
    BY <1>1, <2>1 DEF LastSequence
<1>2. CASE table # <<>>
  <2>1. \E m \in {table[i].seq : i \in Rows} : \A i \in Rows : table[i].seq <= m
    BY <1>2 DEF HasLargest
  <2>2. /\ LastSequence \in {table[i].seq : i \in Rows}
        /\ \A i \in Rows : table[i].seq <= LastSequence
    BY <1>2, <2>1 DEF LastSequence
  <2>3. \A i \in Rows : table[i].seq \in Nat
    BY RowsAre, Bounds DEF RowTypes
  <2>4. QED
    BY <2>2, <2>3
<1>3. QED
  BY <1>1, <1>2

\* As long as no call fails, a number is taken that is larger than all before.
LEMMA NextIsLarger ==
    ASSUME TableTypes, HasLargest, failures \in Nat, NEW n \in 0 .. MaxRows, NextSequence(n)
    PROVE  /\ n \in 1 .. MaxRows
           /\ failures' \in Nat /\ failures <= failures'
           /\ failures' = 0 => \A i \in Rows : table[i].seq < n
<1>1. LastSequence \in Nat /\ \A i \in Rows : table[i].seq <= LastSequence /\ table[i].seq \in Nat
  BY LastIsLargest, RowsAre, Bounds DEF RowTypes
<1>2. CASE n = LastSequence + 1 /\ UNCHANGED failures
  BY <1>1, <1>2, Bounds
<1>3. CASE n = 1 /\ CallFails
  BY <1>1, <1>3, Bounds DEF CallFails
<1>4. QED
  BY <1>2, <1>3 DEF NextSequence
\* A record of a row that is appended or lost.
LEMMA RecordMoves ==
    ASSUME TableTypes, HasLargest, failures \in Nat, NEW r \in RowTypes, Record(r),
           r.type = "pending" => r.question \in Questions,
           r.type = "answered" => r.question \in Questions /\ r.answer \in Answers
    PROVE  TableTypes' /\ HasLargest' /\ failures' \in Nat /\ failures <= failures'
<1>1. CASE table' = Append(table, r) /\ UNCHANGED failures
  BY <1>1, AppendTypes
<1>2. CASE CallFails /\ UNCHANGED table
  <2>1. TableTypes' /\ HasLargest'
    BY <1>2 DEF TableTypes, HasLargest, Rows
  <2>2. QED
    BY <1>2, <2>1, Bounds DEF CallFails
<1>3. QED
  BY <1>1, <1>2 DEF Record

\* Pending questions are questions, and answers of the table are answers.
LEMMA ReadTypes ==
    ASSUME TableTypes
    PROVE  PendingQuestion \subseteq Questions /\ AnsweredQuestions \subseteq Questions \X Answers
<1>1. ASSUME NEW i \in Unanswered PROVE table[i].question \in Questions
  BY DEF Unanswered, RowsOf, Listed, TableTypes
<1>2. ASSUME NEW i \in RowsOf("answered") PROVE <<table[i].question, table[i].answer>> \in Questions \X Answers
  BY DEF RowsOf, Listed, TableTypes
<1>3. PendingQuestion \subseteq Questions
  BY <1>1 DEF PendingQuestion
<1>4. AnsweredQuestions \subseteq Questions \X Answers
  BY <1>2 DEF AnsweredQuestions
<1>5. QED
  BY <1>3, <1>4

LEMMA InitTypes == AskInit => AskTypes
<1> SUFFICES ASSUME AskInit PROVE AskTypes
  OBVIOUS
<1>1. table = <<>> /\ Rows = {}
  BY DEF AskInit, Rows
<1>2. TableTypes /\ HasLargest
  BY <1>1 DEF TableTypes, HasLargest
<1>3. ToolTypes /\ RunTypes
  <2>1. ask = NoAsk /\ asked = 0 /\ NoAsk.pc = "idle"
    BY DEF AskInit, NoAsk
  <2>2. NoAsk \in [pc : {"idle", "record", "publish"}, seq : 0 .. MaxRows]
    BY Bounds DEF NoAsk
  <2>3. ToolTypes
    BY <2>1, <2>2, Bounds DEF ToolTypes
  <2>4. RunTypes
    BY DEF AskInit, RunTypes
  <2>5. QED
    BY <2>3, <2>4
<1>4. AnswerTypes
  <2>1. Idle \in [pc : AnswerPC, question : 0 .. MaxQuestions, answer : 0 .. MaxAnswers,
                  seq : 0 .. MaxRows, prior : SUBSET Answers]
    BY Bounds DEF Idle, Latest, AnswerPC
  <2>2. Idle.pc = "idle"
    BY DEF Idle
  <2>3. handler = [h \in Handlers |-> Idle] /\ answers = 0 /\ acked = {}
    BY DEF AskInit
  <2> HIDE DEF Idle
  <2>4. QED
    BY <2>1, <2>2, <2>3, Bounds DEF AnswerTypes
<1>5. QED
  BY <1>2, <1>3, <1>4 DEF AskTypes

-----------------------------------------------------------------------------
(* Types after a step                                                      *)

LEMMA TableKept ==
    ASSUME TableTypes, HasLargest, UNCHANGED table
    PROVE  TableTypes' /\ HasLargest'
BY DEF TableTypes, HasLargest, Rows

LEMMA EmitTypes ==
    ASSUME AskTypes, NEW type \in {"start", "other"}, Emit(type)
    PROVE  AskTypes'
<1>1. PICK n \in 0 .. MaxRows : NextSequence(n) /\ table' = Append(table, Row(type, 0, 0, n))
  BY DEF Emit
<1>2. n \in 1 .. MaxRows /\ failures' \in Nat
  BY <1>1, NextIsLarger DEF AskTypes, RunTypes
<1>3. Row(type, 0, 0, n) \in RowTypes /\ Row(type, 0, 0, n).type = type
  BY <1>2, Bounds DEF Row, RowTypes
<1>4. TableTypes' /\ HasLargest'
  <2> DEFINE r == Row(type, 0, 0, n)
  <2>1. r \in RowTypes /\ r.type # "pending" /\ r.type # "answered" /\ table' = Append(table, r)
    BY <1>1, <1>3
  <2> HIDE DEF r
  <2>2. QED
    BY <2>1, AppendTypes DEF AskTypes
<1>5. QED
  BY <1>2, <1>4 DEF Emit, AskTypes, ToolTypes, AnswerTypes, RunTypes

LEMMA AskMoveTypes ==
    ASSUME AskTypes, Ask
    PROVE  AskTypes'
<1>1. PICK n \in 0 .. MaxRows : NextSequence(n) /\ ask' = [pc |-> "record", seq |-> n]
  BY DEF Ask
<1>2. n \in 1 .. MaxRows /\ failures' \in Nat
  BY <1>1, NextIsLarger DEF AskTypes, RunTypes
<1>3. TableTypes' /\ HasLargest'
  BY TableKept DEF Ask, AskTypes
<1>4. ToolTypes'
  BY <1>1, <1>2, Bounds DEF Ask, AskTypes, ToolTypes, Questions
<1>5. QED
  BY <1>2, <1>3, <1>4 DEF Ask, AskTypes, AnswerTypes, RunTypes

LEMMA AskRecordTypes ==
    ASSUME AskTypes, AskRecord
    PROVE  AskTypes'
<1> DEFINE r == Row("pending", asked, 0, ask.seq)
<1>1. asked \in Questions /\ ask.seq \in 1 .. MaxRows
  BY DEF AskRecord, AskTypes, ToolTypes
<1>2. r \in RowTypes /\ r.type = "pending" /\ r.question \in Questions /\ Record(r)
  BY <1>1, Bounds DEF AskRecord, Row, RowTypes, Questions
<1> HIDE DEF r
<1>3. TableTypes' /\ HasLargest' /\ failures' \in Nat
  BY <1>2, RecordMoves DEF AskTypes, RunTypes
<1>4. ToolTypes'
  BY DEF AskRecord, AskTypes, ToolTypes
<1>5. QED
  BY <1>3, <1>4 DEF AskRecord, AskTypes, AnswerTypes, RunTypes

LEMMA AskReturnTypes ==
    ASSUME AskTypes, AskReturn
    PROVE  AskTypes'
<1>1. TableTypes' /\ HasLargest'
  BY TableKept DEF AskReturn, AskTypes
<1>2. failures' \in Nat
  BY Bounds DEF AskReturn, AskTypes, RunTypes, CallFails
<1>3. ToolTypes'
  BY Bounds DEF AskReturn, AskTypes, ToolTypes, NoAsk
<1>4. QED
  BY <1>1, <1>2, <1>3 DEF AskReturn, AskTypes, AnswerTypes, RunTypes

LEMMA AgentTypes ==
    ASSUME AskTypes, AgentEnds \/ AgentCommit \/ AgentAborts("cancelled") \/ AgentAborts("failed")
    PROVE  AskTypes'
<1>1. TableTypes' /\ HasLargest'
  BY TableKept DEF AgentEnds, AgentCommit, AgentAborts, AskTypes
<1>2. ToolTypes'
  BY Bounds DEF AgentEnds, AgentCommit, AgentAborts, AskTypes, ToolTypes, NoAsk
<1>3. AnswerTypes'
  BY DEF AgentEnds, AgentCommit, AgentAborts, AskTypes, AnswerTypes
<1>4. RunTypes'
  <2>1. failures' \in Nat
    BY Bounds DEF AgentEnds, AgentCommit, AgentAborts, AskTypes, RunTypes, CallFails
  <2>2. found' \in BOOLEAN /\ agent' \in {"none", "running", "exiting"}
    BY DEF AgentEnds, AgentCommit, AgentAborts
  <2>3. status' \in {"running", "waiting_for_input", "complete", "cancelled", "failed"}
    BY DEF AgentEnds, AgentCommit, AgentAborts, AskTypes, RunTypes
  <2>4. UNCHANGED <<context, starter, starts>>
    BY DEF AgentEnds, AgentCommit, AgentAborts
  <2>5. QED
    BY <2>1, <2>2, <2>3, <2>4 DEF AskTypes, RunTypes
<1>5. QED
  BY <1>1, <1>2, <1>3, <1>4 DEF AskTypes

LEMMA StartTypes ==
    ASSUME AskTypes, Start
    PROVE  AskTypes'
<1>1. TableTypes' /\ HasLargest'
  BY TableKept DEF Start, StartLoad, BuildResumeContext, StartGo, StartVars, AskTypes
<1>2. ToolTypes' /\ AnswerTypes'
  BY DEF Start, StartLoad, BuildResumeContext, StartGo, StartVars, AskTypes, ToolTypes, AnswerTypes
<1>3. RunTypes'
  <2>1. failures' \in Nat /\ starts' \in Nat
    BY Bounds DEF Start, StartLoad, BuildResumeContext, StartGo, AskTypes, RunTypes, CallFails
  <2>2. context' \subseteq Questions \X Answers
    BY ReadTypes DEF Start, StartLoad, BuildResumeContext, StartGo, AskTypes, RunTypes
  <2>3. /\ found' \in BOOLEAN /\ agent' \in {"none", "running", "exiting"}
        /\ status' \in {"running", "waiting_for_input", "complete", "cancelled", "failed"}
        /\ starter' \in {"idle", "context", "go"}
    BY DEF Start, StartLoad, BuildResumeContext, StartGo, StartVars, AskTypes, RunTypes
  <2>4. QED
    BY <2>1, <2>2, <2>3 DEF RunTypes
<1>4. QED
  BY <1>1, <1>2, <1>3 DEF AskTypes
\* A handler that is given a record of the types, and nothing else is changed
\* but answers, of which there are not fewer.
LEMMA UpdateTypes ==
    ASSUME AnswerTypes, NEW h \in Handlers,
           NEW r \in [pc : AnswerPC, question : 0 .. MaxQuestions, answer : 0 .. MaxAnswers,
                      seq : 0 .. MaxRows, prior : SUBSET Answers],
           Update(h, r), UNCHANGED acked, answers' \in 0 .. MaxAnswers,
           r.pc # "idle" => r.question \in Questions /\ r.answer \in Answers,
           r.pc = "record" => r.seq \in 1 .. MaxRows
    PROVE  AnswerTypes'
<1>1. /\ handler' \in [Handlers -> [pc : AnswerPC, question : 0 .. MaxQuestions,
                                    answer : 0 .. MaxAnswers, seq : 0 .. MaxRows,
                                    prior : SUBSET Answers]]
      /\ \A g \in Handlers : handler'[g] = IF g = h THEN r ELSE handler[g]
  BY DEF Update, AnswerTypes
<1>2. ASSUME NEW g \in Handlers
      PROVE  /\ handler'[g].pc # "idle" =>
                    handler'[g].question \in Questions /\ handler'[g].answer \in Answers
             /\ handler'[g].pc = "record" => handler'[g].seq \in 1 .. MaxRows
  <2>1. CASE g = h
    BY <1>1, <2>1
  <2>2. CASE g # h
    BY <1>1, <2>2 DEF AnswerTypes
  <2>3. QED
    BY <2>1, <2>2
<1>3. acked' \subseteq [question : Questions, answer : Answers, prior : SUBSET Answers]
  BY DEF AnswerTypes
<1>4. QED
  BY <1>1, <1>2, <1>3 DEF AnswerTypes

\* The types of what a handler holds, and of an idle one.
LEMMA HandlerTypes ==
    ASSUME AnswerTypes, NEW h \in Handlers
    PROVE  /\ handler[h] \in [pc : AnswerPC, question : 0 .. MaxQuestions, answer : 0 .. MaxAnswers,
                              seq : 0 .. MaxRows, prior : SUBSET Answers]
           /\ Idle \in [pc : AnswerPC, question : 0 .. MaxQuestions, answer : 0 .. MaxAnswers,
                        seq : 0 .. MaxRows, prior : SUBSET Answers]
           /\ Idle.pc = "idle"
           /\ handler[h].pc # "idle" => handler[h].question \in Questions /\ handler[h].answer \in Answers
BY Bounds DEF AnswerTypes, Idle, Latest, AnswerPC

\* What the answer endpoint leaves alone keeps its types.
LEMMA AnswerLeaves ==
    ASSUME AskTypes, UNCHANGED AnswerVars, failures' \in Nat
    PROVE  ToolTypes' /\ RunTypes'
BY DEF AnswerVars, AskTypes, ToolTypes, RunTypes

LEMMA AnswerBeginTypes ==
    ASSUME AskTypes, NEW h \in Handlers, NEW target \in Questions \cup {Latest},
           AnswerBegin(h, target)
    PROVE  AskTypes'
<1>1. answers' \in Answers /\ answers' \in 0 .. MaxAnswers /\ UNCHANGED acked
  BY Bounds DEF AskTypes, AnswerTypes, AnswerBegin, Answers
<1>2. failures' \in Nat
  BY Bounds DEF AskTypes, RunTypes, AnswerBegin, CallFails
<1>3. TableTypes' /\ HasLargest' /\ ToolTypes' /\ RunTypes'
  BY <1>2, TableKept, AnswerLeaves DEF AnswerBegin, AskTypes
<1> DEFINE Held == [pc : AnswerPC, question : 0 .. MaxQuestions, answer : 0 .. MaxAnswers,
                    seq : 0 .. MaxRows, prior : SUBSET Answers]
           r == [pc |-> "verify", question |-> target, answer |-> answers',
                 seq |-> 0, prior |-> {a.answer : a \in acked}]
<1>4. target \in 0 .. MaxQuestions
  BY Bounds DEF Questions, Latest
<1>5. {a.answer : a \in acked} \in SUBSET Answers
  BY DEF AskTypes, AnswerTypes
<1>6. r \in Held /\ r.pc = "verify" /\ r.question = target /\ r.answer \in Answers
  BY <1>1, <1>4, <1>5, Bounds DEF AnswerPC
<1>7. \/ \E q \in PendingQuestion : Update(h, [r EXCEPT !.question = q])
      \/ target \in Questions /\ Update(h, r)
      \/ UNCHANGED handler
  BY DEF AnswerBegin
<1> HIDE DEF r
<1>8. ASSUME NEW q \in PendingQuestion, Update(h, [r EXCEPT !.question = q]) PROVE AnswerTypes'
  <2>1. q \in Questions
    BY ReadTypes DEF AskTypes
  <2> DEFINE s == [r EXCEPT !.question = q]
  <2>2. s \in Held /\ s.pc = "verify" /\ s.question \in Questions /\ s.answer \in Answers
    BY <1>6, <2>1, Bounds DEF Questions
  <2>3. Update(h, s)
    BY <1>8
  <2> HIDE DEF s
  <2>4. QED
    BY <1>1, <2>2, <2>3, UpdateTypes DEF AskTypes
<1>9. ASSUME target \in Questions, Update(h, r) PROVE AnswerTypes'
  BY <1>1, <1>6, <1>9, UpdateTypes DEF AskTypes
<1>10. ASSUME UNCHANGED handler PROVE AnswerTypes'
  BY <1>1, <1>10 DEF AskTypes, AnswerTypes
<1>11. QED
  BY <1>3, <1>7, <1>8, <1>9, <1>10 DEF AskTypes

LEMMA AnswerVerifyTypes ==
    ASSUME AskTypes, NEW h \in Handlers, AnswerVerify(h)
    PROVE  AskTypes'
<1>1. failures' \in Nat
  BY Bounds DEF AskTypes, RunTypes, AnswerVerify, CallFails
<1>2. TableTypes' /\ HasLargest' /\ ToolTypes' /\ RunTypes'
  BY <1>1, TableKept, AnswerLeaves DEF AnswerVerify, AskTypes
<1> DEFINE r == [handler[h] EXCEPT !.pc = "number"]
<1>3. AnswerTypes /\ answers' \in 0 .. MaxAnswers /\ UNCHANGED acked
  BY DEF AnswerVerify, AskTypes, AnswerTypes
<1>4. Update(h, Idle) \/ Update(h, r)
  BY DEF AnswerVerify
<1>5. /\ r \in [pc : AnswerPC, question : 0 .. MaxQuestions, answer : 0 .. MaxAnswers,
                seq : 0 .. MaxRows, prior : SUBSET Answers]
      /\ r.pc = "number" /\ r.question \in Questions /\ r.answer \in Answers
  BY <1>3, HandlerTypes DEF AnswerVerify, AnswerPC
<1>6. CASE Update(h, Idle)
  BY <1>2, <1>3, <1>6, HandlerTypes, UpdateTypes DEF AskTypes
<1> HIDE DEF r
<1>7. CASE Update(h, r)
  BY <1>2, <1>3, <1>5, <1>7, UpdateTypes DEF AskTypes
<1>8. QED
  BY <1>4, <1>6, <1>7

LEMMA AnswerNumberTypes ==
    ASSUME AskTypes, NEW h \in Handlers, AnswerNumber(h)
    PROVE  AskTypes'
<1>1. PICK n \in 0 .. MaxRows : NextSequence(n) /\ Update(h, [handler[h] EXCEPT !.pc = "record", !.seq = n])
  BY DEF AnswerNumber
<1>2. n \in 1 .. MaxRows /\ failures' \in Nat
  BY <1>1, NextIsLarger DEF AskTypes, RunTypes
<1>3. TableTypes' /\ HasLargest' /\ ToolTypes' /\ RunTypes'
  BY <1>2, TableKept, AnswerLeaves DEF AnswerNumber, AskTypes
<1> DEFINE r == [handler[h] EXCEPT !.pc = "record", !.seq = n]
<1>4. AnswerTypes /\ answers' \in 0 .. MaxAnswers /\ UNCHANGED acked
  BY DEF AnswerNumber, AskTypes, AnswerTypes
<1>5. /\ r \in [pc : AnswerPC, question : 0 .. MaxQuestions, answer : 0 .. MaxAnswers,
                seq : 0 .. MaxRows, prior : SUBSET Answers]
      /\ r.pc = "record" /\ r.seq \in 1 .. MaxRows /\ r.question \in Questions /\ r.answer \in Answers
  BY <1>2, <1>4, HandlerTypes DEF AnswerNumber, AnswerPC
<1>6. Update(h, r)
  BY <1>1
<1> HIDE DEF r
<1>7. QED
  BY <1>3, <1>4, <1>5, <1>6, UpdateTypes DEF AskTypes

LEMMA AnswerRecordTypes ==
    ASSUME AskTypes, NEW h \in Handlers, AnswerRecord(h)
    PROVE  AskTypes'
<1> DEFINE row == Row("answered", handler[h].question, handler[h].answer, handler[h].seq)
           r == [handler[h] EXCEPT !.pc = "publish"]
<1>1. AnswerTypes /\ answers' \in 0 .. MaxAnswers /\ UNCHANGED acked
  BY DEF AnswerRecord, AskTypes, AnswerTypes
<1>2. /\ handler[h].question \in Questions /\ handler[h].answer \in Answers
      /\ handler[h].seq \in 1 .. MaxRows
  BY <1>1 DEF AnswerRecord, AnswerTypes
<1>3. /\ row \in RowTypes /\ row.type = "answered"
      /\ row.question \in Questions /\ row.answer \in Answers
  BY <1>2, Bounds DEF Row, RowTypes, Questions, Answers
<1>4. Record(row) /\ Update(h, r) /\ UNCHANGED AnswerVars
  BY DEF AnswerRecord
<1>5. /\ r \in [pc : AnswerPC, question : 0 .. MaxQuestions, answer : 0 .. MaxAnswers,
                seq : 0 .. MaxRows, prior : SUBSET Answers]
      /\ r.pc = "publish" /\ r.question \in Questions /\ r.answer \in Answers
  BY <1>1, <1>2, HandlerTypes DEF AnswerPC
<1> HIDE DEF row, r
<1>6. TableTypes' /\ HasLargest' /\ failures' \in Nat
  BY <1>3, <1>4, RecordMoves DEF AskTypes, RunTypes
<1>7. ToolTypes' /\ RunTypes'
  BY <1>4, <1>6, AnswerLeaves
<1>8. AnswerTypes'
  BY <1>1, <1>4, <1>5, UpdateTypes
<1>9. QED
  BY <1>6, <1>7, <1>8 DEF AskTypes

LEMMA AnswerReturnTypes ==
    ASSUME AskTypes, NEW h \in Handlers, AnswerReturn(h)
    PROVE  AskTypes'
<1>1. failures' \in Nat
  BY Bounds DEF AskTypes, RunTypes, AnswerReturn, CallFails
<1>2. TableTypes' /\ HasLargest' /\ ToolTypes' /\ RunTypes'
  BY <1>1, TableKept, AnswerLeaves DEF AnswerReturn, AskTypes
<1>3. acked' \subseteq [question : Questions, answer : Answers, prior : SUBSET Answers]
  <2>1. [question |-> handler[h].question, answer |-> handler[h].answer, prior |-> handler[h].prior]
          \in [question : Questions, answer : Answers, prior : SUBSET Answers]
    BY HandlerTypes DEF AnswerReturn, AskTypes
  <2>2. QED
    BY <2>1 DEF AnswerReturn, AskTypes, AnswerTypes
<1>4. AnswerTypes'
  <2>1. /\ handler' \in [Handlers -> [pc : AnswerPC, question : 0 .. MaxQuestions,
                                      answer : 0 .. MaxAnswers, seq : 0 .. MaxRows,
                                      prior : SUBSET Answers]]
        /\ \A g \in Handlers : g # h => handler'[g] = handler[g]
        /\ handler'[h].pc = "idle"
    BY HandlerTypes DEF AnswerReturn, Update, AskTypes, AnswerTypes
  <2>2. ASSUME NEW g \in Handlers
        PROVE  /\ handler'[g].pc # "idle" =>
                      handler'[g].question \in Questions /\ handler'[g].answer \in Answers
               /\ handler'[g].pc = "record" => handler'[g].seq \in 1 .. MaxRows
    <3>1. CASE g = h
      BY <2>1, <3>1
    <3>2. CASE g # h
      BY <2>1, <3>2 DEF AskTypes, AnswerTypes
    <3>3. QED
      BY <3>1, <3>2
  <2>3. answers' \in 0 .. MaxAnswers
    BY DEF AnswerReturn, AskTypes, AnswerTypes
  <2>4. QED
    BY <1>3, <2>1, <2>2, <2>3 DEF AnswerTypes
<1>5. QED
  BY <1>2, <1>4 DEF AskTypes

LEMMA StepTypes == AskTypes /\ [AskNext]_askVars => AskTypes'
<1> SUFFICES ASSUME AskTypes, [AskNext]_askVars PROVE AskTypes'
  OBVIOUS
<1>1. CASE Tool
  BY <1>1, AskMoveTypes, AskRecordTypes, AskReturnTypes DEF Tool
<1>2. CASE Agent
  BY <1>2, EmitTypes, AgentTypes DEF Agent
<1>3. CASE Start
  BY <1>3, StartTypes
<1>4. ASSUME NEW h \in Handlers, Answer(h) PROVE AskTypes'
  BY <1>4, AnswerBeginTypes, AnswerVerifyTypes, AnswerNumberTypes, AnswerRecordTypes, AnswerReturnTypes
     DEF Answer
<1>5. CASE UNCHANGED askVars
  BY <1>5 DEF askVars, AskTypes, TableTypes, HasLargest, ToolTypes, AnswerTypes, RunTypes, Rows
<1>6. QED
  BY <1>1, <1>2, <1>3, <1>4, <1>5 DEF AskNext

\* Every variable of the questions keeps its type: a handler that has a request holds a
\* question and an answer that exist, and the table has its largest number at a row.
THEOREM AskTypesAreKept == AskSpec => []AskTypes
BY InitTypes, StepTypes, PTL DEF AskSpec

\* The type invariant of AskUser.
THEOREM AskTypeCorrect == AskSpec => []AskTypeOK
<1>1. AskTypes => AskTypeOK
  <2> SUFFICES ASSUME AskTypes PROVE AskTypeOK
    OBVIOUS
  <2>1. \A h \in Handlers : handler[h].pc \in {"idle", "verify", "number", "record", "publish"}
    BY HandlerTypes DEF AskTypes, AnswerPC
  <2>2. ask.pc \in {"idle", "record", "publish"} /\ asked \in 0 .. MaxQuestions
    BY DEF AskTypes, ToolTypes
  <2>3. table \in Seq([type : {"start", "other", "pending", "answered"},
                       question : 0 .. MaxQuestions, answer : 0 .. MaxAnswers, seq : 1 .. MaxRows])
    BY DEF AskTypes, TableTypes, RowTypes
  <2>4. QED
    BY <2>1, <2>2, <2>3 DEF AskTypes, RunTypes, AskTypeOK
<1>2. QED
  BY <1>1, AskTypesAreKept, PTL
-----------------------------------------------------------------------------
(* Lemmas about the order of the table and what is read of it              *)

\* A nonempty set of natural numbers has a least element.
LEMMA Least ==
    ASSUME NEW N \in SUBSET Nat, N # {}
    PROVE  \E m \in N : \A k \in N : m <= k
<1> DEFINE Less == OpToRel(<, Nat)
<1>1. \A i, j \in Nat : i < j => <<i, j>> \in Less
  BY DEF OpToRel
<1>2. IsWellFoundedOn(Less, Nat)
  BY NatLessThanWellFounded
<1> HIDE DEF Less
<1>3. PICK m \in N : \A k \in N : <<k, m>> \notin Less
  BY <1>2, WFMin
<1>4. ASSUME NEW k \in N PROVE m <= k
  <2>1. ~(k < m)
    BY <1>1, <1>3, Zenon
  <2>2. k \in Nat /\ m \in Nat
    OBVIOUS
  <2>3. QED
    BY <2>1, <2>2
<1>5. QED
  BY <1>4

\* Numbers and indices of rows.
LEMMA RowNumbers ==
    ASSUME TableTypes, NEW i \in Rows
    PROVE  /\ i \in Nat /\ i <= Len(table) /\ Len(table) \in Nat
           /\ table[i].seq \in Nat /\ table[i].seq <= MaxRows
BY RowsAre, Bounds DEF RowTypes

\* Some rows have a first one in the order of sequence numbers.
LEMMA FirstRow ==
    ASSUME TableTypes, NEW S \in SUBSET Rows, S # {}
    PROVE  \E i \in S : \A j \in S : ~Precedes(j, i)
<1>1. \A i \in S : i \in Nat /\ table[i].seq \in Nat
  BY RowNumbers
<1> DEFINE N == {table[i].seq : i \in S}
<1>2. N \in SUBSET Nat /\ N # {}
  BY <1>1
<1>3. PICK n \in N : \A k \in N : n <= k
  <2> HIDE DEF N
  <2>1. QED
    BY <1>2, Least
<1> DEFINE T == {i \in S : table[i].seq = n}
<1>4. T \in SUBSET Nat /\ T # {}
  BY <1>1
<1>5. PICK i \in T : \A j \in T : i <= j
  <2> HIDE DEF T, N
  <2>1. QED
    BY <1>4, Least
<1>6. ASSUME NEW j \in S PROVE ~Precedes(j, i)
  <2>1. n <= table[j].seq /\ table[i].seq = n /\ n \in Nat /\ j \in Nat /\ i \in Nat
    BY <1>1, <1>3
  <2>2. table[j].seq = n => i <= j
    BY <1>5
  <2>3. table[j].seq \in Nat
    BY <1>1
  <2> HIDE DEF T, N
  <2>4. QED
    BY <2>1, <2>2, <2>3 DEF Precedes
<1>7. QED
  BY <1>6

\* Some rows have a last one in the order of sequence numbers.
LEMMA FinalRow ==
    ASSUME TableTypes, NEW S \in SUBSET Rows, S # {}
    PROVE  \E i \in S : \A j \in S : ~Precedes(i, j)
<1>1. \A i \in S : /\ i \in Nat /\ i <= Len(table) /\ Len(table) \in Nat
                   /\ table[i].seq \in Nat /\ table[i].seq <= MaxRows
  BY RowNumbers
<1> DEFINE N == {MaxRows - table[i].seq : i \in S}
<1>2. N \in SUBSET Nat /\ N # {}
  BY <1>1, Bounds
<1>3. PICK n \in N : \A k \in N : n <= k
  <2> HIDE DEF N
  <2>1. QED
    BY <1>2, Least
<1> DEFINE T == {i \in S : MaxRows - table[i].seq = n}
           M == {Len(table) - i : i \in T}
<1>4. M \in SUBSET Nat /\ M # {}
  BY <1>1
<1>5. PICK m \in M : \A k \in M : m <= k
  <2> HIDE DEF M, T, N
  <2>1. QED
    BY <1>4, Least
<1>6. PICK i \in T : m = Len(table) - i
  BY <1>5
<1>7. ASSUME NEW j \in S PROVE ~Precedes(i, j)
  <2>1. n <= MaxRows - table[j].seq /\ MaxRows - table[i].seq = n /\ i \in S
    BY <1>3
  <2>2. MaxRows - table[j].seq = n => m <= Len(table) - j
    BY <1>5
  <2> HIDE DEF M, T, N
  <2>3. /\ table[i].seq \in Nat /\ table[j].seq \in Nat /\ MaxRows \in Nat
        /\ i \in Nat /\ j \in Nat /\ Len(table) \in Nat
    BY <1>1, <2>1, Bounds
  <2>4. table[j].seq <= table[i].seq
    BY <2>1, <2>3
  <2>5. table[i].seq = table[j].seq => j <= i
    <3>1. table[i].seq = table[j].seq => Len(table) - i <= Len(table) - j
      BY <1>6, <2>1, <2>2
    <3>2. QED
      BY <2>3, <3>1
  <2>6. QED
    BY <2>3, <2>4, <2>5 DEF Precedes
<1>8. QED
  BY <1>7

\* list_events returns every row of a table that is not longer than its limit.
LEMMA WholeIsListed ==
    ASSUME TableTypes, Whole
    PROVE  Listed = Rows
<1>1. Rows = 1 .. Len(table) /\ Len(table) \in Nat
  BY RowsAre
<1>2. IsFiniteSet(Rows) /\ Cardinality(Rows) = Len(table)
  <2>1. IsFiniteSet(1 .. Len(table)) /\ Cardinality(1 .. Len(table)) =
           IF 1 > Len(table) THEN 0 ELSE Len(table) - 1 + 1
    BY <1>1, FS_Interval
  <2>2. QED
    BY <1>1, <2>1
<1>3. ASSUME NEW i \in Rows PROVE Cardinality({j \in Rows : Precedes(j, i)}) < ListLimit
  <2> DEFINE S == {j \in Rows : Precedes(j, i)}
  <2>1. i \notin S
    BY RowNumbers DEF Precedes
  <2>2. S \subseteq Rows \ {i}
    BY <2>1
  <2>3. IsFiniteSet(Rows \ {i}) /\ Cardinality(Rows \ {i}) = Len(table) - 1
    BY <1>2, FS_RemoveElement
  <2> HIDE DEF S
  <2>4. Cardinality(S) <= Len(table) - 1 /\ Cardinality(S) \in Nat
    BY <2>2, <2>3, FS_Subset, FS_CardinalityType
  <2>5. Cardinality(S) < ListLimit
    BY <1>1, <2>4, Bounds DEF Whole
  <2>6. QED
    BY <2>5 DEF S
<1>4. QED
  BY <1>3 DEF Listed

LEMMA WholeIsListedNext == (TableTypes /\ Whole => Listed = Rows)'
<1>1. TableTypes /\ Whole => Listed = Rows
  BY WholeIsListed
<1>2. QED
  BY <1>1, PTL

\* What is read from a whole table: the rows of a type, and the open questions.
LEMMA WholeReads ==
    ASSUME TableTypes, Whole
    PROVE  /\ \A type : RowsOf(type) = {i \in Rows : table[i].type = type}
           /\ Unanswered = {i \in Rows :
                 /\ table[i].type = "pending"
                 /\ \A k \in Rows : table[k].type = "answered" =>
                       table[k].question # table[i].question}
BY WholeIsListed DEF RowsOf, Unanswered

\* There is a pending question as soon as a question is open.
LEMMA OpenIsPending ==
    ASSUME TableTypes, PendingQuestion = {}
    PROVE  Unanswered = {}
<1> SUFFICES ASSUME Unanswered # {} PROVE FALSE
  OBVIOUS
<1>1. Unanswered \in SUBSET Rows
  BY DEF Unanswered, RowsOf, Listed
<1>2. PICK k \in Unanswered : \A j \in Unanswered : ~Precedes(j, k)
  BY <1>1, FirstRow
<1>3. QED
  BY <1>2 DEF PendingQuestion
-----------------------------------------------------------------------------
(* Nothing asked is left open, after a step                                *)

\* A row that asks nothing opens no question.
LEMMA NothingOpens ==
    ASSUME TableTypes, NEW r \in RowTypes, r.type # "pending", table' = Append(table, r),
           TableTypes', Whole', Whole => Unanswered = {}
    PROVE  Unanswered' = {}
<1>1. /\ Len(table') = Len(table) + 1 /\ Len(table) \in Nat
      /\ Rows' = Rows \cup {Len(table) + 1}
      /\ \A i \in Rows : table'[i] = table[i]
      /\ table'[Len(table) + 1] = r
  BY AppendedRow
<1>2. Whole
  BY <1>1, Bounds DEF Whole
<1>3. \A i \in Rows : table[i].type = "pending" =>
         \E k \in Rows : table[k].type = "answered" /\ table[k].question = table[i].question
  BY <1>2, WholeReads
<1>4. Listed' = Rows'
  BY WholeIsListedNext
<1>5. ASSUME NEW i \in Rows', table'[i].type = "pending"
      PROVE  \E k \in Rows' : table'[k].type = "answered" /\ table'[k].question = table'[i].question
  <2>1. i \in Rows
    BY <1>1, <1>5
  <2>2. table'[i] = table[i]
    BY <1>1, <2>1
  <2>3. PICK k \in Rows : table[k].type = "answered" /\ table[k].question = table[i].question
    BY <1>3, <1>5, <2>1, <2>2
  <2>4. table'[k] = table[k] /\ k \in Rows'
    BY <1>1
  <2>5. QED
    BY <2>2, <2>3, <2>4
<1>6. \A type : RowsOf(type)' = {i \in Rows' : table'[i].type = type}
  BY <1>4 DEF RowsOf
<1>7. Unanswered' = {i \in RowsOf("pending")' :
                        \A k \in RowsOf("answered")' : table'[k].question # table'[i].question}
  BY DEF Unanswered
<1>8. ASSUME NEW i \in Unanswered' PROVE FALSE
  <2>1. i \in Rows' /\ table'[i].type = "pending"
    BY <1>6, <1>7
  <2>2. PICK k \in Rows' : table'[k].type = "answered" /\ table'[k].question = table'[i].question
    BY <1>5, <2>1
  <2>3. k \in RowsOf("answered")'
    BY <1>6, <2>2
  <2>4. QED
    BY <1>7, <2>2, <2>3
<1>9. QED
  BY <1>8
\* What becomes of the table in a step that asks nothing.
NoQuestionAdded ==
    \/ UNCHANGED table
    \/ \E r \in RowTypes : r.type # "pending" /\ table' = Append(table, r)

LEMMA StaysClosed ==
    ASSUME AskTypes, AskTypes', failures <= failures', NoQuestionAdded,
           failures = 0 /\ Whole => Unanswered = {}
    PROVE  failures' = 0 /\ Whole' => Unanswered' = {}
<1> SUFFICES ASSUME failures' = 0, Whole' PROVE Unanswered' = {}
  OBVIOUS
<1>1. failures = 0 /\ TableTypes /\ TableTypes'
  BY DEF AskTypes, RunTypes
<1>2. CASE UNCHANGED table
  <2>1. Whole
    BY <1>2 DEF Whole
  <2>2. Unanswered = {}
    BY <1>1, <2>1
  <2>3. Unanswered' = Unanswered
    BY <1>2 DEF Unanswered, RowsOf, Listed, Rows, Precedes
  <2>4. QED
    BY <2>2, <2>3
<1>3. ASSUME NEW r \in RowTypes, r.type # "pending", table' = Append(table, r)
      PROVE  Unanswered' = {}
  BY <1>1, <1>3, NothingOpens
<1>4. QED
  BY <1>2, <1>3 DEF NoQuestionAdded

\* A step that asks nothing and leaves the execution alone opens nothing.
LEMMA OpenKept ==
    ASSUME AskTypes, AskTypes', NothingOpen, failures <= failures', NoQuestionAdded,
           UNCHANGED <<status, agent, found, ask>>
    PROVE  NothingOpen'
<1>1. ASSUME status = "complete" \/ (agent = "exiting" /\ ~found), failures' = 0, Whole'
      PROVE  Unanswered' = {}
  <2>1. failures = 0 /\ Whole => Unanswered = {}
    BY <1>1 DEF NothingOpen
  <2>2. QED
    BY <1>1, <2>1, StaysClosed
<1>2. (agent' # "running" => ask' = NoAsk) /\ (status' = "complete" => agent' = "none")
  BY DEF NothingOpen
<1>3. QED
  BY <1>1, <1>2 DEF NothingOpen

\* While an execution runs, questions may be open.
LEMMA OpenWhileRunning ==
    ASSUME agent' = "running", status' # "complete"
    PROVE  NothingOpen'
BY DEF NothingOpen

LEMMA ToolOpen ==
    ASSUME AskTypes, AskTypes', NothingOpen, Tool
    PROVE  NothingOpen'
<1>1. ASSUME Ask PROVE NothingOpen'
  <2>1. agent' = "running" /\ status' # "complete"
    BY <1>1 DEF Ask, NothingOpen
  <2>2. QED
    BY <2>1, OpenWhileRunning
<1>2. ASSUME AskRecord \/ AskReturn PROVE NothingOpen'
  <2>1. ask # NoAsk /\ UNCHANGED <<agent, status>>
    BY <1>2 DEF AskRecord, AskReturn, NoAsk
  <2>2. agent' = "running" /\ status' # "complete"
    BY <2>1 DEF NothingOpen
  <2>3. QED
    BY <2>2, OpenWhileRunning
<1>3. QED
  BY <1>1, <1>2 DEF Tool

LEMMA AgentOpen ==
    ASSUME AskTypes, AskTypes', NothingOpen, Agent
    PROVE  NothingOpen'
<1>1. ASSUME NEW type, Emit(type) PROVE NothingOpen'
  <2>1. agent' = "running" /\ status' # "complete"
    BY <1>1 DEF Emit, NothingOpen
  <2>2. QED
    BY <2>1, OpenWhileRunning
<1>2. ASSUME AgentEnds PROVE NothingOpen'
  <2>1. /\ agent' = "exiting" /\ status' = status /\ ask' = ask /\ ask = NoAsk
        /\ status # "complete" /\ UNCHANGED table
    BY <1>2 DEF AgentEnds, NothingOpen
  <2>2. ASSUME failures' = 0, ~(found') PROVE Unanswered' = {}
    <3>1. found' = (PendingQuestion # {})
      BY <1>2, <2>2 DEF AgentEnds, CallFails, AskTypes, RunTypes
    <3>2. Unanswered = {}
      BY <2>2, <3>1, OpenIsPending DEF AskTypes
    <3>3. Unanswered' = Unanswered
      BY <2>1 DEF Unanswered, RowsOf, Listed, Rows, Precedes
    <3>4. QED
      BY <3>2, <3>3
  <2>3. QED
    BY <2>1, <2>2 DEF NothingOpen
<1>3. ASSUME AgentCommit PROVE NothingOpen'
  <2>1. /\ agent' = "none" /\ ask' = ask /\ ask = NoAsk /\ UNCHANGED <<table, failures>>
        /\ status' = IF found THEN "waiting_for_input" ELSE "complete"
        /\ agent = "exiting"
    BY <1>3 DEF AgentCommit, NothingOpen
  <2>2. ASSUME failures' = 0, Whole', status' = "complete" PROVE Unanswered' = {}
    <3>1. ~found /\ failures = 0 /\ Whole
      BY <2>1, <2>2 DEF Whole
    <3>2. Unanswered = {}
      BY <2>1, <3>1 DEF NothingOpen
    <3>3. Unanswered' = Unanswered
      BY <2>1 DEF Unanswered, RowsOf, Listed, Rows, Precedes
    <3>4. QED
      BY <3>2, <3>3
  <2>3. QED
    BY <2>1, <2>2 DEF NothingOpen
<1>4. ASSUME NEW final \in {"cancelled", "failed"}, AgentAborts(final) PROVE NothingOpen'
  BY <1>4 DEF AgentAborts, NothingOpen
<1>5. QED
  BY <1>1, <1>2, <1>3, <1>4 DEF Agent

LEMMA StartOpen ==
    ASSUME AskTypes, AskTypes', NothingOpen, Start
    PROVE  NothingOpen'
<1>1. ASSUME StartLoad \/ BuildResumeContext PROVE NothingOpen'
  <2>1. UNCHANGED <<status, agent, found, ask, table>> /\ failures <= failures'
    BY <1>1, Bounds DEF StartLoad, BuildResumeContext, StartVars, CallFails, AskTypes, RunTypes
  <2>2. QED
    BY <2>1, OpenKept DEF NoQuestionAdded
<1>2. ASSUME StartGo PROVE NothingOpen'
  BY <1>2, OpenWhileRunning DEF StartGo
<1>3. QED
  BY <1>1, <1>2 DEF Start

LEMMA AnswerOpen ==
    ASSUME AskTypes, AskTypes', NothingOpen, NEW h \in Handlers, Answer(h)
    PROVE  NothingOpen'
<1>1. UNCHANGED AnswerVars
  BY DEF Answer, AnswerBegin, AnswerVerify, AnswerNumber, AnswerRecord, AnswerReturn
<1>2. CASE AnswerRecord(h)
  <2> DEFINE row == Row("answered", handler[h].question, handler[h].answer, handler[h].seq)
  <2>1. /\ handler[h].question \in Questions /\ handler[h].answer \in Answers
        /\ handler[h].seq \in 1 .. MaxRows
    BY <1>2 DEF AnswerRecord, AskTypes, AnswerTypes
  <2>2. row \in RowTypes /\ row.type # "pending"
    BY <2>1, Bounds DEF Row, RowTypes, Questions, Answers
  <2>3. Record(row)
    BY <1>2 DEF AnswerRecord
  <2> HIDE DEF row
  <2>4. NoQuestionAdded /\ failures <= failures'
    BY <2>2, <2>3 DEF Record, NoQuestionAdded, CallFails, AskTypes, RunTypes
  <2>5. QED
    BY <1>1, <2>4, OpenKept DEF AnswerVars
<1>3. CASE ~AnswerRecord(h)
  <2>1. UNCHANGED table
    BY <1>3 DEF Answer, AnswerBegin, AnswerVerify, AnswerNumber, AnswerReturn
  <2>2. failures <= failures'
    <3>1. failures \in Nat
      BY DEF AskTypes, RunTypes
    <3>2. UNCHANGED failures \/ CallFails
      BY <1>3 DEF Answer, AnswerBegin, AnswerVerify, AnswerNumber, AnswerReturn, NextSequence
    <3>3. QED
      BY <3>1, <3>2 DEF CallFails
  <2>3. QED
    BY <1>1, <2>1, <2>2, OpenKept DEF AnswerVars, NoQuestionAdded
<1>4. QED
  BY <1>2, <1>3

\* A session that is complete has no open question, whatever number of questions and answers
\* arrive while the execution ends: what the execution finds when it ends stays true, because
\* only itself could ask again.
THEOREM NothingAskedIsLeftOpen == AskSpec => []CompleteHasNoOpenQuestion
<1>1. AskInit => NothingOpen
  BY DEF AskInit, NothingOpen
<1>2. AskTypes /\ AskTypes' /\ NothingOpen /\ [AskNext]_askVars => NothingOpen'
  <2> SUFFICES ASSUME AskTypes, AskTypes', NothingOpen, [AskNext]_askVars PROVE NothingOpen'
    OBVIOUS
  <2>1. CASE UNCHANGED askVars
    <3>1. UNCHANGED <<status, agent, found, ask, table, failures>>
      BY <2>1 DEF askVars
    <3>2. QED
      BY <3>1, OpenKept DEF NoQuestionAdded, AskTypes, RunTypes
  <2>2. QED
    BY <2>1, ToolOpen, AgentOpen, StartOpen, AnswerOpen DEF AskNext
<1>3. NothingOpen => CompleteHasNoOpenQuestion
  BY DEF NothingOpen, CompleteHasNoOpenQuestion
<1>4. QED
  BY <1>1, <1>2, <1>3, AskTypesAreKept, PTL DEF AskSpec
-----------------------------------------------------------------------------
(* Answers are their own, after a step                                     *)

\* A request with a new answer sees only answers before its own.
LEMMA BeginOwn ==
    ASSUME AskTypes, AnswersAreOwn, NEW h \in Handlers, UNCHANGED acked,
           answers' = answers + 1, handler[h].pc = "idle",
           \A g \in Handlers : g # h => handler'[g] = handler[g],
           handler'[h].pc = "verify", handler'[h].answer = answers',
           handler'[h].prior = {a.answer : a \in acked}
    PROVE  AnswersAreOwn'
<1>1. answers \in Nat /\ answers < answers' /\ answers' \in Nat
  BY Bounds DEF AskTypes, AnswerTypes
<1>2. \A a \in acked : a.answer \in Nat /\ a.prior \subseteq Nat
  BY Bounds DEF AskTypes, AnswerTypes, Answers
<1>3. \A g \in Handlers : handler[g].answer \in Nat /\ handler[g].prior \subseteq Nat
  BY Bounds DEF AskTypes, AnswerTypes, Answers
<1>4. ASSUME NEW g \in Handlers
      PROVE  /\ handler'[g].pc # "idle" => handler'[g].answer <= answers'
             /\ \A p \in handler'[g].prior : p <= answers'
  <2>1. CASE g = h
    <3>1. \A a \in acked : a.answer <= answers'
      BY <1>1, <1>2 DEF AnswersAreOwn
    <3>2. QED
      BY <1>1, <2>1, <3>1
  <2>2. CASE g # h
    <3>1. handler'[g] = handler[g]
      BY <2>2
    <3>2. handler[g].pc # "idle" => handler[g].answer <= answers
      BY DEF AnswersAreOwn
    <3>3. \A p \in handler[g].prior : p <= answers
      BY DEF AnswersAreOwn
    <3>4. QED
      BY <1>1, <1>3, <3>1, <3>2, <3>3
  <2>3. QED
    BY <2>1, <2>2
<1>5. \A a \in acked' : a.answer <= answers' /\ \A p \in a.prior : p <= answers'
  BY <1>1, <1>2 DEF AnswersAreOwn
<1>6. ASSUME NEW k \in Handlers, AtWork(k)'
      PROVE  /\ \A a \in acked' : a.answer # handler'[k].answer /\ handler'[k].answer \notin a.prior
             /\ \A g \in Handlers : /\ handler'[k].answer \notin handler'[g].prior
                                    /\ g # k /\ handler'[g].pc # "idle" =>
                                          handler'[g].answer # handler'[k].answer
  <2>1. CASE k = h
    <3>1. \A a \in acked : a.answer # answers' /\ answers' \notin a.prior
      BY <1>1, <1>2 DEF AnswersAreOwn
    <3>2. ASSUME NEW g \in Handlers
          PROVE  /\ answers' \notin handler'[g].prior
                 /\ g # h /\ handler'[g].pc # "idle" => handler'[g].answer # answers'
      <4>1. CASE g = h
        BY <3>1, <4>1
      <4>2. CASE g # h
        <5>1. handler'[g] = handler[g]
          BY <4>2
        <5>2. handler[g].pc # "idle" => handler[g].answer <= answers
          BY DEF AnswersAreOwn
        <5>3. \A p \in handler[g].prior : p <= answers
          BY DEF AnswersAreOwn
        <5>4. QED
          BY <1>1, <1>3, <5>1, <5>2, <5>3
      <4>3. QED
        BY <4>1, <4>2
    <3>3. QED
      BY <2>1, <3>1, <3>2
  <2>2. CASE k # h
    <3>1. handler'[k] = handler[k] /\ AtWork(k)
      BY <1>6, <2>2 DEF AtWork
    <3>2. \A a \in acked : a.answer # handler[k].answer /\ handler[k].answer \notin a.prior
      BY <3>1 DEF AnswersAreOwn
    <3>3. handler[k].answer <= answers
      BY <3>1 DEF AnswersAreOwn, AtWork
    <3>4. ASSUME NEW g \in Handlers
          PROVE  /\ handler'[k].answer \notin handler'[g].prior
                 /\ g # k /\ handler'[g].pc # "idle" => handler'[g].answer # handler'[k].answer
      <4>1. CASE g = h
        BY <1>1, <1>3, <3>1, <3>2, <3>3, <4>1
      <4>2. CASE g # h
        BY <3>1, <4>2 DEF AnswersAreOwn
      <4>3. QED
        BY <4>1, <4>2
    <3>5. QED
      BY <3>1, <3>2, <3>4
  <2>3. QED
    BY <2>1, <2>2
<1>7. QED
  BY <1>4, <1>5, <1>6 DEF AnswersAreOwn

\* A request that goes on with its answer, and is not at work again once it was recorded.
LEMMA GoOnOwn ==
    ASSUME AskTypes, AnswersAreOwn, NEW h \in Handlers, UNCHANGED <<answers, acked>>,
           \A g \in Handlers : g # h => handler'[g] = handler[g],
           handler'[h].pc # "idle" => handler'[h].answer = handler[h].answer /\ handler[h].pc # "idle",
           handler'[h].prior \subseteq handler[h].prior,
           AtWork(h)' => AtWork(h)
    PROVE  AnswersAreOwn'
<1>1. ASSUME NEW g \in Handlers
      PROVE  /\ handler'[g].pc # "idle" => handler'[g].answer = handler[g].answer /\ handler[g].pc # "idle"
             /\ handler'[g].prior \subseteq handler[g].prior
             /\ AtWork(g)' => AtWork(g) /\ handler'[g].pc # "idle"
  BY DEF AtWork
<1>2. ASSUME NEW g \in Handlers
      PROVE  /\ handler'[g].pc # "idle" => handler'[g].answer <= answers'
             /\ \A p \in handler'[g].prior : p <= answers'
  BY <1>1 DEF AnswersAreOwn
<1>3. ASSUME NEW k \in Handlers, AtWork(k)'
      PROVE  /\ \A a \in acked' : a.answer # handler'[k].answer /\ handler'[k].answer \notin a.prior
             /\ \A g \in Handlers : /\ handler'[k].answer \notin handler'[g].prior
                                    /\ g # k /\ handler'[g].pc # "idle" =>
                                          handler'[g].answer # handler'[k].answer
  <2>1. AtWork(k) /\ handler'[k].answer = handler[k].answer
    BY <1>1, <1>3
  <2>2. QED
    BY <1>1, <2>1 DEF AnswersAreOwn
<1>4. QED
  BY <1>2, <1>3 DEF AnswersAreOwn

LEMMA BeginMoves ==
    ASSUME AskTypes, NEW h \in Handlers, NEW target, AnswerBegin(h, target), handler' # handler
    PROVE  /\ \A g \in Handlers : g # h => handler'[g] = handler[g]
           /\ handler'[h].pc = "verify" /\ handler'[h].answer = answers'
           /\ handler'[h].prior = {a.answer : a \in acked}
<1> DEFINE r == [pc |-> "verify", question |-> target, answer |-> answers',
                 seq |-> 0, prior |-> {a.answer : a \in acked}]
<1>1. \/ \E q \in PendingQuestion : Update(h, [r EXCEPT !.question = q])
      \/ Update(h, r)
  BY DEF AnswerBegin
<1>2. PICK q : Update(h, [r EXCEPT !.question = q]) \/ Update(h, r)
  BY <1>1
<1>3. /\ r.pc = "verify" /\ r.answer = answers' /\ r.prior = {a.answer : a \in acked}
      /\ [r EXCEPT !.question = q].pc = "verify"
      /\ [r EXCEPT !.question = q].answer = answers'
      /\ [r EXCEPT !.question = q].prior = {a.answer : a \in acked}
  OBVIOUS
<1>4. ASSUME NEW s, Update(h, s), s.pc = "verify", s.answer = answers',
             s.prior = {a.answer : a \in acked}
      PROVE  /\ \A g \in Handlers : g # h => handler'[g] = handler[g]
             /\ handler'[h].pc = "verify" /\ handler'[h].answer = answers'
             /\ handler'[h].prior = {a.answer : a \in acked}
  BY <1>4 DEF Update, AskTypes, AnswerTypes
<1> HIDE DEF r
<1>5. QED
  BY <1>2, <1>3, <1>4

\* A request that goes on changes its own record only.
LEMMA HandlerMoves ==
    ASSUME AskTypes, NEW h \in Handlers,
           AnswerVerify(h) \/ AnswerNumber(h) \/ AnswerRecord(h) \/ AnswerReturn(h)
    PROVE  /\ \A g \in Handlers : g # h => handler'[g] = handler[g]
           /\ UNCHANGED answers /\ handler[h].pc # "idle"
           /\ handler'[h].pc # "idle" => /\ handler'[h].answer = handler[h].answer
                                         /\ handler'[h].question = handler[h].question
                                         /\ handler'[h].prior = handler[h].prior
           /\ handler'[h].prior \subseteq handler[h].prior
           /\ AtWork(h)' => AtWork(h)
           /\ AnswerReturn(h) => handler'[h].pc = "idle"
           /\ handler'[h].pc = "record" => AnswerNumber(h)
           /\ handler'[h].pc = "publish" => AnswerRecord(h)
<1>1. handler[h] \in [pc : AnswerPC, question : 0 .. MaxQuestions, answer : 0 .. MaxAnswers,
                      seq : 0 .. MaxRows, prior : SUBSET Answers]
  BY HandlerTypes DEF AskTypes
<1>2. Idle.pc = "idle" /\ Idle.prior = {}
  BY DEF Idle
<1>3. \A r : Update(h, r) => /\ handler'[h] = r
                             /\ \A g \in Handlers : g # h => handler'[g] = handler[g]
  BY DEF Update, AskTypes, AnswerTypes
<1>4. ASSUME AnswerVerify(h)
      PROVE  handler'[h] = Idle \/ handler'[h] = [handler[h] EXCEPT !.pc = "number"]
  BY <1>3, <1>4 DEF AnswerVerify
<1>5. ASSUME AnswerVerify(h)
      PROVE  /\ handler'[h].pc \in {"idle", "number"} /\ handler'[h].prior \subseteq handler[h].prior
             /\ handler'[h].pc # "idle" => /\ handler'[h].answer = handler[h].answer
                                           /\ handler'[h].question = handler[h].question
                                           /\ handler'[h].prior = handler[h].prior
             /\ handler[h].pc = "verify" /\ UNCHANGED answers
             /\ \A g \in Handlers : g # h => handler'[g] = handler[g]
  <2>1. handler[h].pc = "verify" /\ UNCHANGED answers
        /\ \A g \in Handlers : g # h => handler'[g] = handler[g]
    BY <1>3, <1>5 DEF AnswerVerify
  <2>2. CASE handler'[h] = Idle
    BY <1>2, <2>1, <2>2
  <2>3. CASE handler'[h] = [handler[h] EXCEPT !.pc = "number"]
    BY <1>1, <2>1, <2>3
  <2>4. QED
    BY <1>4, <1>5, <2>2, <2>3
<1>6. ASSUME AnswerNumber(h)
      PROVE  /\ handler'[h].pc = "record" /\ handler'[h].prior = handler[h].prior
             /\ handler'[h].answer = handler[h].answer /\ handler'[h].question = handler[h].question
             /\ handler[h].pc = "number" /\ UNCHANGED answers
             /\ \A g \in Handlers : g # h => handler'[g] = handler[g]
  <2>1. PICK n : Update(h, [handler[h] EXCEPT !.pc = "record", !.seq = n])
    BY <1>6 DEF AnswerNumber
  <2>2. handler'[h] = [handler[h] EXCEPT !.pc = "record", !.seq = n]
        /\ \A g \in Handlers : g # h => handler'[g] = handler[g]
    BY <1>3, <2>1
  <2>3. handler[h].pc = "number" /\ UNCHANGED answers
    BY <1>6 DEF AnswerNumber
  <2>4. QED
    BY <1>1, <2>2, <2>3
<1>7. ASSUME AnswerRecord(h)
      PROVE  /\ handler'[h].pc = "publish" /\ handler'[h].prior = handler[h].prior
             /\ handler'[h].answer = handler[h].answer /\ handler'[h].question = handler[h].question
             /\ handler[h].pc = "record" /\ UNCHANGED answers
             /\ \A g \in Handlers : g # h => handler'[g] = handler[g]
  BY <1>1, <1>3, <1>7 DEF AnswerRecord
<1>8. ASSUME AnswerReturn(h)
      PROVE  /\ handler'[h].pc = "idle" /\ handler'[h].prior \subseteq handler[h].prior
             /\ handler[h].pc = "publish" /\ UNCHANGED answers
             /\ \A g \in Handlers : g # h => handler'[g] = handler[g]
  BY <1>2, <1>3, <1>8 DEF AnswerReturn
<1>9. QED
  <2>1. CASE AnswerVerify(h)
    <3>1. ~AnswerReturn(h)
      BY <1>5, <1>8, <2>1
    <3>2. QED
      BY <1>5, <2>1, <3>1 DEF AtWork
  <2>2. CASE AnswerNumber(h)
    <3>1. ~AnswerReturn(h)
      BY <1>6, <1>8, <2>2
    <3>2. QED
      BY <1>6, <2>2, <3>1 DEF AtWork
  <2>3. CASE AnswerRecord(h)
    <3>1. ~AnswerReturn(h)
      BY <1>7, <1>8, <2>3
    <3>2. QED
      BY <1>7, <2>3, <3>1 DEF AtWork
  <2>4. CASE AnswerReturn(h)
    BY <1>8, <2>4 DEF AtWork
  <2>5. QED
    BY <2>1, <2>2, <2>3, <2>4
\* The answer of a request that returns was its own until it was recorded.
LEMMA ReturnOwn ==
    ASSUME AskTypes, AnswersAreOwn, NEW h \in Handlers, AnswerReturn(h)
    PROVE  AnswersAreOwn'
<1> DEFINE new == [question |-> handler[h].question, answer |-> handler[h].answer,
                   prior |-> handler[h].prior]
<1>1. /\ \A g \in Handlers : g # h => handler'[g] = handler[g]
      /\ UNCHANGED answers /\ handler[h].pc # "idle" /\ handler'[h].pc = "idle"
      /\ handler'[h].prior \subseteq handler[h].prior
  BY HandlerMoves
<1>2. acked' \subseteq acked \cup {new} /\ new.answer = handler[h].answer /\ new.prior = handler[h].prior
  BY DEF AnswerReturn
<1> HIDE DEF new
<1>3. ASSUME NEW g \in Handlers
      PROVE  /\ handler'[g].pc # "idle" => handler'[g].answer <= answers'
             /\ \A p \in handler'[g].prior : p <= answers'
  BY <1>1 DEF AnswersAreOwn
<1>4. ASSUME NEW a \in acked' PROVE a.answer <= answers' /\ \A p \in a.prior : p <= answers'
  <2>1. CASE a \in acked
    BY <1>1, <2>1 DEF AnswersAreOwn
  <2>2. CASE a = new
    BY <1>1, <1>2, <2>2 DEF AnswersAreOwn
  <2>3. QED
    BY <1>2, <2>1, <2>2
<1>5. ASSUME NEW k \in Handlers, AtWork(k)'
      PROVE  /\ \A a \in acked' : a.answer # handler'[k].answer /\ handler'[k].answer \notin a.prior
             /\ \A g \in Handlers : /\ handler'[k].answer \notin handler'[g].prior
                                    /\ g # k /\ handler'[g].pc # "idle" =>
                                          handler'[g].answer # handler'[k].answer
  <2>1. k # h
    BY <1>1, <1>5 DEF AtWork
  <2>2. AtWork(k) /\ handler'[k] = handler[k]
    BY <1>1, <1>5, <2>1 DEF AtWork
  <2>3. ASSUME NEW a \in acked'
        PROVE  a.answer # handler[k].answer /\ handler[k].answer \notin a.prior
    <3>1. CASE a \in acked
      BY <2>2, <3>1 DEF AnswersAreOwn
    <3>2. CASE a = new
      BY <1>1, <1>2, <2>1, <2>2, <3>2 DEF AnswersAreOwn
    <3>3. QED
      BY <1>2, <3>1, <3>2
  <2>4. ASSUME NEW g \in Handlers
        PROVE  /\ handler'[k].answer \notin handler'[g].prior
               /\ g # k /\ handler'[g].pc # "idle" => handler'[g].answer # handler'[k].answer
    <3>1. CASE g = h
      BY <1>1, <2>2, <3>1 DEF AnswersAreOwn
    <3>2. CASE g # h
      BY <1>1, <2>2, <3>2 DEF AnswersAreOwn
    <3>3. QED
      BY <3>1, <3>2
  <2>5. QED
    BY <2>2, <2>3, <2>4
<1>6. QED
  BY <1>3, <1>4, <1>5 DEF AnswersAreOwn

LEMMA AnswerOwn ==
    ASSUME AskTypes, AnswersAreOwn, NEW h \in Handlers, Answer(h)
    PROVE  AnswersAreOwn'
<1>1. ASSUME NEW target, AnswerBegin(h, target) PROVE AnswersAreOwn'
  <2>1. UNCHANGED acked /\ answers' = answers + 1 /\ handler[h].pc = "idle"
    BY <1>1 DEF AnswerBegin
  <2>2. CASE handler' # handler
    BY <1>1, <2>1, <2>2, BeginMoves, BeginOwn
  <2>3. CASE UNCHANGED handler
    <3>1. answers \in Nat
      BY DEF AskTypes, AnswerTypes
    <3>2. \A m \in Nat : m <= answers => m <= answers'
      BY <2>1, <3>1
    <3>3. \A a \in acked : a.answer \in Nat /\ a.prior \subseteq Nat
      BY Bounds DEF AskTypes, AnswerTypes, Answers
    <3>4. \A g \in Handlers : handler[g].answer \in Nat /\ handler[g].prior \subseteq Nat
      BY Bounds DEF AskTypes, AnswerTypes, Answers
    <3>5. \A g \in Handlers : /\ handler'[g].pc # "idle" => handler'[g].answer <= answers'
                              /\ \A p \in handler'[g].prior : p <= answers'
      BY <2>3, <3>2, <3>4 DEF AnswersAreOwn
    <3>6. \A a \in acked' : a.answer <= answers' /\ \A p \in a.prior : p <= answers'
      BY <2>1, <3>2, <3>3 DEF AnswersAreOwn
    <3>7. QED
      BY <2>1, <2>3, <3>5, <3>6 DEF AnswersAreOwn, AtWork
  <2>4. QED
    BY <2>2, <2>3
<1>2. ASSUME AnswerVerify(h) \/ AnswerNumber(h) \/ AnswerRecord(h) PROVE AnswersAreOwn'
  <2>1. UNCHANGED acked
    BY <1>2 DEF AnswerVerify, AnswerNumber, AnswerRecord
  <2>2. QED
    BY <1>2, <2>1, HandlerMoves, GoOnOwn
<1>3. ASSUME AnswerReturn(h) PROVE AnswersAreOwn'
  BY <1>3, ReturnOwn
<1>4. QED
  BY <1>1, <1>2, <1>3 DEF Answer

-----------------------------------------------------------------------------
(* Answers are stored, after a step                                        *)

\* A row that answers a question goes on to do so when another row is appended that is not
\* one of the answers before.
LEMMA AnsweringKept ==
    ASSUME TableTypes, NEW r \in RowTypes, table' = Append(table, r),
           NEW i \in Rows, NEW q, NEW n, NEW P, Answering(i, q, n, P),
           r.type = "answered" => r.answer \notin P
    PROVE  i \in Rows' /\ Answering(i, q, n, P)'
<1>1. /\ Rows' = Rows \cup {Len(table) + 1}
      /\ \A j \in Rows : table'[j] = table[j]
      /\ table'[Len(table) + 1] = r
  BY AppendedRow
<1>2. i \in Rows' /\ table'[i] = table[i]
  BY <1>1
<1>3. ASSUME NEW j \in Rows', table'[j].type = "answered", table'[j].answer \in P
      PROVE  table'[j].seq < table'[i].seq
  <2>1. CASE j \in Rows
    <3>1. table'[j] = table[j]
      BY <1>1, <2>1
    <3>2. QED
      BY <1>2, <1>3, <2>1, <3>1 DEF Answering
  <2>2. CASE j = Len(table) + 1
    BY <1>1, <1>3, <2>2
  <2>3. QED
    BY <1>1, <2>1, <2>2
<1>4. QED
  BY <1>2, <1>3 DEF Answering

\* Nothing but the table is read.
LEMMA AnsweringSame ==
    ASSUME UNCHANGED table, NEW i, NEW q, NEW n, NEW P, Answering(i, q, n, P)
    PROVE  Answering(i, q, n, P)'
BY DEF Answering, Rows

\* What is stored stays stored unless the row that is appended is one of the answers before.
LEMMA StoredKept ==
    ASSUME TableTypes, NEW q, NEW n, NEW P, Stored(q, n, P),
           \/ UNCHANGED table
           \/ \E r \in RowTypes : table' = Append(table, r) /\ (r.type = "answered" => r.answer \notin P)
    PROVE  Stored(q, n, P)'
<1>1. PICK i \in Rows : Answering(i, q, n, P)
  BY DEF Stored
<1>2. CASE UNCHANGED table
  <2>1. Answering(i, q, n, P)' /\ i \in Rows'
    BY <1>1, <1>2, AnsweringSame DEF Rows
  <2>2. QED
    BY <2>1 DEF Stored
<1>3. ASSUME NEW r \in RowTypes, table' = Append(table, r), r.type = "answered" => r.answer \notin P
      PROVE  Stored(q, n, P)'
  <2>1. i \in Rows' /\ Answering(i, q, n, P)'
    BY <1>1, <1>3, AnsweringKept
  <2>2. QED
    BY <2>1 DEF Stored
<1>4. QED
  BY <1>2, <1>3
\* The table is left alone, or a row is appended that replaces no answer some request knows of.
ReplacesNothing ==
    \/ UNCHANGED table
    \/ \E r \in RowTypes :
          /\ table' = Append(table, r)
          /\ r.type = "answered" =>
                /\ \A a \in acked : r.answer \notin a.prior
                /\ \A g \in Handlers : r.answer \notin handler[g].prior

LEMMA TableStores ==
    ASSUME AskTypes, AnswersAreStored, failures = 0, ReplacesNothing
    PROVE  /\ \A a \in acked : Stored(a.question, a.answer, a.prior)'
           /\ \A g \in Handlers : handler[g].pc = "publish" =>
                 \A q, n, P : q = handler[g].question /\ n = handler[g].answer /\ P = handler[g].prior =>
                    Stored(q, n, P)'
           /\ \A g \in Handlers : handler[g].pc = "record" =>
                 \A j \in Rows' : table'[j].type = "answered" /\ table'[j].answer \in handler[g].prior =>
                    table'[j].seq < handler[g].seq
<1>1. TableTypes
  BY DEF AskTypes
<1>2. ASSUME NEW a \in acked PROVE Stored(a.question, a.answer, a.prior)'
  <2>1. Stored(a.question, a.answer, a.prior)
    BY DEF AnswersAreStored
  <2>2. \/ UNCHANGED table
        \/ \E r \in RowTypes : table' = Append(table, r) /\ (r.type = "answered" => r.answer \notin a.prior)
    BY DEF ReplacesNothing
  <2>3. QED
    BY <1>1, <2>1, <2>2, StoredKept
<1>3. ASSUME NEW g \in Handlers, handler[g].pc = "publish", NEW q, NEW n, NEW P,
             q = handler[g].question, n = handler[g].answer, P = handler[g].prior
      PROVE  Stored(q, n, P)'
  <2>1. Stored(q, n, P)
    BY <1>3 DEF AnswersAreStored
  <2>2. \/ UNCHANGED table
        \/ \E r \in RowTypes : table' = Append(table, r) /\ (r.type = "answered" => r.answer \notin P)
    BY <1>3 DEF ReplacesNothing
  <2>3. QED
    BY <1>1, <2>1, <2>2, StoredKept
<1>4. ASSUME NEW g \in Handlers, handler[g].pc = "record", NEW j \in Rows',
             table'[j].type = "answered", table'[j].answer \in handler[g].prior
      PROVE  table'[j].seq < handler[g].seq
  <2>1. ASSUME j \in Rows, table'[j] = table[j] PROVE table'[j].seq < handler[g].seq
    BY <1>4, <2>1 DEF AnswersAreStored
  <2>2. CASE UNCHANGED table
    BY <2>1, <2>2 DEF Rows
  <2>3. ASSUME NEW r \in RowTypes, table' = Append(table, r),
               r.type = "answered" => r.answer \notin handler[g].prior
        PROVE  table'[j].seq < handler[g].seq
    <3>1. /\ Rows' = Rows \cup {Len(table) + 1}
          /\ \A k \in Rows : table'[k] = table[k]
          /\ table'[Len(table) + 1] = r
      BY <1>1, <2>3, AppendedRow
    <3>2. CASE j \in Rows
      BY <2>1, <3>1, <3>2
    <3>3. CASE j = Len(table) + 1
      BY <1>4, <2>3, <3>1, <3>3
    <3>4. QED
      BY <3>1, <3>2, <3>3
  <2>4. QED
    BY <2>2, <2>3 DEF ReplacesNothing
<1>5. QED
  BY <1>2, <1>3, <1>4

\* A step that replaces nothing and leaves the requests alone.
LEMMA StoredSame ==
    ASSUME AskTypes, AnswersAreStored, failures' = 0 => failures = 0, ReplacesNothing,
           UNCHANGED <<handler, acked>>
    PROVE  AnswersAreStored'
<1> SUFFICES ASSUME failures = 0
    PROVE /\ \A a \in acked' : Stored(a.question, a.answer, a.prior)'
          /\ \A h \in Handlers :
                /\ handler'[h].pc = "publish" =>
                      Stored(handler[h].question, handler[h].answer, handler[h].prior)'
                /\ handler'[h].pc = "record" =>
                      \A j \in Rows' : table'[j].type = "answered"
                                       /\ table'[j].answer \in handler'[h].prior =>
                                          table'[j].seq < handler'[h].seq
  BY DEF AnswersAreStored
<1>1. \A a \in acked' : Stored(a.question, a.answer, a.prior)'
  BY TableStores
<1>2. ASSUME NEW h \in Handlers, handler'[h].pc = "publish"
      PROVE  Stored(handler[h].question, handler[h].answer, handler[h].prior)'
  <2> DEFINE q == handler[h].question
             n == handler[h].answer
             P == handler[h].prior
  <2>1. \E i \in Rows' : /\ table'[i].type = "answered"
                         /\ table'[i].question = q /\ table'[i].answer = n
                         /\ \A j \in Rows' : table'[j].type = "answered" /\ table'[j].answer \in P =>
                               table'[j].seq < table'[i].seq
    BY <1>2, TableStores DEF Stored, Answering
  <2>2. QED
    BY <2>1 DEF Stored, Answering
<1>3. QED
  BY <1>1, <1>2, TableStores
\* A step of one request: what it leaves behind, and what it has added.
LEMMA StoredMoves ==
    ASSUME AskTypes, AnswersAreStored, failures' = 0 => failures = 0, ReplacesNothing,
           NEW h \in Handlers, \A g \in Handlers : g # h => handler'[g] = handler[g],
           \A a \in acked' : a \in acked \/ (failures' = 0 => Stored(a.question, a.answer, a.prior)'),
           failures' = 0 /\ handler'[h].pc = "publish" =>
              \E i \in Rows' : /\ table'[i].type = "answered"
                               /\ table'[i].question = handler'[h].question
                               /\ table'[i].answer = handler'[h].answer
                               /\ \A j \in Rows' : table'[j].type = "answered"
                                                   /\ table'[j].answer \in handler'[h].prior =>
                                                      table'[j].seq < table'[i].seq,
           failures' = 0 /\ handler'[h].pc = "record" =>
              \A j \in Rows' : table'[j].type = "answered" /\ table'[j].answer \in handler'[h].prior =>
                 table'[j].seq < handler'[h].seq
    PROVE  AnswersAreStored'
<1> SUFFICES ASSUME failures' = 0
    PROVE /\ \A a \in acked' : Stored(a.question, a.answer, a.prior)'
          /\ \A g \in Handlers :
                /\ handler'[g].pc = "publish" =>
                      Stored(handler[g].question, handler[g].answer, handler[g].prior)'
                /\ handler'[g].pc = "record" =>
                      \A j \in Rows' : table'[j].type = "answered"
                                       /\ table'[j].answer \in handler'[g].prior =>
                                          table'[j].seq < handler'[g].seq
  BY DEF AnswersAreStored
<1>1. \A a \in acked' : Stored(a.question, a.answer, a.prior)'
  BY TableStores
<1>2. ASSUME NEW g \in Handlers, handler'[g].pc = "publish"
      PROVE  \E i \in Rows' : /\ table'[i].type = "answered"
                              /\ table'[i].question = handler'[g].question
                              /\ table'[i].answer = handler'[g].answer
                              /\ \A j \in Rows' : table'[j].type = "answered"
                                                  /\ table'[j].answer \in handler'[g].prior =>
                                                     table'[j].seq < table'[i].seq
  <2>1. CASE g = h
    BY <1>2, <2>1
  <2>2. CASE g # h
    <3>1. handler'[g] = handler[g] /\ handler[g].pc = "publish"
      BY <1>2, <2>2
    <3>2. \A q, n, P : q = handler[g].question /\ n = handler[g].answer /\ P = handler[g].prior =>
                    Stored(q, n, P)'
      BY <3>1, TableStores
    <3>3. QED
      BY <3>1, <3>2 DEF Stored, Answering
  <2>3. QED
    BY <2>1, <2>2
<1>3. ASSUME NEW g \in Handlers, handler'[g].pc = "publish"
      PROVE  Stored(handler[g].question, handler[g].answer, handler[g].prior)'
  BY <1>2, <1>3 DEF Stored, Answering
<1>4. ASSUME NEW g \in Handlers, handler'[g].pc = "record"
      PROVE  \A j \in Rows' : table'[j].type = "answered" /\ table'[j].answer \in handler'[g].prior =>
                table'[j].seq < handler'[g].seq
  <2>1. CASE g = h
    BY <1>4, <2>1
  <2>2. CASE g # h
    BY <1>4, <2>2, TableStores
  <2>3. QED
    BY <2>1, <2>2
<1>5. QED
  BY <1>1, <1>3, <1>4

\* The row of an answer comes after the answers that were submitted when it was given.
LEMMA RecordStores ==
    ASSUME AskTypes, AnswersAreOwn, AnswersAreStored, NEW h \in Handlers, AnswerRecord(h)
    PROVE  AnswersAreStored'
<1> DEFINE row == Row("answered", handler[h].question, handler[h].answer, handler[h].seq)
<1>1. /\ handler[h].question \in Questions /\ handler[h].answer \in Answers
      /\ handler[h].seq \in 1 .. MaxRows /\ handler[h].pc = "record"
  BY DEF AnswerRecord, AskTypes, AnswerTypes
<1>2. /\ row \in RowTypes /\ row.type = "answered" /\ row.question = handler[h].question
      /\ row.answer = handler[h].answer /\ row.seq = handler[h].seq
  BY <1>1, Bounds DEF Row, RowTypes, Questions, Answers
<1>3. Record(row) /\ UNCHANGED acked
  BY DEF AnswerRecord
<1> HIDE DEF row
<1>4. AtWork(h)
  BY <1>1 DEF AtWork
<1>5. /\ \A a \in acked : row.answer \notin a.prior
      /\ \A g \in Handlers : row.answer \notin handler[g].prior
  BY <1>2, <1>4 DEF AnswersAreOwn
<1>6. ReplacesNothing /\ (failures' = 0 => failures = 0 /\ table' = Append(table, row))
  <2>1. failures \in Nat
    BY DEF AskTypes, RunTypes
  <2>2. QED
    BY <1>2, <1>3, <1>5, <2>1 DEF Record, CallFails, ReplacesNothing
<1>7. /\ \A g \in Handlers : g # h => handler'[g] = handler[g]
      /\ handler'[h].pc = "publish" /\ handler'[h].answer = handler[h].answer
      /\ handler'[h].question = handler[h].question /\ handler'[h].prior = handler[h].prior
  <2>1. handler'[h].pc = "publish"
    BY HandlerTypes DEF AnswerRecord, Update, AskTypes, AnswerTypes
  <2>2. QED
    BY <2>1, HandlerMoves
<1>8. ASSUME failures' = 0
      PROVE  \E i \in Rows' : /\ table'[i].type = "answered"
                              /\ table'[i].question = handler'[h].question
                              /\ table'[i].answer = handler'[h].answer
                              /\ \A j \in Rows' : table'[j].type = "answered"
                                                  /\ table'[j].answer \in handler'[h].prior =>
                                                     table'[j].seq < table'[i].seq
  <2>1. /\ Rows' = Rows \cup {Len(table) + 1}
        /\ \A k \in Rows : table'[k] = table[k]
        /\ table'[Len(table) + 1] = row
    BY <1>2, <1>6, <1>8, AppendedRow DEF AskTypes
  <2>2. ASSUME NEW j \in Rows', table'[j].type = "answered", table'[j].answer \in handler'[h].prior
        PROVE  table'[j].seq < table'[Len(table) + 1].seq
    <3>1. CASE j \in Rows
      <4>1. table'[j] = table[j]
        BY <2>1, <3>1
      <4>2. table[j].seq < handler[h].seq
        BY <1>1, <1>6, <1>7, <1>8, <2>2, <3>1, <4>1 DEF AnswersAreStored
      <4>3. QED
        BY <1>2, <2>1, <4>1, <4>2
    <3>2. CASE j = Len(table) + 1
      BY <1>2, <1>5, <1>7, <2>1, <2>2, <3>2
    <3>3. QED
      BY <2>1, <3>1, <3>2
  <2>3. QED
    BY <1>2, <1>7, <2>1, <2>2
<1>9. handler'[h].pc # "record"
  BY <1>7
<1>10. QED
  BY <1>3, <1>6, <1>7, <1>8, <1>9, StoredMoves

\* The number of an answer is larger than that of every row.
LEMMA NumberStores ==
    ASSUME AskTypes, AnswersAreStored, NEW h \in Handlers, AnswerNumber(h)
    PROVE  AnswersAreStored'
<1>1. PICK n \in 0 .. MaxRows : NextSequence(n) /\ Update(h, [handler[h] EXCEPT !.pc = "record", !.seq = n])
  BY DEF AnswerNumber
<1>2. /\ failures' = 0 => \A i \in Rows : table[i].seq < n
      /\ failures <= failures' /\ failures \in Nat /\ failures' \in Nat
  BY <1>1, NextIsLarger DEF AskTypes, RunTypes
<1>3. handler'[h] = [handler[h] EXCEPT !.pc = "record", !.seq = n]
  BY <1>1 DEF Update, AskTypes, AnswerTypes
<1>4. handler'[h].pc = "record" /\ handler'[h].seq = n
  BY <1>3, HandlerTypes DEF AskTypes
<1>5. UNCHANGED <<table, acked>> /\ Rows' = Rows
  BY DEF AnswerNumber, Rows
<1>6. ReplacesNothing
  BY <1>5 DEF ReplacesNothing
<1>7. \A g \in Handlers : g # h => handler'[g] = handler[g]
  BY HandlerMoves
<1>8. failures' = 0 => failures = 0
  BY <1>2
<1>9. failures' = 0 => \A j \in Rows' : table'[j].seq < handler'[h].seq
  BY <1>2, <1>4, <1>5
<1>10. QED
  BY <1>4, <1>5, <1>6, <1>7, <1>8, <1>9, StoredMoves

\* What is reported as submitted has its row.
LEMMA ReturnStores ==
    ASSUME AskTypes, AnswersAreStored, NEW h \in Handlers, AnswerReturn(h)
    PROVE  AnswersAreStored'
<1> DEFINE new == [question |-> handler[h].question, answer |-> handler[h].answer,
                   prior |-> handler[h].prior]
<1>1. failures' = 0 => failures = 0
  BY DEF AnswerReturn, CallFails, AskTypes, RunTypes
<1>2. UNCHANGED table /\ handler[h].pc = "publish"
  BY DEF AnswerReturn
<1>3. ReplacesNothing
  BY <1>2 DEF ReplacesNothing
<1>4. (\A g \in Handlers : g # h => handler'[g] = handler[g]) /\ handler'[h].pc = "idle"
  BY HandlerMoves
<1>5. /\ acked' \subseteq acked \cup {new}
      /\ new.question = handler[h].question /\ new.answer = handler[h].answer
      /\ new.prior = handler[h].prior
  BY DEF AnswerReturn
<1> HIDE DEF new
<1>6. ASSUME NEW a \in acked', failures' = 0, a \notin acked
      PROVE  Stored(a.question, a.answer, a.prior)'
  <2>1. a.question = handler[h].question /\ a.answer = handler[h].answer /\ a.prior = handler[h].prior
    BY <1>5, <1>6
  <2>2. QED
    BY <1>1, <1>2, <1>3, <1>6, <2>1, TableStores
<1>7. QED
  BY <1>1, <1>3, <1>4, <1>6, StoredMoves

LEMMA AnswerStores ==
    ASSUME AskTypes, AnswersAreOwn, AnswersAreStored, NEW h \in Handlers, Answer(h)
    PROVE  AnswersAreStored'
<1>1. ASSUME NEW target, AnswerBegin(h, target) PROVE AnswersAreStored'
  <2>1. UNCHANGED <<table, acked>> /\ (failures' = 0 => failures = 0)
    BY <1>1 DEF AnswerBegin, CallFails, AskTypes, RunTypes
  <2>2. ReplacesNothing
    BY <2>1 DEF ReplacesNothing
  <2>3. CASE UNCHANGED handler
    BY <2>1, <2>2, <2>3, StoredSame
  <2>4. CASE handler' # handler
    <3>1. (\A g \in Handlers : g # h => handler'[g] = handler[g]) /\ handler'[h].pc = "verify"
      BY <1>1, <2>4, BeginMoves
    <3>2. QED
      BY <2>1, <2>2, <3>1, StoredMoves
  <2>5. QED
    BY <2>3, <2>4
<1>2. ASSUME AnswerVerify(h) PROVE AnswersAreStored'
  <2>1. UNCHANGED <<table, acked>> /\ (failures' = 0 => failures = 0)
    BY <1>2 DEF AnswerVerify, CallFails, AskTypes, RunTypes
  <2>2. ReplacesNothing
    BY <2>1 DEF ReplacesNothing
  <2>3. /\ \A g \in Handlers : g # h => handler'[g] = handler[g]
        /\ handler'[h].pc # "record" /\ handler'[h].pc # "publish"
    <3>1. handler'[h].pc \in {"idle", "number"}
      BY <1>2, HandlerTypes DEF AnswerVerify, Update, AskTypes, AnswerTypes
    <3>2. QED
      BY <1>2, <3>1, HandlerMoves
  <2>4. QED
    BY <2>1, <2>2, <2>3, StoredMoves
<1>3. QED
  BY <1>1, <1>2, NumberStores, RecordStores, ReturnStores DEF Answer
\* The tool and the execution append no answer, and a new execution appends nothing.
LEMMA OtherStores ==
    ASSUME AskTypes, AnswersAreStored, Tool \/ Agent \/ Start
    PROVE  AnswersAreStored'
<1>1. UNCHANGED <<handler, acked>>
  BY DEF Tool, Ask, AskRecord, AskReturn, Agent, Emit, AgentEnds, AgentCommit, AgentAborts,
         Start, StartLoad, BuildResumeContext, StartGo, StartVars
<1>2. ASSUME NEW type \in {"start", "other"}, Emit(type) PROVE AnswersAreStored'
  <2>1. PICK n \in 0 .. MaxRows : NextSequence(n) /\ table' = Append(table, Row(type, 0, 0, n))
    BY <1>2 DEF Emit
  <2>2. n \in 1 .. MaxRows /\ failures <= failures' /\ failures \in Nat /\ failures' \in Nat
    BY <2>1, NextIsLarger DEF AskTypes, RunTypes
  <2>3. Row(type, 0, 0, n) \in RowTypes /\ Row(type, 0, 0, n).type # "answered"
    BY <2>2, Bounds DEF Row, RowTypes
  <2>4. ReplacesNothing
    BY <2>1, <2>3 DEF ReplacesNothing
  <2>5. failures' = 0 => failures = 0
    BY <2>2
  <2>6. QED
    BY <1>1, <2>4, <2>5, StoredSame
<1>3. ASSUME AskRecord PROVE AnswersAreStored'
  <2> DEFINE r == Row("pending", asked, 0, ask.seq)
  <2>1. asked \in Questions /\ ask.seq \in 1 .. MaxRows
    BY <1>3 DEF AskRecord, AskTypes, ToolTypes
  <2>2. r \in RowTypes /\ r.type # "answered" /\ Record(r)
    BY <1>3, <2>1, Bounds DEF AskRecord, Row, RowTypes, Questions
  <2> HIDE DEF r
  <2>3. ReplacesNothing /\ (failures' = 0 => failures = 0)
    BY <2>2 DEF ReplacesNothing, Record, CallFails, AskTypes, RunTypes
  <2>4. QED
    BY <1>1, <2>3, StoredSame
<1>4. ASSUME UNCHANGED table, UNCHANGED failures \/ CallFails PROVE AnswersAreStored'
  <2>1. ReplacesNothing /\ (failures' = 0 => failures = 0)
    BY <1>4 DEF ReplacesNothing, CallFails, AskTypes, RunTypes
  <2>2. QED
    BY <1>1, <2>1, StoredSame
<1>5. ASSUME Ask PROVE AnswersAreStored'
  BY <1>4, <1>5 DEF Ask, NextSequence
<1>6. ASSUME AskReturn \/ AgentEnds \/ AgentCommit \/ Start PROVE AnswersAreStored'
  <2>1. UNCHANGED table
    BY <1>6 DEF AskReturn, AgentEnds, AgentCommit, Start, StartLoad, BuildResumeContext, StartGo,
                StartVars
  <2>2. UNCHANGED failures \/ CallFails
    BY <1>6 DEF AskReturn, AgentEnds, AgentCommit, Start, StartLoad, BuildResumeContext, StartGo
  <2>3. QED
    BY <1>4, <2>1, <2>2
<1>7. ASSUME NEW final, AgentAborts(final) PROVE AnswersAreStored'
  BY <1>4, <1>7 DEF AgentAborts
<1>8. QED
  BY <1>2, <1>3, <1>5, <1>6, <1>7 DEF Tool, Agent

-----------------------------------------------------------------------------
(* What the next execution is told                                         *)

ToldInv == AskTypes /\ AnswersAreOwn /\ AnswersAreStored /\ NothingTold

LEMMA ToldInit == AskInit => ToldInv
<1> SUFFICES ASSUME AskInit PROVE ToldInv
  OBVIOUS
<1>1. AskTypes
  BY InitTypes
<1>2. handler = [h \in Handlers |-> Idle] /\ acked = {} /\ answers = 0 /\ starter = "idle"
  BY DEF AskInit
<1>3. Idle.pc = "idle" /\ Idle.prior = {}
  BY DEF Idle
<1>4. \A h \in Handlers : handler[h].pc = "idle" /\ handler[h].prior = {}
  BY <1>2, <1>3
<1>5. QED
  BY <1>1, <1>2, <1>4 DEF ToldInv, AnswersAreOwn, AnswersAreStored, AtWork, NothingTold

LEMMA ToldStep == ToldInv /\ [AskNext]_askVars => ToldInv'
<1> SUFFICES ASSUME ToldInv, [AskNext]_askVars PROVE ToldInv'
  OBVIOUS
<1>1. AskTypes'
  BY StepTypes DEF ToldInv
<1>2. NothingTold'
  <2>1. ASSUME starter' = "context" PROVE context' = {}
    BY <2>1 DEF ToldInv, NothingTold, AskNext, Tool, Ask, AskRecord, AskReturn, Agent, Emit, AgentEnds,
                AgentCommit, AgentAborts, Start, StartLoad, BuildResumeContext, StartGo, Answer,
                AnswerBegin, AnswerVerify, AnswerNumber, AnswerRecord, AnswerReturn, AnswerVars, askVars
  <2>2. QED
    BY <2>1 DEF NothingTold
<1>3. CASE Tool \/ Agent \/ Start
  <2>1. UNCHANGED <<handler, acked, answers>>
    BY <1>3 DEF Tool, Ask, AskRecord, AskReturn, Agent, Emit, AgentEnds, AgentCommit, AgentAborts,
                Start, StartLoad, BuildResumeContext, StartGo, StartVars
  <2>2. AnswersAreOwn'
    BY <2>1 DEF ToldInv, AnswersAreOwn, AtWork
  <2>3. QED
    BY <1>1, <1>2, <1>3, <2>2, OtherStores DEF ToldInv
<1>4. ASSUME NEW h \in Handlers, Answer(h) PROVE ToldInv'
  BY <1>1, <1>2, <1>4, AnswerOwn, AnswerStores DEF ToldInv
<1>5. CASE UNCHANGED askVars
  <2>1. UNCHANGED <<handler, acked, answers, table, failures>>
    BY <1>5 DEF askVars
  <2>2. AnswersAreOwn'
    BY <2>1 DEF ToldInv, AnswersAreOwn, AtWork
  <2>3. AnswersAreStored'
    BY <2>1, StoredSame DEF ToldInv, ReplacesNothing
  <2>4. QED
    BY <1>1, <1>2, <2>2, <2>3 DEF ToldInv
<1>6. QED
  BY <1>3, <1>4, <1>5 DEF AskNext

\* The answers of a whole table are the last ones of each question.
LEMMA LastAnswers ==
    ASSUME TableTypes, Whole
    PROVE  AnsweredQuestions =
              {<<table[k].question, table[k].answer>> :
                  k \in {i \in Rows :
                           /\ table[i].type = "answered"
                           /\ \E q \in Rows : table[q].type = "pending" /\ table[q].question = table[i].question
                           /\ \A j \in Rows : table[j].type = "answered"
                                              /\ table[j].question = table[i].question => ~Precedes(i, j)}}
<1> DEFINE K == {i \in Rows :
                   /\ table[i].type = "answered"
                   /\ \E q \in Rows : table[q].type = "pending" /\ table[q].question = table[i].question
                   /\ \A j \in Rows : table[j].type = "answered"
                                      /\ table[j].question = table[i].question => ~Precedes(i, j)}
           L == {i \in RowsOf("answered") :
                   /\ \E q \in RowsOf("pending") : table[q].question = table[i].question
                   /\ \A j \in RowsOf("answered") :
                        table[j].question = table[i].question => ~Precedes(i, j)}
<1>1. L = K
  BY WholeReads
<1>2. AnsweredQuestions = {<<table[k].question, table[k].answer>> : k \in L}
  BY DEF AnsweredQuestions
<1> HIDE DEF K, L
<1>3. QED
  BY <1>1, <1>2 DEF K

\* What the request is told, if it is told anything.
LEMMA ContextIsRead ==
    ASSUME AskTypes, NothingTold, BuildResumeContext, failures' = 0
    PROVE  failures = 0 /\ (context' = {} \/ context' = AnsweredQuestions)
           /\ (starter' = "go" => context' = AnsweredQuestions)
BY DEF BuildResumeContext, NothingTold, CallFails, AskTypes, RunTypes

LEMMA TellsAnswers ==
    ASSUME ToldInv
    PROVE  AnswersAreTold
<1> SUFFICES ASSUME failures' = 0, Whole, BuildResumeContext, starter' = "go",
                    NEW a \in acked, NEW e \in Rows, table[e].type = "pending", table[e].question = a.question
             PROVE  \E p \in context' : p[1] = a.question
  BY DEF AnswersAreTold
<1>1. failures = 0 /\ context' = AnsweredQuestions /\ TableTypes
  BY ContextIsRead DEF ToldInv, AskTypes
<1>2. PICK i \in Rows : table[i].type = "answered" /\ table[i].question = a.question
  BY <1>1 DEF ToldInv, AnswersAreStored, Stored, Answering
<1> DEFINE S == {k \in Rows : table[k].type = "answered" /\ table[k].question = a.question}
<1>3. S \in SUBSET Rows /\ S # {}
  BY <1>2
<1>4. PICK k \in S : \A j \in S : ~Precedes(k, j)
  <2> HIDE DEF S
  <2>1. QED
    BY <1>1, <1>3, FinalRow
<1>5. <<table[k].question, table[k].answer>> \in AnsweredQuestions
  <2>1. \A j \in Rows : table[j].type = "answered" /\ table[j].question = table[k].question => ~Precedes(k, j)
    BY <1>4
  <2>2. \E q \in Rows : table[q].type = "pending" /\ table[q].question = table[k].question
    BY <1>4
  <2>3. k \in Rows /\ table[k].type = "answered"
    BY <1>4
  <2>4. QED
    BY <1>1, <2>1, <2>2, <2>3, LastAnswers
<1>6. QED
  BY <1>1, <1>4, <1>5

LEMMA TellsLastAnswer ==
    ASSUME ToldInv
    PROVE  LastAnswerIsTold
<1> SUFFICES ASSUME failures' = 0, Whole, BuildResumeContext, NEW p \in context', NEW a \in acked,
                    a.question = p[1], p[2] \in a.prior
             PROVE  FALSE
  BY DEF LastAnswerIsTold
<1>1. failures = 0 /\ p \in AnsweredQuestions /\ TableTypes
  BY ContextIsRead DEF ToldInv, AskTypes
<1>2. PICK k \in Rows :
         /\ p = <<table[k].question, table[k].answer>> /\ table[k].type = "answered"
         /\ \A j \in Rows : table[j].type = "answered" /\ table[j].question = table[k].question => ~Precedes(k, j)
  BY <1>1, LastAnswers
<1>3. PICK i \in Rows : Answering(i, a.question, a.answer, a.prior)
  BY <1>1 DEF ToldInv, AnswersAreStored, Stored
<1>4. table[k].answer \in a.prior /\ table[k].question = a.question
  BY <1>2
<1>5. table[k].seq < table[i].seq
  BY <1>2, <1>3, <1>4 DEF Answering
<1>6. ~Precedes(k, i)
  BY <1>2, <1>3, <1>4 DEF Answering
<1>7. QED
  BY <1>5, <1>6 DEF Precedes

\* An execution that is resumed is told an answer to each question that was answered, and never
\* one that another had replaced when it was given: an answer is recorded with a number above
\* those of the answers its user had seen accepted, whatever requests overlap.
THEOREM ContextTellsAnswers == AskSpec => ContextHasAnswers
<1>1. ToldInv /\ [AskNext]_askVars => [AnswersAreTold /\ LastAnswerIsTold]_askVars
  BY TellsAnswers, TellsLastAnswer
<1>2. QED
  BY <1>1, ToldInit, ToldStep, PTL DEF AskSpec, ContextHasAnswers
=============================================================================
