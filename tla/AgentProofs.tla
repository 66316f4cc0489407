----------------------------- MODULE AgentProofs -----------------------------
(***************************************************************************)
(* Theorems about a run of the agent: the rules it obeys, the texts it is  *)
(* given, its file tools.                                                  *)
(***************************************************************************)
EXTENDS Permissions, AgentRun, FileTools, TLAPS, FiniteSetTheorems, SequenceTheorems,
        WellFoundedInduction

-----------------------------------------------------------------------------
(* What an agent run may do                                                *)

ExecutionTypes ==
    /\ DOMAIN execution = DOMAIN NoRun /\ execution.pc \in {"idle", "running"}
    /\ execution.number \in Nat /\ execution.replaced \in BOOLEAN /\ execution.broken \in BOOLEAN

\* Before a newer permissions.json is read the rules are those that were promised.
RulesArePromised ==
    execution.pc = "running" /\ ~execution.replaced => config = execution.promised
RulesInv == ExecutionTypes /\ RulesArePromised /\ DenyRulesHold

LEMMA DenialsKeepRules ==
    ASSUME RulesInv, NEW c, Permit(c) \/ Deny(c), execution.pc = "running"
    PROVE  RulesInv'
<1>1. ExecutionTypes' /\ execution'.promised = execution.promised
      /\ (execution'.replaced <=> execution.replaced \/ Replaces)
  BY DEF Permit, Deny, RulesInv, ExecutionTypes, NoRun
<1>2. config' = IF Replaces THEN legacy.rules ELSE config
  BY DEF Permit, Deny, LoadConfig, Loaded
<1>3. RulesArePromised'
  BY <1>1, <1>2 DEF RulesInv, RulesArePromised
<1>4. DenyRulesHold'
  <2> SUFFICES ASSUME execution'.broken, ~execution'.replaced PROVE FALSE
    BY DEF DenyRulesHold
  <2>1. ~Replaces /\ ~execution.replaced
    BY <1>1
  <2>2. ~execution.broken
    BY <2>1 DEF RulesInv, DenyRulesHold
  <2>3. Permit(c) /\ MatchesSome(c, execution.promised.deny)
    BY <2>2 DEF Permit, Deny, RulesInv, ExecutionTypes, NoRun
  <2>4. Loaded = execution.promised
    BY <2>1 DEF Loaded, RulesInv, RulesArePromised
  <2>5. QED
    BY <2>3, <2>4 DEF Permit, Allows
<1>5. QED
  BY <1>1, <1>3, <1>4 DEF RulesInv, ExecutionTypes

LEMMA RulesHold == PermissionsSpec => []RulesInv
<1>1. PermissionsInit => RulesInv
  BY DEF PermissionsInit, RulesInv, ExecutionTypes, RulesArePromised, DenyRulesHold, NoRun
<1>2. RulesInv /\ [PermissionsNext]_permissionsVars => RulesInv'
  <2> SUFFICES ASSUME RulesInv, [PermissionsNext]_permissionsVars PROVE RulesInv'
    OBVIOUS
  <2>1. CASE UNCHANGED <<execution, config>>
    BY <2>1 DEF RulesInv, ExecutionTypes, NoRun, RulesArePromised, DenyRulesHold
  <2>2. ASSUME NEW p \in Profiles, EditProfile(p) PROVE RulesInv'
    BY <2>1, <2>2 DEF EditProfile
  <2>3. ASSUME NEW r \in Legacy, SaveLegacy(r) PROVE RulesInv'
    BY <2>1, <2>3 DEF SaveLegacy
  <2>4. CASE BeginRun
    <3> DEFINE p == IF base.base THEN file ELSE base
    <3>1. /\ config' = SessionRules(p)
          /\ execution' = [NoRun EXCEPT !.pc = "running", !.number = execution.number + 1,
                                        !.promised = SessionRules(p), !.checked = p.checked,
                                        !.disabled = p.disabled]
      BY <2>4 DEF BeginRun, UpdateConfig
    <3> HIDE DEF p
    <3>2. execution.number \in Nat
      BY DEF RulesInv, ExecutionTypes, NoRun
    <3>3. /\ DOMAIN execution' = DOMAIN NoRun /\ execution'.pc = "running"
          /\ execution'.number = execution.number + 1 /\ execution'.promised = SessionRules(p)
          /\ execution'.broken = FALSE /\ execution'.replaced = FALSE
      BY <3>1 DEF NoRun
    <3>4. ExecutionTypes'
      <4>1. execution'.number \in Nat
        BY <3>2, <3>3
      <4>2. execution'.replaced \in BOOLEAN /\ execution'.broken \in BOOLEAN
        BY <3>3
      <4>3. QED
        BY <3>3, <4>1, <4>2 DEF ExecutionTypes
    <3>5. config' = execution'.promised
      BY <3>1, <3>3
    <3>6. RulesArePromised' /\ DenyRulesHold'
      BY <3>3, <3>5 DEF RulesArePromised, DenyRulesHold
    <3>7. QED
      BY <3>4, <3>6 DEF RulesInv
  <2>5. CASE EndRun
    <3>1. /\ ExecutionTypes' /\ execution'.pc = "idle"
          /\ execution'.broken = execution.broken /\ execution'.replaced = execution.replaced
      BY <2>5 DEF EndRun, RulesInv, ExecutionTypes, NoRun
    <3>2. QED
      BY <3>1 DEF RulesInv, ExecutionTypes, RulesArePromised, DenyRulesHold
  <2>6. ASSUME NEW c \in Calls, CanUseTool(c) PROVE RulesInv'
    <3>1. CASE Bypass(c)
      BY <2>1, <3>1 DEF Bypass
    <3>2. CASE Permit(c) \/ Deny(c)
      BY <2>6, <3>2, DenialsKeepRules DEF CanUseTool
    <3>3. QED
      BY <2>6, <3>1, <3>2 DEF CanUseTool
  <2>7. CASE UNCHANGED permissionsVars
    BY <2>1, <2>7 DEF permissionsVars
  <2>8. QED
    BY <2>2, <2>3, <2>4, <2>5, <2>6, <2>7 DEF PermissionsNext
<1>3. QED
  BY <1>1, <1>2, PTL DEF PermissionsSpec

\* A use that a rule of the profile denies is permitted only after somebody has written a
\* permissions.json, whatever else is allowed (permission_profiles.py:602).
THEOREM DenyRulesAreKept == PermissionsSpec => []DenyRulesHold
<1>1. RulesInv => DenyRulesHold
  BY DEF RulesInv
<1>2. QED
  BY <1>1, RulesHold, PTL

-----------------------------------------------------------------------------
(* Denials                                                                 *)

\* The tracker and the counts of the tools agree while the run goes on, and are less than
\* what ends it.
CountsAgree ==
    /\ counts \in [CalledTools -> Nat] /\ IsFiniteSet(Each(counts))
    /\ execution.pc \in {"idle", "running"}
    /\ denialTracker.interrupted \in BOOLEAN
    /\ ~denialTracker.interrupted =>
          /\ denialTracker.denials = Cardinality(Each(counts))
          /\ Cardinality(Each(counts)) < 2 * MaxDenials

\* One denial more is counted once.
LEMMA OneMore ==
    ASSUME CountsAgree, NEW t \in CalledTools
    PROVE  LET n == [counts EXCEPT ![t] = @ + 1]
           IN  /\ n \in [CalledTools -> Nat] /\ IsFiniteSet(Each(n))
               /\ Cardinality(Each(n)) = Cardinality(Each(counts)) + 1
               /\ Cardinality(Each(n)) \in Nat
<1> DEFINE n == [counts EXCEPT ![t] = @ + 1]
           next == <<t, counts[t] + 1>>
<1>1. counts \in [CalledTools -> Nat] /\ n \in [CalledTools -> Nat] /\ n[t] = counts[t] + 1
      /\ \A s \in CalledTools : s # t => n[s] = counts[s]
  BY DEF CountsAgree
<1> HIDE DEF n
<1>2. \A d : d \in Each(counts) <=> \E s \in CalledTools : \E i \in 1 .. counts[s] : d = <<s, i>>
  BY <1>1 DEF Each
<1>3. \A d : d \in Each(n) <=> \E s \in CalledTools : \E i \in 1 .. n[s] : d = <<s, i>>
  BY <1>1 DEF Each
<1>4. next \notin Each(counts)
  BY <1>1, <1>2
<1>5. Each(n) \subseteq Each(counts) \union {next}
  <2> SUFFICES ASSUME NEW s \in CalledTools, NEW i \in 1 .. n[s]
               PROVE  <<s, i>> \in Each(counts) \union {next}
    BY <1>3
  <2>1. CASE s = t /\ i = counts[t] + 1
    BY <2>1
  <2>2. CASE ~(s = t /\ i = counts[t] + 1)
    <3>1. i \in 1 .. counts[s]
      BY <1>1, <2>2
    <3>2. QED
      BY <1>2, <3>1
  <2>3. QED
    BY <2>1, <2>2
<1>6. Each(counts) \subseteq Each(n)
  <2> SUFFICES ASSUME NEW s \in CalledTools, NEW i \in 1 .. counts[s] PROVE <<s, i>> \in Each(n)
    BY <1>2
  <2>1. i \in 1 .. n[s]
    BY <1>1
  <2>2. QED
    BY <1>3, <2>1
<1>7. next \in Each(n)
  <2>1. counts[t] + 1 \in 1 .. n[t]
    BY <1>1
  <2>2. QED
    BY <1>3, <2>1
<1>8. Each(n) = Each(counts) \union {next}
  BY <1>5, <1>6, <1>7
<1>9. IsFiniteSet(Each(n)) /\ Cardinality(Each(n)) = Cardinality(Each(counts)) + 1
  BY <1>4, <1>8, FS_AddElement DEF CountsAgree
<1>10. Cardinality(Each(n)) \in Nat
  BY <1>9, FS_CardinalityType
<1>11. QED
  BY <1>1, <1>9, <1>10 DEF n

LEMMA AgreementAtFirst ==
    /\ NoCounts \in [CalledTools -> Nat] /\ IsFiniteSet(Each(NoCounts))
    /\ Cardinality(Each(NoCounts)) = 0 /\ 0 < 2 * MaxDenials
<1>1. Each(NoCounts) = {}
  BY DEF Each, NoCounts
<1>2. MaxDenials \in Nat \ {0}
  BY PermissionsAssumption DEF PermissionsAssumption
<1>3. QED
  BY <1>1, <1>2, FS_EmptySet DEF NoCounts

\* A run that goes on has been denied less than twice the limit, in whatever order and by
\* whatever tools (permissions.py:460).
THEOREM DenialsStopTheRun == PermissionsSpec => []StopsInTime
<1>1. PermissionsInit => CountsAgree
  BY AgreementAtFirst DEF PermissionsInit, CountsAgree, NoRun, NoDenials
<1>2. RulesInv /\ RulesInv' /\ CountsAgree /\ [PermissionsNext]_permissionsVars => CountsAgree'
  <2> SUFFICES ASSUME RulesInv, RulesInv', CountsAgree, [PermissionsNext]_permissionsVars
               PROVE  CountsAgree'
    OBVIOUS
  <2>1. execution'.pc \in {"idle", "running"}
    BY DEF RulesInv, ExecutionTypes
  <2>2. CASE UNCHANGED <<counts, denialTracker>>
    BY <2>1, <2>2 DEF CountsAgree, Each
  <2>3. ASSUME NEW p \in Profiles, EditProfile(p) PROVE CountsAgree'
    BY <2>2, <2>3 DEF EditProfile
  <2>4. ASSUME NEW r \in Legacy, SaveLegacy(r) PROVE CountsAgree'
    BY <2>2, <2>4 DEF SaveLegacy
  <2>5. CASE BeginRun
    <3>1. counts' = NoCounts /\ denialTracker' = NoDenials
      BY <2>5 DEF BeginRun
    <3>2. Each(counts)' = Each(NoCounts)
      BY <3>1 DEF Each
    <3>3. NoDenials.denials = 0 /\ NoDenials.interrupted = FALSE
      BY DEF NoDenials
    <3>4. QED
      BY <2>1, <3>1, <3>2, <3>3, AgreementAtFirst DEF CountsAgree
  <2>6. CASE EndRun
    BY <2>2, <2>6 DEF EndRun
  <2>7. ASSUME NEW c \in Calls, CanUseTool(c) PROVE CountsAgree'
    <3>1. CASE Bypass(c)
      BY <2>1, <3>1 DEF Bypass, RecordDenial, CountsAgree, Each
    <3>2. CASE Permit(c)
      BY <2>2, <3>2 DEF Permit
    <3>3. CASE Deny(c)
      <4> DEFINE n == [counts EXCEPT ![c.tool] = @ + 1]
      <4>1. c.tool \in CalledTools
        BY DEF CalledTools
      <4>2. /\ n \in [CalledTools -> Nat] /\ IsFiniteSet(Each(n))
            /\ Cardinality(Each(n)) = Cardinality(Each(counts)) + 1
            /\ Cardinality(Each(n)) \in Nat
        BY <4>1, OneMore
      <4>3. counts' = n /\ RecordDenial(Interrupts(n, c.tool))
        BY <3>3 DEF Deny
      <4> HIDE DEF n
      <4>4. Each(counts)' = Each(n)
        BY <4>3 DEF Each
      <4>5. ~denialTracker.interrupted
        BY <2>7 DEF CanUseTool
      <4>6. denialTracker' = [denials |-> denialTracker.denials + 1,
                              interrupted |-> denialTracker.interrupted \/ Interrupts(n, c.tool)]
        BY <4>3 DEF RecordDenial
      <4>7. /\ denialTracker'.denials = Cardinality(Each(n))
            /\ denialTracker'.interrupted \in BOOLEAN
            /\ ~denialTracker'.interrupted => ~Interrupts(n, c.tool)
        BY <4>2, <4>5, <4>6 DEF CountsAgree
      <4>8. ~Interrupts(n, c.tool) => Cardinality(Each(n)) < 2 * MaxDenials
        <5>1. MaxDenials \in Nat
          BY PermissionsAssumption DEF PermissionsAssumption
        <5>2. QED
          BY <4>2, <5>1 DEF Interrupts, SumOf
      <4>9. QED
        BY <2>1, <4>2, <4>3, <4>4, <4>7, <4>8 DEF CountsAgree
    <3>4. QED
      BY <2>7, <3>1, <3>2, <3>3 DEF CanUseTool
  <2>8. CASE UNCHANGED permissionsVars
    BY <2>2, <2>8 DEF permissionsVars
  <2>9. QED
    BY <2>3, <2>4, <2>5, <2>6, <2>7, <2>8 DEF PermissionsNext
<1>3. CountsAgree => StopsInTime
  BY DEF CountsAgree, StopsInTime
<1>4. QED
  BY <1>1, <1>2, <1>3, RulesHold, PTL DEF PermissionsSpec

-----------------------------------------------------------------------------
(* A call of MultiEdit that is rejected                                    *)

\* Until all edits are checked the files are as the call found them, but for what commands
\* have written; and while a call works the last answer is not an error.
CallChangesNothing ==
    /\ DOMAIN call = DOMAIN NoCall
    /\ call.phase = "check" => files = before
    /\ call.phase # "none" => answer.kind # "error"
RejectInv == CallChangesNothing /\ RejectedChangesNothing

LEMMA CallsAreIdle ==
    ASSUME RejectInv, ToolIdle, UNCHANGED call, before' = files',
           files' = files \/ answer'.kind # "error"
    PROVE  RejectInv'
  BY DEF RejectInv, CallChangesNothing, ToolIdle, RejectedChangesNothing

LEMMA RejectedCallsAreUndone == ToolsSpec => []RejectInv
<1>1. ToolsInit => RejectInv
  BY DEF ToolsInit, RejectInv, CallChangesNothing, RejectedChangesNothing, NoCall
<1>2. RejectInv /\ [ToolsNext]_toolsVars => RejectInv'
  <2> SUFFICES ASSUME RejectInv, [ToolsNext]_toolsVars PROVE RejectInv'
    OBVIOUS
  <2> USE DEF RejectInv, CallChangesNothing, RejectedChangesNothing
  <2>1. ASSUME NEW f \in FileNames, NEW ok \in BOOLEAN, NEW c \in Contents, NEW o \in BOOLEAN,
               NEW scanned \in BOOLEAN, Write(f, c, o, scanned, ok)
        PROVE  RejectInv'
    BY <2>1, CallsAreIdle DEF Write, Rejects, Replies
  <2>2. ASSUME NEW f \in FileNames, NEW ok \in BOOLEAN, NEW x \in Letters, NEW y \in Letters,
               NEW all \in BOOLEAN, Edit(f, x, y, all, ok)
        PROVE  RejectInv'
    BY <2>2, CallsAreIdle DEF Edit, Rejects, Replies
  <2>3. ASSUME NEW f \in FileNames, NEW scanned \in BOOLEAN, Read(f, scanned) PROVE RejectInv'
    BY <2>3, CallsAreIdle DEF Read
  <2>4. ASSUME NEW f \in FileNames, NEW c \in Contents, Shell(f, c) PROVE RejectInv'
    BY <2>4 DEF Shell
  <2>5. ASSUME NEW l \in EditLists, MultiEdit(l) PROVE RejectInv'
    BY <2>5 DEF MultiEdit, NoCall
  <2>6. CASE CheckEdit
    <3>1. call.phase = "check" /\ files' = files /\ before' = before
      BY <2>6 DEF CheckEdit
    <3>2. CASE call' = NoCall
      BY <3>1, <3>2 DEF NoCall
    <3>3. CASE /\ call' = [call EXCEPT !.done = @ + 1, !.read = Append(@, files[NextEdit.file])]
               /\ UNCHANGED answer
      BY <3>1, <3>3 DEF NoCall
    <3>4. QED
      BY <2>6, <3>2, <3>3 DEF CheckEdit
  <2>7. CASE Checked
    BY <2>7 DEF Checked, NoCall
  <2>8. CASE MultiEdited
    BY <2>8 DEF MultiEdited, NoCall, Replies
  <2>9. ASSUME NEW ok \in BOOLEAN, ApplyEdit(ok) PROVE RejectInv'
    BY <2>9 DEF ApplyEdit, NoCall
  <2>10. ASSUME NEW d \in Directories, Search(d) PROVE RejectInv'
    BY <2>10, CallsAreIdle DEF Search
  <2>11. CASE UNCHANGED toolsVars
    BY <2>11 DEF toolsVars
  <2>12. QED
    BY <2>1, <2>2, <2>3, <2>4, <2>5, <2>6, <2>7, <2>8, <2>9, <2>10, <2>11 DEF ToolsNext
<1>3. QED
  BY <1>1, <1>2, PTL DEF ToolsSpec

\* A call of a file tool that is rejected has changed no file, however many of the edits
\* of a MultiEdit were valid and whatever commands wrote between its steps.
THEOREM RejectedCallsChangeNothing == ToolsSpec => []RejectedChangesNothing
<1>1. RejectInv => RejectedChangesNothing
  BY DEF RejectInv
<1>2. QED
  BY <1>1, RejectedCallsAreUndone, PTL

-----------------------------------------------------------------------------
(* Subagents                                                               *)

\* The trace processor knows the subagents that run, and has reported the others once.
SubagentsAreKnown ==
    /\ tools \in [Tools -> {"new", "running", "done"}]
    /\ tp.subagents = Running(Tasks)
    /\ stops = [t \in Tasks |-> IF tools[t] = "done" THEN 1 ELSE 0]
SubagentsInv ==
    /\ DOMAIN run = {"phase", "partial", "denied", "number", "completed", "status"}
    /\ "subagents" \in DOMAIN tp
    /\ IF run.completed THEN run.phase = "over" /\ SubagentsEnd ELSE SubagentsAreKnown
\* Steps that leave the calls and the subagents alone.
LEMMA OthersKeepSubagents ==
    ASSUME SubagentsInv, run.phase # "over", UNCHANGED <<tools, stops>>,
           DOMAIN run' = DOMAIN run, run'.completed = run.completed,
           "subagents" \in DOMAIN tp', tp'.subagents = tp.subagents
    PROVE  SubagentsInv'
<1>1. ~run.completed /\ SubagentsAreKnown
  BY DEF SubagentsInv
<1>2. ~run'.completed
  BY <1>1
<1>3. Running(Tasks)' = Running(Tasks)
  BY DEF Running
<1>4. SubagentsAreKnown'
  BY <1>1, <1>3 DEF SubagentsAreKnown
<1>5. QED
  BY <1>2, <1>4 DEF SubagentsInv

LEMMA UseKeepsSubagents ==
    ASSUME AgentAssumption, SubagentsInv, NEW t \in Tools, ToolUse(t)
    PROVE  SubagentsInv'
<1>1. ~run.completed /\ SubagentsAreKnown /\ run' = run
  BY DEF SubagentsInv, ToolUse, Receives, Active
<1>2. /\ tools \in [Tools -> {"new", "running", "done"}] /\ tools[t] = "new"
      /\ tools' = [tools EXCEPT ![t] = "running"] /\ stops' = stops
      /\ "subagents" \in DOMAIN tp' /\ tp'.subagents = tp.subagents \union ({t} \intersect Tasks)
  BY <1>1 DEF ToolUse, SubagentsAreKnown, SubagentsInv
<1>3. Tasks \subseteq Tools
  BY DEF AgentAssumption
<1>4. Running(Tasks)' = Running(Tasks) \union ({t} \intersect Tasks)
  BY <1>2, <1>3 DEF Running
<1>5. \A s \in Tasks : tools'[s] = "done" <=> tools[s] = "done"
  BY <1>2, <1>3
<1>6. SubagentsAreKnown'
  BY <1>1, <1>2, <1>4, <1>5 DEF SubagentsAreKnown
<1>7. QED
  BY <1>1, <1>2, <1>6 DEF SubagentsInv

LEMMA ResultsKeepSubagents ==
    ASSUME AgentAssumption, SubagentsInv,
           NEW S, NEW E, NEW first, ToolResults(S, E, first)
    PROVE  SubagentsInv'
<1>1. ~run.completed /\ SubagentsAreKnown /\ run' = run
  BY DEF SubagentsInv, ToolResults, Waits, Active
<1>2. /\ tools \in [Tools -> {"new", "running", "done"}] /\ S \subseteq Running(Tools)
      /\ tools' = [t \in Tools |-> IF t \in S THEN "done" ELSE tools[t]]
      /\ Report(tp.subagents \intersect S)
      /\ "subagents" \in DOMAIN tp' /\ tp'.subagents = tp.subagents \ S
  BY <1>1 DEF ToolResults, SubagentsAreKnown, SubagentsInv
<1>3. Tasks \subseteq Tools
  BY DEF AgentAssumption
<1>4. Running(Tasks)' = Running(Tasks) \ S
  BY <1>2, <1>3 DEF Running
<1>5. tp.subagents = Running(Tasks) /\ stops = [t \in Tasks |-> IF tools[t] = "done" THEN 1 ELSE 0]
  BY <1>1 DEF SubagentsAreKnown
<1>6. stops' = [t \in Tasks |-> IF tools'[t] = "done" THEN 1 ELSE 0]
  <2>1. stops' = [t \in Tasks |-> IF t \in Running(Tasks) \intersect S THEN stops[t] + 1 ELSE stops[t]]
    BY <1>2, <1>5 DEF Report
  <2>2. ASSUME NEW t \in Tasks
        PROVE  (IF t \in Running(Tasks) \intersect S THEN stops[t] + 1 ELSE stops[t])
                  = IF tools'[t] = "done" THEN 1 ELSE 0
    <3>1. tools'[t] = IF t \in S THEN "done" ELSE tools[t]
      BY <1>2, <1>3
    <3>2. stops[t] = IF tools[t] = "done" THEN 1 ELSE 0
      BY <1>5
    <3>3. t \in S => tools[t] = "running" /\ t \in Running(Tasks)
      BY <1>2 DEF Running
    <3>4. QED
      BY <3>1, <3>2, <3>3
  <2>3. QED
    BY <2>1, <2>2
<1>7. tools' \in [Tools -> {"new", "running", "done"}]
  BY <1>2
<1>8. SubagentsAreKnown'
  BY <1>2, <1>4, <1>5, <1>6, <1>7 DEF SubagentsAreKnown
<1>9. QED
  BY <1>1, <1>2, <1>8 DEF SubagentsInv

LEMMA FinishEndsSubagents ==
    ASSUME AgentAssumption, SubagentsInv, Finish
    PROVE  SubagentsInv'
<1>1. /\ SubagentsAreKnown /\ Report(tp.subagents) /\ tools' = tools
      /\ tp' = [tp EXCEPT !.subagents = {}]
  BY DEF SubagentsInv, Finish, Complete
<1>2. run'.completed = TRUE /\ run'.phase = "over" /\ DOMAIN run' = DOMAIN run
  BY DEF SubagentsInv, Finish, Complete
<1>3. tp.subagents = Running(Tasks) /\ stops = [t \in Tasks |-> IF tools[t] = "done" THEN 1 ELSE 0]
  BY <1>1 DEF SubagentsAreKnown
<1>4. ASSUME NEW t \in Tasks PROVE stops'[t] = IF tools'[t] = "new" THEN 0 ELSE 1
  <2>1. stops'[t] = IF t \in Running(Tasks) THEN stops[t] + 1 ELSE stops[t]
    BY <1>1, <1>3 DEF Report
  <2>2. tools[t] \in {"new", "running", "done"}
    BY <1>1 DEF SubagentsAreKnown, AgentAssumption
  <2>3. QED
    BY <1>1, <1>3, <2>1, <2>2 DEF Running
<1>5. SubagentsEnd'
  BY <1>4 DEF SubagentsEnd
<1>6. QED
  BY <1>1, <1>2, <1>5 DEF SubagentsInv

LEMMA SubagentsAreFollowed == RunSpec => []SubagentsInv
<1>1. RunInit => SubagentsInv
  <2> SUFFICES ASSUME RunInit PROVE SubagentsInv
    OBVIOUS
  <2>1. /\ DOMAIN run = {"phase", "partial", "denied", "number", "completed", "status"}
        /\ run.completed = FALSE
    BY DEF RunInit
  <2>2. tp.subagents = {} /\ "subagents" \in DOMAIN tp /\ tools = [t \in Tools |-> "new"]
        /\ stops = [t \in Tasks |-> 0]
    BY DEF RunInit
  <2>3. \A t \in Tasks : tools[t] = "new"
    BY <2>2, AgentAssumption DEF AgentAssumption
  <2>4. SubagentsAreKnown
    BY <2>2, <2>3 DEF SubagentsAreKnown, Running
  <2>5. QED
    BY <2>1, <2>2, <2>4 DEF SubagentsInv
<1>2. SubagentsInv /\ [RunNext]_runVars => SubagentsInv'
  <2> SUFFICES ASSUME SubagentsInv, [RunNext]_runVars PROVE SubagentsInv'
    OBVIOUS
  <2> USE AgentAssumption
  <2>1. CASE AgentStart \/ Denied \/ Fail \/ Invalid
    <3>1. /\ run.phase # "over" /\ UNCHANGED <<tools, stops, tp>>
          /\ DOMAIN run' = DOMAIN run /\ run'.completed = run.completed
      BY <2>1 DEF AgentStart, Denied, Fail, Invalid, Waits, Active, SubagentsInv
    <3>2. QED
      BY <3>1, OthersKeepSubagents DEF SubagentsInv
  <2>2. CASE TextDelta \/ TextBlock \/ MessageEnd
    <3>1. /\ run.phase # "over" /\ UNCHANGED <<tools, stops, run>>
          /\ "subagents" \in DOMAIN tp' /\ tp'.subagents = tp.subagents
      BY <2>2 DEF TextDelta, TextBlock, MessageEnd, Receives, Active, SubagentsInv
    <3>2. QED
      BY <3>1, OthersKeepSubagents
  <2>3. CASE MessageStop
    <3>1. tp'.subagents = tp.subagents /\ "subagents" \in DOMAIN tp'
      BY <2>3 DEF MessageStop, Usage, Estimated, Shown, SubagentsInv
    <3>2. run.phase # "over" /\ UNCHANGED <<tools, stops, run>>
      BY <2>3 DEF MessageStop, Receives, Active
    <3>3. QED
      BY <3>1, <3>2, OthersKeepSubagents
  <2>4. ASSUME NEW p, NEW t, NEW S, NEW n, MessageStart(p, t, S, n) PROVE SubagentsInv'
    <3>1. /\ run.phase # "over" /\ UNCHANGED <<tools, stops>>
          /\ DOMAIN run' = DOMAIN run /\ run'.completed = run.completed
      BY <2>4 DEF MessageStart, Begin, Waits, Active, SubagentsInv
    <3>2. tp'.subagents = tp.subagents /\ "subagents" \in DOMAIN tp'
      BY <2>4 DEF MessageStart, SubagentsInv
    <3>3. QED
      BY <3>1, <3>2, OthersKeepSubagents
  <2>5. ASSUME NEW kind, kind # "over", ResultMessage(kind) PROVE SubagentsInv'
    <3>1. /\ run.phase # "over" /\ UNCHANGED <<tools, stops>>
          /\ DOMAIN run' = DOMAIN run /\ run'.completed = run.completed
      BY <2>5 DEF ResultMessage, Waits, Active, SubagentsInv
    <3>2. tp'.subagents = tp.subagents /\ "subagents" \in DOMAIN tp'
      BY <2>5 DEF ResultMessage, FinalUsage, Estimated, Shown, SubagentsInv
    <3>3. QED
      BY <3>1, <3>2, OthersKeepSubagents
  <2>6. CASE UNCHANGED runVars
    <3>1. UNCHANGED <<tools, stops, run, tp>>
      BY <2>6 DEF runVars
    <3>2. Running(Tasks)' = Running(Tasks)
      BY <3>1 DEF Running
    <3>3. QED
      BY <3>1, <3>2 DEF SubagentsInv, SubagentsAreKnown, SubagentsEnd
  <2>7. CASE Finish
    BY <2>7, FinishEndsSubagents
  <2>8. ASSUME NEW t \in Tools, ToolUse(t) PROVE SubagentsInv'
    BY <2>8, UseKeepsSubagents
  <2>9. ASSUME NEW S, NEW E, NEW first, ToolResults(S, E, first) PROVE SubagentsInv'
    BY <2>9, ResultsKeepSubagents
  <2>10. QED
    BY <2>1, <2>2, <2>3, <2>4, <2>5, <2>6, <2>7, <2>8, <2>9 DEF RunNext
<1>3. QED
  BY <1>1, <1>2, PTL DEF RunSpec

\* When a run is reported as complete, each of its subagents has been reported as ended
\* exactly once, those without a result among them.
THEOREM SubagentsHaveEnded == RunSpec => []SubagentsEnd
<1>1. SubagentsInv => SubagentsEnd
  BY DEF SubagentsInv, SubagentsEnd
<1>2. QED
  BY <1>1, SubagentsAreFollowed, PTL
-----------------------------------------------------------------------------
(* Texts                                                                   *)

Pieces == {"p", "s", "h", "e"}

\* A header ends with the first "e".
LEMMA HeadersEnd ==
    ASSUME NEW c \in Seq(Pieces), Contains(c, "e")
    PROVE  \E k \in 1 .. Len(c) : c[k] = "e" /\ \A j \in 1 .. Len(c) : c[j] = "e" => k <= j
<1> DEFINE ends == {i \in 1 .. Len(c) : c[i] = "e"}
<1>1. ends \subseteq Nat /\ ends # {}
  BY DEF Contains
<1>2. PICK k \in ends : \A j \in ends : ~(<<j, k>> \in OpToRel(<, Nat))
  BY <1>1, NatLessThanWellFounded, WFMin
<1>3. k \in Nat /\ \A j \in ends : j \in Nat
  BY <1>1
<1>4. \A j \in ends : ~(j < k)
  BY <1>2, <1>3, Zenon DEF OpToRel
<1>5. \A j \in ends : k <= j
  BY <1>3, <1>4
<1>6. QED
  BY <1>5

LEMMA HeaderEndsAt ==
    ASSUME NEW c \in Seq(Pieces), NEW k \in 1 .. Len(c), c[k] = "e",
           \A j \in 1 .. Len(c) : c[j] = "e" => k <= j
    PROVE  AfterHeader(c) = SubSeq(c, k + 1, Len(c))
<1> DEFINE ends == {i \in 1 .. Len(c) : c[i] = "e"}
<1>1. k \in ends /\ \A j \in ends : k <= j
  OBVIOUS
<1>2. Min(ends) = k
  <2>1. \A j \in ends : (\A i \in ends : j <= i) => j = k
    BY <1>1
  <2>2. QED
    BY <1>1, <2>1 DEF Min
<1>3. SelectInSeq(c, LAMBDA x : x = "e") = k
  BY <1>1, <1>2 DEF SelectInSeq
<1>4. QED
  BY <1>3 DEF AfterHeader

LEMMA HeaderGoesOn ==
    ASSUME NEW c \in Seq(Pieces), ~Contains(c, "e")
    PROVE  AfterHeader(c) = <<>>
<1>1. {i \in 1 .. Len(c) : c[i] = "e"} = {}
  BY DEF Contains
<1>2. SelectInSeq(c, LAMBDA x : x = "e") = 0
  BY <1>1 DEF SelectInSeq
<1>3. QED
  BY <1>2 DEF AfterHeader

\* One piece more: it follows the header when the header has ended.
LEMMA HeaderIsFollowed ==
    ASSUME NEW c \in Seq(Pieces), NEW x \in Pieces
    PROVE  /\ AfterHeader(Append(c, x)) =
                 IF Contains(c, "e") THEN Append(AfterHeader(c), x) ELSE <<>>
           /\ Contains(Append(c, x), "e") <=> Contains(c, "e") \/ x = "e"
           /\ AfterHeader(c) \in Seq(Pieces)
<1> DEFINE d == Append(c, x)
<1>1. /\ d \in Seq(Pieces) /\ Len(d) = Len(c) + 1 /\ d[Len(c) + 1] = x
      /\ \A i \in 1 .. Len(c) : d[i] = c[i]
  OBVIOUS
<1> HIDE DEF d
<1>2. Contains(d, "e") <=> Contains(c, "e") \/ x = "e"
  BY <1>1 DEF Contains
<1>3. CASE Contains(c, "e")
  <2>1. PICK k \in 1 .. Len(c) : c[k] = "e" /\ \A j \in 1 .. Len(c) : c[j] = "e" => k <= j
    BY <1>3, HeadersEnd
  <2>2. AfterHeader(c) = SubSeq(c, k + 1, Len(c))
    BY <2>1, HeaderEndsAt
  <2>3. k \in 1 .. Len(d) /\ d[k] = "e" /\ \A j \in 1 .. Len(d) : d[j] = "e" => k <= j
    BY <1>1, <2>1
  <2>4. AfterHeader(d) = SubSeq(d, k + 1, Len(d))
    BY <1>1, <2>3, HeaderEndsAt
  <2>5. SubSeq(d, k + 1, Len(d)) = Append(SubSeq(c, k + 1, Len(c)), x)
    <3> DEFINE u == SubSeq(d, k + 1, Len(d))
               v == SubSeq(c, k + 1, Len(c))
    <3>1. u \in Seq(Pieces) /\ Len(u) = Len(d) - k /\ \A i \in 1 .. Len(u) : u[i] = d[k + i]
      BY <1>1
    <3>2. v \in Seq(Pieces) /\ Len(v) = Len(c) - k /\ \A i \in 1 .. Len(v) : v[i] = c[k + i]
      OBVIOUS
    <3> HIDE DEF u, v
    <3>3. /\ Append(v, x) \in Seq(Pieces) /\ Len(Append(v, x)) = Len(v) + 1
          /\ Append(v, x)[Len(v) + 1] = x /\ Len(v) \in Nat
          /\ \A i \in 1 .. Len(v) : Append(v, x)[i] = v[i]
      BY <3>2
    <3>4. Len(u) = Len(Append(v, x)) /\ Len(u) = Len(v) + 1
      BY <1>1, <3>1, <3>2, <3>3
    <3>5. ASSUME NEW i \in 1 .. Len(u) PROVE u[i] = Append(v, x)[i]
      <4>1. CASE i \in 1 .. Len(v)
        <5>1. k + i \in 1 .. Len(c)
          BY <3>2, <4>1
        <5>2. QED
          BY <1>1, <3>1, <3>2, <3>3, <4>1, <5>1
      <4>2. CASE i = Len(v) + 1
        <5>1. k + i = Len(c) + 1
          BY <3>2, <4>2
        <5>2. QED
          BY <1>1, <3>1, <3>3, <4>2, <5>1
      <4>3. QED
        BY <3>3, <3>4, <4>1, <4>2
    <3>6. u = Append(v, x)
      BY <3>1, <3>3, <3>4, <3>5, SeqEqual
    <3>7. QED
      BY <3>6 DEF u, v
  <2>6. AfterHeader(c) \in Seq(Pieces)
    BY <2>2
  <2>7. AfterHeader(d) = Append(AfterHeader(c), x)
    BY <2>2, <2>4, <2>5
  <2>8. QED
    BY <1>2, <1>3, <2>6, <2>7 DEF d
<1>4. CASE ~Contains(c, "e") /\ x # "e"
  <2>1. AfterHeader(d) = <<>> /\ AfterHeader(c) = <<>>
    BY <1>1, <1>2, <1>4, HeaderGoesOn
  <2>2. QED
    BY <1>2, <1>4, <2>1 DEF d
<1>5. CASE ~Contains(c, "e") /\ x = "e"
  <2>1. d[Len(d)] = "e" /\ Len(d) \in 1 .. Len(d) /\ \A j \in 1 .. Len(d) : d[j] = "e" => Len(d) <= j
    BY <1>1, <1>5 DEF Contains
  <2>2. AfterHeader(d) = SubSeq(d, Len(d) + 1, Len(d))
    BY <1>1, <2>1, HeaderEndsAt
  <2>3. SubSeq(d, Len(d) + 1, Len(d)) = <<>>
    BY <1>1
  <2>4. AfterHeader(c) = <<>>
    BY <1>5, HeaderGoesOn
  <2>5. QED
    BY <1>2, <1>5, <2>2, <2>3, <2>4 DEF d
<1>6. QED
  BY <1>3, <1>4, <1>5

\* The stream of a text of which c has been received.
Holds(s, buffer, header, full) ==
    /\ DOMAIN s = DOMAIN NoStream
    /\ s.active = TRUE /\ s.buffer = buffer /\ s.header = header /\ s.full = full
HasRead(s, c) ==
    IF c = <<>> THEN s = NoStream
    ELSE IF c = <<"s">> THEN Holds(s, c, "unknown", <<>>)
    ELSE IF c[1] = "h" /\ ~Contains(c, "e") THEN Holds(s, c, "yes", <<>>)
    ELSE Holds(s, <<>>, "no", Body(c))

ReadOne(s, x) ==
    LET k == Consume([s EXCEPT !.active = TRUE], <<x>>) IN [k.stream EXCEPT !.full = @ \o k.text]

LEMMA PieceIsRead ==
    ASSUME NEW c \in Seq(Pieces), NEW x \in Pieces, NEW s, HasRead(s, c)
    PROVE  HasRead(ReadOne(s, x), Append(c, x))
<1> DEFINE d == Append(c, x)
           b == [s EXCEPT !.active = TRUE]
           k == Consume(b, <<x>>)
<1>1. /\ d \in Seq(Pieces) /\ d = c \o <<x>> /\ Len(d) = Len(c) + 1 /\ d # <<>>
      /\ d[Len(c) + 1] = x /\ \A i \in 1 .. Len(c) : d[i] = c[i]
  OBVIOUS
<1>2. c # <<>> => d # <<"s">> /\ d[1] = c[1]
  <2>1. c # <<>> => Len(c) > 0
    OBVIOUS
  <2>2. Len(<<"s">>) = 1
    OBVIOUS
  <2>3. QED
    BY <1>1, <2>1, <2>2
<1>3. c = <<>> => d = <<x>> /\ d[1] = x
  OBVIOUS
<1>4. /\ AfterHeader(d) = IF Contains(c, "e") THEN Append(AfterHeader(c), x) ELSE <<>>
      /\ Contains(d, "e") <=> Contains(c, "e") \/ x = "e"
      /\ AfterHeader(c) \in Seq(Pieces)
  BY HeaderIsFollowed
<1>5. /\ DOMAIN b = DOMAIN NoStream /\ b.active = TRUE /\ b.buffer = s.buffer
      /\ b.header = s.header /\ b.full = s.full
  BY DEF HasRead, Holds, NoStream
<1>6. ReadOne(s, x) = [k.stream EXCEPT !.full = @ \o k.text]
  BY DEF ReadOne
<1> SUFFICES HasRead(ReadOne(s, x), d)
  OBVIOUS
<1> DEFINE more == [b EXCEPT !.buffer = @ \o <<x>>]
<1> HIDE DEF d, b, k
<1>7. ASSUME NEW buffer, NEW header, NEW full, NEW r, NEW t, k = [stream |-> r, text |-> t],
             Holds(r, buffer, header, full)
      PROVE  Holds(ReadOne(s, x), buffer, header, full \o t)
  BY <1>6, <1>7 DEF Holds, NoStream
<1>8. /\ b.header = "no" => k = [stream |-> b, text |-> <<x>>]
      /\ b.header = "yes" => k = Extract(more)
      /\ b.header = "unknown" /\ more.buffer = <<"s">> => k = [stream |-> more, text |-> <<>>]
      /\ b.header = "unknown" /\ more.buffer # <<"s">> /\ more.buffer[1] = "h" =>
            k = Extract([more EXCEPT !.header = "yes"])
      /\ b.header = "unknown" /\ more.buffer # <<"s">> /\ more.buffer[1] # "h" =>
            k = [stream |-> [more EXCEPT !.header = "no", !.buffer = <<>>], text |-> more.buffer]
  <2>1. CASE b.header = "no"
    BY <2>1 DEF Consume, k
  <2>2. CASE b.header = "yes"
    BY <2>2 DEF Consume, k
  <2>3. CASE b.header = "unknown" /\ more.buffer = <<"s">>
    <3> DEFINE read == more.buffer
    <3>1. read = <<"s">>
      BY <2>3
    <3> HIDE DEF read
    <3>2. read[1] # "h"
      BY <3>1
    <3>3. more.buffer[1] # "h"
      BY <3>2 DEF read
    <3>4. QED
      BY <2>3, <3>3 DEF Consume, k
  <2>4. CASE b.header = "unknown" /\ more.buffer # <<"s">> /\ more.buffer[1] = "h"
    BY <2>4 DEF Consume, k
  <2>5. CASE b.header = "unknown" /\ more.buffer # <<"s">> /\ more.buffer[1] # "h"
    BY <2>5 DEF Consume, k
  <2>6. QED
    BY <2>1, <2>2, <2>3, <2>4, <2>5
<1>9. DOMAIN more = DOMAIN NoStream /\ more.active = TRUE /\ more.buffer = b.buffer \o <<x>>
      /\ more.header = b.header /\ more.full = b.full
  BY <1>5 DEF NoStream
<1> HIDE DEF more
\* Within a header, or at its end.
<1>10. ASSUME NEW r, DOMAIN r = DOMAIN NoStream, r.active = TRUE, r.header = "yes", r.full = <<>>,
              r.buffer = d, d[1] = "h", d # <<"s">>, Contains(c, "e") = FALSE, k = Extract(r)
       PROVE  HasRead(ReadOne(s, x), d)
  <2>1. CASE x = "e"
    <3>1. k = [stream |-> [r EXCEPT !.header = "no", !.buffer = <<>>], text |-> AfterHeader(d)]
      BY <1>4, <1>10, <2>1 DEF Extract
    <3>2. Holds([r EXCEPT !.header = "no", !.buffer = <<>>], <<>>, "no", <<>>)
      BY <1>10 DEF Holds, NoStream
    <3>3. Holds(ReadOne(s, x), <<>>, "no", <<>> \o AfterHeader(d))
      BY <1>7, <3>1, <3>2
    <3>4. AfterHeader(d) = <<>> /\ <<>> \o AfterHeader(d) = <<>>
      BY <1>4, <1>10
    <3>5. Body(d) = <<>>
      BY <1>1, <1>10, <3>4 DEF Body
    <3>6. QED
      BY <1>1, <1>4, <1>10, <2>1, <3>3, <3>4, <3>5 DEF HasRead
  <2>2. CASE x # "e"
    <3>1. k = [stream |-> r, text |-> <<>>]
      BY <1>4, <1>10, <2>2 DEF Extract
    <3>2. Holds(r, d, "yes", <<>>)
      BY <1>10 DEF Holds
    <3>3. Holds(ReadOne(s, x), d, "yes", <<>> \o <<>>)
      BY <1>7, <3>1, <3>2
    <3>4. <<>> \o <<>> = <<>>
      OBVIOUS
    <3>5. QED
      BY <1>1, <1>4, <1>10, <2>2, <3>3, <3>4 DEF HasRead
  <2>3. QED
    BY <2>1, <2>2
<1>11. CASE c = <<>> \/ c = <<"s">>
  <2>1. b.header = "unknown" /\ b.buffer = c /\ b.full = <<>>
    BY <1>5, <1>11 DEF HasRead, Holds, NoStream
  <2>2. more.buffer = d
    BY <1>1, <1>9, <2>1
  <2>3. CASE d = <<"s">>
    <3>1. k = [stream |-> more, text |-> <<>>]
      BY <1>8, <2>1, <2>2, <2>3
    <3>2. Holds(more, d, "unknown", <<>>)
      BY <1>9, <2>1, <2>2 DEF Holds
    <3>3. Holds(ReadOne(s, x), d, "unknown", <<>> \o <<>>)
      BY <1>7, <3>1, <3>2
    <3>4. <<>> \o <<>> = <<>>
      OBVIOUS
    <3>5. QED
      BY <1>1, <2>3, <3>3, <3>4 DEF HasRead
  <2>4. CASE d # <<"s">> /\ d[1] = "h"
    <3> DEFINE r == [more EXCEPT !.header = "yes"]
    <3>1. k = Extract(r)
      BY <1>8, <2>1, <2>2, <2>4
    <3>2. /\ DOMAIN r = DOMAIN NoStream /\ r.active = TRUE /\ r.header = "yes" /\ r.full = <<>>
          /\ r.buffer = d
      BY <1>9, <2>1, <2>2 DEF NoStream
    <3>3. Contains(c, "e") = FALSE
      BY <1>11 DEF Contains
    <3>4. QED
      BY <1>10, <2>4, <3>1, <3>2, <3>3
  <2>5. CASE d # <<"s">> /\ d[1] # "h"
    <3>1. k = [stream |-> [more EXCEPT !.header = "no", !.buffer = <<>>], text |-> d]
      BY <1>8, <2>1, <2>2, <2>5
    <3>2. Holds([more EXCEPT !.header = "no", !.buffer = <<>>], <<>>, "no", <<>>)
      BY <1>9, <2>1 DEF Holds, NoStream
    <3>3. Holds(ReadOne(s, x), <<>>, "no", <<>> \o d)
      BY <1>7, <3>1, <3>2
    <3>4. <<>> \o d = d /\ Body(d) = d
      BY <1>1, <2>5 DEF Body
    <3>5. QED
      BY <1>1, <2>5, <3>3, <3>4 DEF HasRead
  <2>6. QED
    BY <2>3, <2>4, <2>5
<1>12. CASE c # <<>> /\ c[1] = "h" /\ ~Contains(c, "e")
  <2>1. c # <<"s">> /\ d # <<"s">> /\ d[1] = "h"
    BY <1>2, <1>12
  <2>2. b.header = "yes" /\ b.buffer = c /\ b.full = <<>>
    BY <1>5, <1>12, <2>1 DEF HasRead, Holds
  <2>3. k = Extract(more) /\ more.buffer = d
    BY <1>1, <1>8, <1>9, <2>2
  <2>4. Contains(c, "e") = FALSE
    BY <1>12 DEF Contains
  <2>5. QED
    BY <1>9, <1>10, <1>12, <2>1, <2>2, <2>3, <2>4
<1>13. CASE c # <<>> /\ c # <<"s">> /\ (c[1] = "h" => Contains(c, "e"))
  <2>1. b.header = "no" /\ b.buffer = <<>> /\ b.full = Body(c)
    BY <1>5, <1>13 DEF HasRead, Holds
  <2>2. k = [stream |-> b, text |-> <<x>>]
    BY <1>8, <2>1
  <2>3. Holds(b, <<>>, "no", Body(c))
    BY <1>5, <2>1 DEF Holds
  <2>4. Holds(ReadOne(s, x), <<>>, "no", Body(c) \o <<x>>)
    BY <1>7, <2>2, <2>3
  <2>5. Body(c) \o <<x>> = Body(d)
    <3>1. CASE c[1] = "h"
      <4>1. Body(c) = AfterHeader(c) /\ Body(d) = AfterHeader(d)
        BY <1>1, <1>2, <1>13, <3>1 DEF Body
      <4>2. Append(AfterHeader(c), x) = AfterHeader(c) \o <<x>>
        BY <1>4
      <4>3. QED
        BY <1>4, <1>13, <3>1, <4>1, <4>2
    <3>2. CASE c[1] # "h"
      BY <1>1, <1>2, <1>13, <3>2 DEF Body
    <3>3. QED
      BY <3>1, <3>2
  <2>6. QED
    BY <1>1, <1>2, <1>4, <1>13, <2>4, <2>5 DEF HasRead
<1>14. QED
  BY <1>11, <1>12, <1>13
LEMMA BodyIsAText ==
    ASSUME NEW c \in Seq(Pieces)
    PROVE  Body(c) \in Seq(Pieces)
  BY HeaderIsFollowed DEF Body, Pieces

\* The stream of a text of which all has been received ends with its body.
LEMMA TextIsFinished ==
    ASSUME NEW text \in Seq(Pieces), text # <<>>, Body(text) # <<>>, HasRead(et.stream, text),
           NEW given \in {<<>>, text}, given = text => text # <<"s">>, FinishStream(given)
    PROVE  /\ Logged(Body(text))
           /\ et' = [stream |-> NoStream, last |-> Body(text), suppress |-> TRUE,
                     outcomes |-> NoResults]
<1> DEFINE s == et.stream
           c == IF s.full = <<>> /\ given # <<>> THEN Consume(s, given) ELSE [stream |-> s, text |-> <<>>]
           held == IF c.text = <<>> /\ c.stream.header = "unknown" THEN c.stream.buffer ELSE c.text
           full == s.full \o held
<1>1. full # <<>> =>
         /\ Logged(full)
         /\ et' = [stream |-> NoStream, last |-> full, suppress |-> TRUE, outcomes |-> NoResults]
  BY DEF FinishStream
<1>2. Body(text) \in Seq(Pieces)
  BY BodyIsAText
<1>3. full = Body(text)
  <2>1. CASE text = <<"s">>
    <3>1. s.full = <<>> /\ s.buffer = text /\ s.header = "unknown" /\ given = <<>>
      BY <2>1 DEF HasRead, Holds
    <3>2. held = text
      BY <3>1
    <3>3. text[1] # "h"
      BY <2>1
    <3>4. Body(text) = text
      BY <3>3 DEF Body
    <3>5. <<>> \o text = text
      OBVIOUS
    <3>6. QED
      BY <3>1, <3>2, <3>4, <3>5
  <2>2. CASE text # <<"s">>
    <3>1. ~(text[1] = "h" /\ ~Contains(text, "e"))
      BY HeaderGoesOn DEF Body
    <3>2. s.full = Body(text) /\ s.header = "no"
      BY <2>2, <3>1 DEF HasRead, Holds
    <3>3. held = <<>>
      BY <3>2
    <3>4. QED
      BY <1>2, <3>2, <3>3
  <2>3. QED
    BY <2>1, <2>2
<1>4. QED
  BY <1>1, <1>3

\* The log and the outcome that the next text will show are those that are expected.
LogIsTold == log = hist.texts /\ et.outcomes = hist.since

\* A text that is streamed has been told before its block arrives, and the tracer knows it.
Bodies == {Body(t) : t \in Texts}
RepetitionIsKnown ==
    /\ et.suppress => run.partial /\ et.last \in Bodies
    /\ run.partial /\ sdk.kind = "blocks" /\ ~sdk.said /\ sdk.parent = "none" =>
          et.suppress /\ et.last = Body(sdk.text)

MessageIsGiven ==
    /\ DOMAIN sdk = DOMAIN NoMessage /\ sdk.said \in BOOLEAN /\ sdk.kind \in {"none", "stream", "blocks"}
    /\ sdk.kind # "none" =>
          /\ sdk.text \in IF sdk.parent = "none" THEN {<<>>} \union Texts ELSE SubTexts
          /\ sdk.rest \in Seq(Pieces)
          /\ sdk.text = <<>> => sdk.said
          /\ sdk.kind = "stream" => run.partial
    /\ sdk.kind = "stream" /\ sdk.said => sdk.rest = <<>>
    /\ sdk.kind = "stream" /\ ~sdk.said /\ sdk.rest # sdk.text => tp.hasText

\* The tracer has read what was received of the text of the agent.
Streams == sdk.kind = "stream" /\ sdk.parent = "none" /\ ~sdk.said
StreamIsRead ==
    IF Streams
    THEN \E c \in Seq(Pieces) : sdk.text = c \o sdk.rest /\ HasRead(et.stream, c)
    ELSE et.stream = NoStream

\* A message of a subagent is received while it runs.
ParentIsKnown ==
    run.phase \in {"new", "running"} =>
       /\ tp.parent = IF sdk.kind = "stream" THEN sdk.parent ELSE "none"
       /\ sdk.kind = "stream" /\ sdk.parent # "none" => sdk.parent \in tp.subagents

RecordTypes ==
    /\ DOMAIN et = {"stream", "last", "suppress", "outcomes"} /\ et.suppress \in BOOLEAN
    /\ {"parent", "hasText", "subagents"} \subseteq DOMAIN tp
    /\ "partial" \in DOMAIN run

Told == RecordTypes /\ LogIsTold /\ RepetitionIsKnown /\ MessageIsGiven /\ StreamIsRead /\ ParentIsKnown
TextInv ==
    /\ DOMAIN hist = {"texts", "since", "ambiguous", "spent"} /\ hist.ambiguous \in BOOLEAN
    /\ ~hist.ambiguous => Told

\* Steps that leave the message and the tracer alone.
LEMMA OthersKeepTold ==
    ASSUME Told, UNCHANGED <<et, log>>, hist'.texts = hist.texts, hist'.since = hist.since,
           DOMAIN sdk' = DOMAIN NoMessage, sdk'.said = sdk.said, sdk'.kind = sdk.kind, sdk'.text = sdk.text,
           sdk'.rest = sdk.rest, sdk'.parent = sdk.parent,
           tp'.parent = tp.parent, tp'.hasText = tp.hasText,
           {"parent", "hasText", "subagents"} \subseteq DOMAIN tp',
           "partial" \in DOMAIN run', run'.partial = run.partial,
           run'.phase \in {"new", "running"} =>
               run.phase \in {"new", "running"} /\ tp.subagents \subseteq tp'.subagents
    PROVE  Told'
<1>1. RecordTypes' /\ LogIsTold' /\ RepetitionIsKnown' /\ MessageIsGiven'
  BY DEF Told, RecordTypes, LogIsTold, RepetitionIsKnown, MessageIsGiven
<1>2. StreamIsRead'
  BY DEF Told, StreamIsRead, Streams
<1>3. ParentIsKnown'
  BY DEF Told, ParentIsKnown
<1>4. QED
  BY <1>1, <1>2, <1>3 DEF Told
LEMMA StartKeepsTold ==
    ASSUME AgentAssumption, SubagentsInv, Told, NEW parent, NEW text, NEW calls, NEW n,
           MessageStart(parent, text, calls, n),
           IF parent = "none" THEN text \in {<<>>} \union Texts ELSE parent \in Tasks /\ text \in SubTexts
    PROVE  Told'
<1>1. /\ run.phase = "running" /\ sdk.kind = "none" /\ UNCHANGED <<et, log>>
      /\ run' = [run EXCEPT !.number = @ + 1] /\ hist' = [hist EXCEPT !.spent = @ + n]
      /\ sdk' = [kind |-> IF run.partial THEN "stream" ELSE "blocks", rest |-> text, text |-> text,
                 said |-> text = <<>>, parent |-> parent, calls |-> calls, tokens |-> n]
      /\ parent # "none" => parent \in Running(Tasks)
      /\ tp' = IF ~run.partial THEN tp
               ELSE [tp EXCEPT !.hasText = FALSE, !.parent = IF parent = "none" THEN @ ELSE parent]
  BY DEF MessageStart, Begin, Waits, Active
<1>2. DOMAIN sdk' = DOMAIN NoMessage
      /\ sdk'.kind = (IF run.partial THEN "stream" ELSE "blocks") /\ sdk'.rest = text
      /\ sdk'.text = text /\ sdk'.said = (text = <<>>) /\ sdk'.parent = parent
  BY <1>1 DEF NoMessage
<1>3. run'.partial = run.partial /\ run'.phase = "running" /\ "partial" \in DOMAIN run'
  BY <1>1 DEF Told, RecordTypes
<1>4. hist'.texts = hist.texts /\ hist'.since = hist.since
  BY <1>1
<1>5. /\ {"parent", "hasText", "subagents"} \subseteq DOMAIN tp' /\ tp'.subagents = tp.subagents
      /\ tp'.parent = IF run.partial /\ parent # "none" THEN parent ELSE tp.parent
  BY <1>1 DEF Told, RecordTypes
<1>6. text \in Seq(Pieces) /\ "none" \notin Tasks
  <2>1. <<>> \in Seq(Pieces) /\ Texts \union SubTexts \subseteq Seq(Pieces)
    BY DEF AgentAssumption, Pieces
  <2>2. QED
    BY <2>1 DEF AgentAssumption
<1>7. RecordTypes' /\ LogIsTold' /\ RepetitionIsKnown'
  BY <1>1, <1>2, <1>3, <1>4, <1>5, <1>6 DEF Told, RecordTypes, LogIsTold, RepetitionIsKnown, MessageIsGiven
<1>8. MessageIsGiven'
  BY <1>2, <1>3, <1>6 DEF MessageIsGiven
<1>9. et.stream = NoStream
  BY <1>1 DEF Told, StreamIsRead, Streams
<1>10. StreamIsRead'
  <2>1. CASE Streams'
    <3>1. HasRead(et'.stream, <<>>) /\ <<>> \in Seq(Pieces)
      BY <1>1, <1>9 DEF HasRead
    <3>2. sdk'.text = <<>> \o sdk'.rest
      BY <1>2, <1>6
    <3>3. QED
      BY <2>1, <3>1, <3>2 DEF StreamIsRead
  <2>2. CASE ~Streams'
    BY <1>1, <1>9, <2>2 DEF StreamIsRead
  <2>3. QED
    BY <2>1, <2>2
<1>11. ParentIsKnown'
  <2>1. tp.parent = "none"
    BY <1>1 DEF Told, ParentIsKnown
  <2>2. tp.subagents = Running(Tasks)
    BY <1>1 DEF SubagentsInv, SubagentsAreKnown
  <2>3. QED
    BY <1>1, <1>2, <1>3, <1>5, <2>1, <2>2 DEF ParentIsKnown
<1>12. QED
  BY <1>7, <1>8, <1>10, <1>11 DEF Told

\* Whether the message that is received belongs to a subagent.
LEMMA SubagentIsKnown ==
    ASSUME AgentAssumption, SubagentsInv, Told, Receives, sdk.kind = "stream"
    PROVE  ToSubagent <=> sdk.parent # "none"
<1>1. run.phase = "running" /\ ~run.completed
  BY DEF Receives, Active, SubagentsInv
<1>2. tp.subagents = Running(Tasks) /\ "none" \notin Running(Tasks)
  BY <1>1 DEF SubagentsInv, SubagentsAreKnown, Running, AgentAssumption
<1>3. QED
  BY <1>1, <1>2 DEF Told, ParentIsKnown, ToSubagent

LEMMA PieceKeepsTold ==
    ASSUME AgentAssumption, SubagentsInv, Told, TextDelta
    PROVE  Told'
<1> DEFINE x == Head(sdk.rest)
<1>1. /\ Receives /\ sdk.kind = "stream" /\ sdk.rest # <<>> /\ ~sdk.said /\ run.phase = "running"
      /\ sdk' = [sdk EXCEPT !.rest = Tail(@)] /\ tp' = [tp EXCEPT !.hasText = TRUE]
      /\ UNCHANGED <<run, log, hist>>
  BY DEF TextDelta, Told, MessageIsGiven, Receives, Active
<1>2. /\ DOMAIN sdk' = DOMAIN NoMessage /\ sdk'.kind = "stream" /\ sdk'.rest = Tail(sdk.rest)
      /\ sdk'.text = sdk.text /\ sdk'.said = sdk.said /\ sdk'.parent = sdk.parent
  BY <1>1 DEF Told, MessageIsGiven, NoMessage
<1>3. /\ {"parent", "hasText", "subagents"} \subseteq DOMAIN tp' /\ tp'.subagents = tp.subagents
      /\ tp'.parent = tp.parent /\ tp'.hasText = TRUE
  BY <1>1 DEF Told, RecordTypes
<1>4. sdk.rest \in Seq(Pieces) /\ x \in Pieces /\ Tail(sdk.rest) \in Seq(Pieces)
      /\ sdk.rest = <<x>> \o Tail(sdk.rest)
  BY <1>1 DEF Told, MessageIsGiven
<1>5. MessageIsGiven'
  BY <1>1, <1>2, <1>3, <1>4 DEF Told, MessageIsGiven
<1>6. ParentIsKnown'
  BY <1>1, <1>2, <1>3 DEF Told, ParentIsKnown
<1>7. CASE sdk.parent # "none"
  <2>1. UNCHANGED et
    BY <1>7, <1>1, SubagentIsKnown DEF TextDelta
  <2>2. RecordTypes' /\ LogIsTold' /\ RepetitionIsKnown'
    BY <1>1, <1>2, <1>3, <2>1 DEF Told, RecordTypes, LogIsTold, RepetitionIsKnown
  <2>3. StreamIsRead'
    BY <1>2, <1>7, <2>1 DEF Told, StreamIsRead, Streams
  <2>4. QED
    BY <1>5, <1>6, <2>2, <2>3 DEF Told
<1>8. CASE sdk.parent = "none"
  <2> HIDE DEF x
  <2>1. et' = [et EXCEPT !.stream = ReadOne(et.stream, x)]
    BY <1>8, <1>1, SubagentIsKnown DEF TextDelta, Partial, ReadOne, x
  <2>2. /\ DOMAIN et' = DOMAIN et /\ et'.stream = ReadOne(et.stream, x) /\ et'.last = et.last
        /\ et'.suppress = et.suppress /\ et'.outcomes = et.outcomes
    BY <2>1 DEF Told, RecordTypes
  <2>3. RecordTypes' /\ LogIsTold' /\ RepetitionIsKnown'
    BY <1>1, <1>2, <1>3, <2>2 DEF Told, RecordTypes, LogIsTold, RepetitionIsKnown
  <2>4. PICK c \in Seq(Pieces) : sdk.text = c \o sdk.rest /\ HasRead(et.stream, c)
    BY <1>1, <1>8 DEF Told, StreamIsRead, Streams
  <2>5. HasRead(et'.stream, Append(c, x))
    BY <1>4, <2>2, <2>4, PieceIsRead
  <2>6. sdk'.text = Append(c, x) \o sdk'.rest
    <3>1. c \o (<<x>> \o Tail(sdk.rest)) = (c \o <<x>>) \o Tail(sdk.rest)
      <4> DEFINE one == <<x>>
                 left == Tail(sdk.rest)
      <4>1. one \in Seq(Pieces) /\ left \in Seq(Pieces)
        BY <1>4
      <4> HIDE DEF one, left
      <4>2. (c \o one) \o left = c \o (one \o left)
        BY <4>1, ConcatAssociative
      <4>3. QED
        BY <4>2 DEF one, left
    <3>2. Append(c, x) = c \o <<x>>
      BY <1>4
    <3>3. QED
      BY <1>2, <1>4, <2>4, <3>1, <3>2
  <2>7. Append(c, x) \in Seq(Pieces)
    BY <1>4
  <2>8. StreamIsRead'
    BY <1>1, <1>2, <1>8, <2>5, <2>6, <2>7 DEF StreamIsRead, Streams
  <2>9. QED
    BY <1>5, <1>6, <2>3, <2>8 DEF Told
<1>9. QED
  BY <1>7, <1>8
\* Receiving the text block changes nothing but what has been said, and what the tracer
\* and the log make of it.
LEMMA BlockIsSaid ==
    ASSUME Told, TextBlock, RecordTypes', LogIsTold', et'.stream = NoStream,
           et'.suppress => run.partial /\ et'.last \in Bodies
    PROVE  Told'
<1>1. /\ sdk' = [sdk EXCEPT !.said = TRUE] /\ UNCHANGED <<run, tp>> /\ sdk.kind # "none"
      /\ run.partial => sdk.rest = <<>>
      /\ sdk.kind = "stream" => run.partial
  BY DEF TextBlock, Receives, Told, MessageIsGiven
<1>2. /\ DOMAIN sdk' = DOMAIN NoMessage /\ sdk'.kind = sdk.kind /\ sdk'.rest = sdk.rest
      /\ sdk'.text = sdk.text /\ sdk'.said = TRUE /\ sdk'.parent = sdk.parent
  BY <1>1 DEF Told, MessageIsGiven, NoMessage
<1>3. RepetitionIsKnown'
  BY <1>1, <1>2 DEF Told, RepetitionIsKnown, Bodies
<1>4. MessageIsGiven'
  BY <1>1, <1>2 DEF Told, MessageIsGiven
<1>5. StreamIsRead'
  BY <1>2 DEF StreamIsRead, Streams
<1>6. ParentIsKnown'
  BY <1>1, <1>2 DEF Told, ParentIsKnown
<1>7. QED
  BY <1>3, <1>4, <1>5, <1>6 DEF Told

LEMMA BlockKeepsTold ==
    ASSUME AgentAssumption, TextInv, ~hist.ambiguous, TextBlock, ~hist'.ambiguous
    PROVE  Told'
<1> DEFINE text == sdk.text
           streamed == run.partial /\ sdk.parent = "none"
<1>1. /\ Told /\ OnMessage(text) /\ UNCHANGED <<run, tp>> /\ sdk.said = FALSE /\ sdk.kind # "none"
      /\ sdk.kind = "stream" => sdk.rest = <<>> /\ run.partial
  BY DEF TextInv, TextBlock, Receives, Told, MessageIsGiven
<1>2. /\ text # <<>> /\ text \in Seq(Pieces)
      /\ sdk.parent = "none" => text \in Texts
      /\ sdk.parent # "none" => text \in SubTexts
  <2>1. Texts \union SubTexts \subseteq Seq(Pieces) \ {<<>>}
    BY DEF AgentAssumption, Pieces
  <2>2. QED
    BY <1>1, <2>1 DEF Told, MessageIsGiven
<1> HIDE DEF text
<1>3. RecordTypes /\ LogIsTold /\ RepetitionIsKnown /\ DOMAIN hist = {"texts", "since", "ambiguous", "spent"}
  BY <1>1 DEF Told, TextInv
\* The block of a text that was streamed: nothing is told.
<1>4. CASE streamed /\ sdk.kind # "stream"
  <2>1. hist' = [hist EXCEPT !.ambiguous = @ \/ text[1] = "h"]
    BY <1>4 DEF TextBlock, text
  <2>2. hist'.texts = hist.texts /\ hist'.since = hist.since /\ text[1] # "h"
    BY <1>3, <2>1
  <2>3. et.suppress /\ et.last = text
    <3>1. et.suppress /\ et.last = Body(text)
      BY <1>1, <1>3, <1>4 DEF RepetitionIsKnown, Told, MessageIsGiven, text
    <3>2. QED
      BY <2>2, <3>1 DEF Body
  <2>4. et.stream = NoStream
    BY <1>1, <1>4 DEF Told, StreamIsRead, Streams
  <2>5. et' = [et EXCEPT !.suppress = FALSE, !.last = <<>>] /\ UNCHANGED log
    BY <1>1, <1>2, <2>3, <2>4 DEF OnMessage, NoStream
  <2>6. /\ DOMAIN et' = DOMAIN et /\ et'.suppress = FALSE /\ et'.stream = NoStream
        /\ et'.outcomes = et.outcomes
    BY <1>3, <2>4, <2>5 DEF RecordTypes
  <2>7. RecordTypes' /\ LogIsTold'
    BY <1>1, <1>3, <2>2, <2>5, <2>6 DEF RecordTypes, LogIsTold
  <2>8. QED
    BY <1>1, <2>6, <2>7, BlockIsSaid
\* The block arrives before the end of the stream.
<1>5. CASE streamed /\ sdk.kind = "stream"
  <2>1. Expected(text, text = <<"s">> \/ Body(text) = <<>>)
    BY <1>5 DEF TextBlock, text
  <2>2. /\ hist'.texts = Append(hist.texts, [text |-> Body(text), status |-> Status(hist.since)])
        /\ hist'.since = NoResults /\ text # <<"s">> /\ Body(text) # <<>>
    BY <1>3, <2>1 DEF Expected
  <2>3. HasRead(et.stream, text)
    <3>1. PICK c \in Seq(Pieces) : text = c \o <<>> /\ HasRead(et.stream, c)
      BY <1>1, <1>5 DEF Told, StreamIsRead, Streams, text
    <3>2. c \o <<>> = c
      OBVIOUS
    <3>3. QED
      BY <3>1, <3>2
  <2>4. et.stream.active
    BY <1>2, <2>3 DEF HasRead, Holds
  <2>5. FinishStream(text)
    BY <1>1, <2>4 DEF OnMessage
  <2>6. /\ Logged(Body(text))
        /\ et' = [stream |-> NoStream, last |-> Body(text), suppress |-> TRUE, outcomes |-> NoResults]
    BY <1>2, <2>2, <2>3, <2>5, TextIsFinished
  <2>7. RecordTypes' /\ LogIsTold'
    BY <1>1, <1>3, <2>2, <2>6 DEF RecordTypes, LogIsTold, Logged
  <2>8. et'.stream = NoStream /\ et'.last \in Bodies
    BY <1>2, <1>5, <2>6 DEF Bodies
  <2>9. QED
    BY <1>1, <1>5, <2>7, <2>8, BlockIsSaid
\* Nothing was streamed, at least not for the log.
<1>6. CASE ~streamed
  <2>1. Expected(text, FALSE)
    BY <1>6 DEF TextBlock, text
  <2>2. /\ hist'.texts = Append(hist.texts, [text |-> Body(text), status |-> Status(hist.since)])
        /\ hist'.since = NoResults
    BY <1>3, <2>1 DEF Expected
  <2>3. et.stream = NoStream
    BY <1>1, <1>6 DEF Told, StreamIsRead, Streams
  <2>4. ~(et.suppress /\ text = et.last)
    <3>1. SUFFICES ASSUME et.suppress, text = et.last PROVE FALSE
      OBVIOUS
    <3>2. run.partial /\ text \in Bodies
      BY <1>3, <3>1 DEF RepetitionIsKnown
    <3>3. text \in SubTexts
      BY <1>2, <1>6, <3>2
    <3>4. QED
      BY <3>2, <3>3 DEF Bodies, AgentAssumption
  <2>5. /\ Logged(Body(text))
        /\ et' = [et EXCEPT !.suppress = FALSE, !.outcomes = NoResults,
                            !.last = IF et.suppress THEN <<>> ELSE @]
    BY <1>1, <1>2, <2>3, <2>4 DEF OnMessage, NoStream
  <2>6. /\ DOMAIN et' = DOMAIN et /\ et'.suppress = FALSE /\ et'.stream = NoStream
        /\ et'.outcomes = NoResults
    BY <1>3, <2>3, <2>5 DEF RecordTypes
  <2>7. RecordTypes' /\ LogIsTold'
    BY <1>1, <1>3, <2>2, <2>5, <2>6 DEF RecordTypes, LogIsTold, Logged
  <2>8. QED
    BY <1>1, <2>6, <2>7, BlockIsSaid
<1>7. QED
  BY <1>4, <1>5, <1>6
LEMMA StopKeepsTold ==
    ASSUME AgentAssumption, SubagentsInv, TextInv, ~hist.ambiguous, MessageStop, ~hist'.ambiguous
    PROVE  Told'
<1> DEFINE text == sdk.text
<1>1. /\ Told /\ Receives /\ sdk.kind = "stream" /\ sdk.rest = <<>> /\ UNCHANGED run
      /\ run.phase = "running" /\ run.partial /\ sdk' = [sdk EXCEPT !.kind = "blocks"]
      /\ tp' = [Usage(tp, sdk.tokens) EXCEPT !.hasText = FALSE, !.parent = "none"]
      /\ IF tp.hasText /\ ~ToSubagent THEN OnMessage(<<>>) ELSE UNCHANGED <<et, log>>
      /\ IF sdk.said \/ sdk.parent # "none" THEN UNCHANGED hist ELSE Expected(text, Body(text) = <<>>)
  BY DEF TextInv, MessageStop, Receives, Active, Told, MessageIsGiven
<1>2. /\ DOMAIN sdk' = DOMAIN NoMessage /\ sdk'.kind = "blocks" /\ sdk'.rest = sdk.rest
      /\ sdk'.text = text /\ sdk'.said = sdk.said /\ sdk'.parent = sdk.parent
  BY <1>1 DEF Told, MessageIsGiven, NoMessage
<1>3. {"parent", "hasText", "subagents"} \subseteq DOMAIN tp' /\ tp'.parent = "none"
  BY <1>1 DEF Told, RecordTypes, Usage, Estimated, Shown
<1>4. MessageIsGiven' /\ ParentIsKnown'
  BY <1>1, <1>2, <1>3 DEF Told, MessageIsGiven, ParentIsKnown
<1>5. RecordTypes /\ LogIsTold /\ RepetitionIsKnown /\ DOMAIN hist = {"texts", "since", "ambiguous", "spent"}
  BY <1>1 DEF Told, TextInv
<1> HIDE DEF text
<1>6. CASE sdk.said \/ sdk.parent # "none"
  <2>1. et.stream = NoStream
    BY <1>6 DEF Told, TextInv, StreamIsRead, Streams
  <2>2. UNCHANGED <<et, log, hist>>
    BY <1>1, <1>6, <2>1 DEF OnMessage, NoStream
  <2>3. RecordTypes' /\ LogIsTold' /\ RepetitionIsKnown'
    BY <1>1, <1>2, <1>3, <1>5, <1>6, <2>2 DEF RecordTypes, LogIsTold, RepetitionIsKnown
  <2>4. StreamIsRead'
    BY <1>2, <2>1, <2>2 DEF StreamIsRead, Streams
  <2>5. QED
    BY <1>4, <2>3, <2>4 DEF Told
<1>7. CASE ~sdk.said /\ sdk.parent = "none"
  <2>1. text \in Texts /\ text \in Seq(Pieces) /\ text # <<>>
    <3>1. Texts \subseteq Seq(Pieces) \ {<<>>}
      BY DEF AgentAssumption, Pieces
    <3>2. QED
      BY <1>1, <1>7, <3>1 DEF Told, MessageIsGiven, text
  <2>2. /\ hist'.texts = Append(hist.texts, [text |-> Body(text), status |-> Status(hist.since)])
        /\ hist'.since = NoResults /\ Body(text) # <<>>
    BY <1>1, <1>5, <1>7 DEF Expected
  <2>3. HasRead(et.stream, text)
    <3>1. PICK c \in Seq(Pieces) : text = c \o <<>> /\ HasRead(et.stream, c)
      BY <1>1, <1>7 DEF Told, StreamIsRead, Streams, text
    <3>2. c \o <<>> = c
      OBVIOUS
    <3>3. QED
      BY <3>1, <3>2
  <2>4. et.stream.active
    BY <2>1, <2>3 DEF HasRead, Holds
  <2>5. tp.hasText /\ ~ToSubagent
    BY <1>1, <1>7, <2>1, SubagentIsKnown DEF Told, MessageIsGiven, text
  <2>6. FinishStream(<<>>)
    BY <1>1, <2>4, <2>5 DEF OnMessage
  <2>7. /\ Logged(Body(text))
        /\ et' = [stream |-> NoStream, last |-> Body(text), suppress |-> TRUE, outcomes |-> NoResults]
    BY <2>1, <2>2, <2>3, <2>6, TextIsFinished
  <2>8. RecordTypes' /\ LogIsTold'
    BY <1>1, <1>3, <1>5, <2>2, <2>7 DEF RecordTypes, LogIsTold, Logged
  <2>9. RepetitionIsKnown'
    BY <1>1, <1>2, <2>1, <2>7 DEF RepetitionIsKnown, Bodies
  <2>10. StreamIsRead'
    BY <1>2, <2>7 DEF StreamIsRead, Streams
  <2>11. QED
    BY <1>4, <2>8, <2>9, <2>10 DEF Told
<1>8. QED
  BY <1>6, <1>7

LEMMA EndKeepsTold ==
    ASSUME Told, MessageEnd
    PROVE  Told'
<1>1. /\ sdk.kind = "blocks" /\ sdk' = NoMessage /\ UNCHANGED <<run, tp, et, log, hist>>
  BY DEF MessageEnd
<1>2. /\ sdk'.kind = "none" /\ sdk'.said = TRUE /\ DOMAIN sdk' = DOMAIN NoMessage
  BY <1>1 DEF NoMessage
<1>3. RecordTypes' /\ LogIsTold' /\ RepetitionIsKnown' /\ MessageIsGiven'
  BY <1>1, <1>2 DEF Told, RecordTypes, LogIsTold, RepetitionIsKnown, MessageIsGiven
<1>4. StreamIsRead' /\ ParentIsKnown'
  BY <1>1, <1>2 DEF Told, StreamIsRead, Streams, ParentIsKnown
<1>5. QED
  BY <1>3, <1>4 DEF Told

LEMMA ResultsKeepTold ==
    ASSUME TextInv, ~hist.ambiguous, NEW S, NEW E, NEW first, ToolResults(S, E, first)
    PROVE  Told'
<1>1. /\ Told /\ sdk.kind = "none" /\ UNCHANGED <<run, sdk, log>>
      /\ et' = [et EXCEPT !.outcomes = Add(@, S, E)] /\ hist' = [hist EXCEPT !.since = Add(@, S, E)]
      /\ tp' = [tp EXCEPT !.pending = @ \ S, !.subagents = @ \ S, !.errors = @ + Cardinality(E)]
  BY DEF TextInv, ToolResults, Waits
<1>2. /\ DOMAIN et' = DOMAIN et /\ et'.outcomes = Add(et.outcomes, S, E) /\ et'.stream = et.stream
      /\ et'.suppress = et.suppress /\ et'.last = et.last
      /\ hist'.texts = hist.texts /\ hist'.since = Add(hist.since, S, E)
  BY <1>1 DEF TextInv, Told, RecordTypes
<1>3. {"parent", "hasText", "subagents"} \subseteq DOMAIN tp' /\ tp'.parent = tp.parent
  BY <1>1 DEF Told, RecordTypes
<1>4. RecordTypes' /\ LogIsTold' /\ RepetitionIsKnown' /\ MessageIsGiven'
  BY <1>1, <1>2, <1>3 DEF Told, RecordTypes, LogIsTold, RepetitionIsKnown, MessageIsGiven
<1>5. StreamIsRead' /\ ParentIsKnown'
  BY <1>1, <1>2, <1>3 DEF Told, StreamIsRead, Streams, ParentIsKnown
<1>6. QED
  BY <1>4, <1>5 DEF Told

\* What is ambiguous stays so.
LEMMA AmbiguityStays ==
    ASSUME TextInv, RunNext
    PROVE  /\ DOMAIN hist' = {"texts", "since", "ambiguous", "spent"} /\ hist'.ambiguous \in BOOLEAN
           /\ hist.ambiguous => hist'.ambiguous
<1> USE DEF TextInv
<1>1. CASE UNCHANGED hist
  BY <1>1
<1>2. ASSUME NEW b \in BOOLEAN, NEW ts, NEW o,
             hist' = [hist EXCEPT !.texts = ts, !.since = o, !.ambiguous = @ \/ b]
      PROVE  /\ DOMAIN hist' = {"texts", "since", "ambiguous", "spent"} /\ hist'.ambiguous \in BOOLEAN
             /\ hist.ambiguous => hist'.ambiguous
  BY <1>2
<1>3. CASE TextBlock
  <2>1. CASE \E b \in BOOLEAN : hist' = [hist EXCEPT !.ambiguous = @ \/ b]
    BY <2>1
  <2>2. QED
    BY <1>2, <1>3, <2>1 DEF TextBlock, Expected
<1>4. CASE MessageStop
  BY <1>1, <1>2, <1>4 DEF MessageStop, Expected
<1>5. ASSUME NEW p, NEW t, NEW S, NEW n, MessageStart(p, t, S, n)
      PROVE  /\ DOMAIN hist' = {"texts", "since", "ambiguous", "spent"} /\ hist'.ambiguous \in BOOLEAN
             /\ hist.ambiguous => hist'.ambiguous
  BY <1>5 DEF MessageStart, Begin
<1>6. ASSUME NEW S, NEW E, NEW first, ToolResults(S, E, first)
      PROVE  /\ DOMAIN hist' = {"texts", "since", "ambiguous", "spent"} /\ hist'.ambiguous \in BOOLEAN
             /\ hist.ambiguous => hist'.ambiguous
  BY <1>6 DEF ToolResults
<1>7. QED
  BY <1>1, <1>3, <1>4, <1>5, <1>6
     DEF RunNext, AgentStart, TextDelta, MessageEnd, Denied, Finish, Invalid, Fail, ToolUse, ResultMessage
LEMMA TextsAreTold == RunSpec => [](SubagentsInv /\ TextInv)
<1>1. RunInit => TextInv
  <2> SUFFICES ASSUME RunInit PROVE TextInv
    OBVIOUS
  <2>1. /\ sdk = NoMessage /\ log = <<>> /\ "partial" \in DOMAIN run
        /\ hist = [texts |-> <<>>, since |-> NoResults, ambiguous |-> FALSE, spent |-> 0]
        /\ et = [stream |-> NoStream, last |-> <<>>, suppress |-> FALSE, outcomes |-> NoResults]
        /\ {"parent", "hasText", "subagents"} \subseteq DOMAIN tp /\ tp.parent = "none"
    BY DEF RunInit
  <2>2. sdk.kind = "none" /\ sdk.said = TRUE /\ DOMAIN sdk = DOMAIN NoMessage
    BY <2>1 DEF NoMessage
  <2>3. RecordTypes /\ LogIsTold /\ RepetitionIsKnown /\ MessageIsGiven
    BY <2>1, <2>2 DEF RecordTypes, LogIsTold, RepetitionIsKnown, MessageIsGiven
  <2>4. StreamIsRead /\ ParentIsKnown
    BY <2>1, <2>2 DEF StreamIsRead, Streams, ParentIsKnown
  <2>5. QED
    BY <2>1, <2>3, <2>4 DEF TextInv, Told
<1>2. SubagentsInv /\ TextInv /\ [RunNext]_runVars => TextInv'
  <2> SUFFICES ASSUME SubagentsInv, TextInv, [RunNext]_runVars PROVE TextInv'
    OBVIOUS
  <2> USE AgentAssumption
  <2>1. CASE UNCHANGED runVars
    <3>1. UNCHANGED <<run, sdk, tp, et, log, hist>>
      BY <2>1 DEF runVars
    <3>2. CASE hist.ambiguous
      BY <3>1, <3>2 DEF TextInv
    <3>3. CASE ~hist.ambiguous
      <4>1. Told /\ DOMAIN sdk' = DOMAIN NoMessage /\ {"parent", "hasText", "subagents"} \subseteq DOMAIN tp'
            /\ "partial" \in DOMAIN run'
        BY <3>1, <3>3 DEF TextInv, Told, MessageIsGiven, RecordTypes
      <4>2. Told'
        BY <3>1, <4>1, OthersKeepTold
      <4>3. QED
        BY <3>1, <4>2 DEF TextInv
    <3>4. QED
      BY <3>2, <3>3
  <2>2. CASE RunNext
    <3>1. SUFFICES ASSUME ~hist'.ambiguous PROVE Told'
      BY <2>2, AmbiguityStays DEF TextInv
    <3>2. ~hist.ambiguous /\ Told
      BY <2>2, <3>1, AmbiguityStays DEF TextInv
    <3>3. DOMAIN sdk = DOMAIN NoMessage /\ {"parent", "hasText", "subagents"} \subseteq DOMAIN tp
          /\ DOMAIN run = {"phase", "partial", "denied", "number", "completed", "status"}
      BY <3>2 DEF Told, MessageIsGiven, RecordTypes, SubagentsInv
    <3>4. CASE AgentStart \/ Denied \/ Invalid \/ Fail
      <4>1. UNCHANGED <<sdk, tp, et, log, hist>>
        BY <3>4 DEF AgentStart, Denied, Invalid, Fail
      <4>2. /\ DOMAIN run' = DOMAIN run /\ run'.partial = run.partial
            /\ run'.phase \in {"new", "running"} => run.phase \in {"new", "running"}
        BY <3>3, <3>4 DEF AgentStart, Denied, Invalid, Fail, Active
      <4>3. QED
        BY <3>2, <3>3, <4>1, <4>2, OthersKeepTold
    <3>5. CASE Finish
      <4>1. /\ UNCHANGED <<sdk, et, log, hist>> /\ tp' = [tp EXCEPT !.subagents = {}]
            /\ DOMAIN run' = DOMAIN run /\ run'.partial = run.partial /\ run'.phase = "over"
        BY <3>3, <3>5 DEF Finish, Complete
      <4>2. DOMAIN tp' = DOMAIN tp /\ tp'.parent = tp.parent /\ tp'.hasText = tp.hasText
        BY <3>3, <4>1
      <4>3. QED
        BY <3>2, <3>3, <4>1, <4>2, OthersKeepTold
    <3>6. ASSUME NEW kind \in {"success", "is_error", "max_turns"}, ResultMessage(kind) PROVE Told'
      <4>1. /\ UNCHANGED <<sdk, et, log, hist>> /\ tp' = FinalUsage(tp, hist.spent)
            /\ DOMAIN run' = DOMAIN run /\ run'.partial = run.partial /\ run'.phase = kind
        BY <3>3, <3>6 DEF ResultMessage
      <4>2. DOMAIN tp' = DOMAIN tp /\ tp'.parent = tp.parent /\ tp'.hasText = tp.hasText
        BY <3>3, <4>1 DEF FinalUsage, Estimated, Shown
      <4>3. QED
        BY <3>2, <3>3, <3>6, <4>1, <4>2, OthersKeepTold
    <3>7. ASSUME NEW t \in Tools, ToolUse(t) PROVE Told'
      <4>1. /\ UNCHANGED <<run, et, log, hist>> /\ sdk' = [sdk EXCEPT !.calls = @ \ {t}]
            /\ tp' = [tp EXCEPT !.pending = @ \union {t}, !.subagents = @ \union ({t} \intersect Tasks)]
        BY <3>7 DEF ToolUse
      <4>2. DOMAIN tp' = DOMAIN tp /\ tp'.parent = tp.parent /\ tp'.hasText = tp.hasText
            /\ tp.subagents \subseteq tp'.subagents
        BY <3>3, <4>1
      <4>3. DOMAIN sdk' = DOMAIN NoMessage /\ sdk'.said = sdk.said /\ sdk'.kind = sdk.kind
            /\ sdk'.text = sdk.text /\ sdk'.rest = sdk.rest /\ sdk'.parent = sdk.parent
        BY <3>3, <4>1 DEF NoMessage
      <4>4. QED
        BY <3>2, <3>3, <4>1, <4>2, <4>3, OthersKeepTold
    <3>8. CASE TextDelta
      BY <3>2, <3>8, PieceKeepsTold
    <3>9. CASE TextBlock
      BY <3>1, <3>2, <3>9, BlockKeepsTold
    <3>10. CASE MessageStop
      BY <3>1, <3>2, <3>10, StopKeepsTold
    <3>11. CASE MessageEnd
      BY <3>2, <3>11, EndKeepsTold
    <3>12. ASSUME NEW S, NEW E, NEW first, ToolResults(S, E, first) PROVE Told'
      BY <3>2, <3>12, ResultsKeepTold
    <3>13. ASSUME NEW t \in {<<>>} \union Texts, NEW S, NEW n, MessageStart("none", t, S, n) PROVE Told'
      BY <3>2, <3>13, StartKeepsTold
    <3>14. ASSUME NEW p \in Tasks, NEW t \in SubTexts, NEW n, MessageStart(p, t, {}, n) PROVE Told'
      <4>1. p # "none"
        BY DEF AgentAssumption
      <4>2. QED
        BY <3>2, <3>14, <4>1, StartKeepsTold
    <3>15. QED
      BY <2>2, <3>4, <3>5, <3>6, <3>7, <3>8, <3>9, <3>10, <3>11, <3>12, <3>13, <3>14 DEF RunNext
  <2>3. QED
    BY <2>1, <2>2
<1>3. QED
  BY <1>1, <1>2, SubagentsAreFollowed, PTL DEF RunSpec

\* As long as no text can be taken for another one, the log has every text once, in order,
\* without its header and with the outcome of the tools since the text before it, whether
\* it was streamed or not, and whether its block came before or after the end of its stream.
THEOREM TextsAreToldOnce == RunSpec => []TextOnce
<1>1. TextInv => TextOnce
  BY DEF TextInv, Told, LogIsTold, TextOnce
<1>2. QED
  BY <1>1, TextsAreTold, PTL

-----------------------------------------------------------------------------
(* What a search says of what it leaves out                                *)

\* Of places in order, the first ones are all if there are at most as many.
LEMMA FirstOfFew ==
    ASSUME NEW n \in Nat, NEW places \in SUBSET (1 .. n), Cardinality(places) <= MaxResults
    PROVE  FirstOf(places) = places
<1> SUFFICES ASSUME NEW i \in places PROVE Cardinality({j \in places : j < i}) < MaxResults
  BY DEF FirstOf
<1>1. MaxResults \in Nat
  BY FileToolsAssumption DEF FileToolsAssumption
<1>2. IsFiniteSet(places)
  <2>1. 1 \in Int /\ n \in Int
    OBVIOUS
  <2>2. IsFiniteSet(1 .. n)
    BY <2>1, FS_Interval
  <2>3. QED
    BY <2>2, FS_Subset
<1>3. {j \in places : j < i} \subseteq places /\ {j \in places : j < i} # places
  <2>1. i \notin {j \in places : j < i}
    OBVIOUS
  <2>2. QED
    BY <2>1
<1>4. /\ Cardinality({j \in places : j < i}) <= Cardinality(places)
      /\ Cardinality(places) # Cardinality({j \in places : j < i})
      /\ IsFiniteSet({j \in places : j < i})
  BY <1>2, <1>3, FS_Subset
<1>5. Cardinality(places) \in Nat /\ Cardinality({j \in places : j < i}) \in Nat
  BY <1>2, <1>4, FS_CardinalityType
<1>6. QED
  BY <1>1, <1>4, <1>5

LEMMA FewPlaces ==
    ASSUME NEW d \in Directories, NEW places \in SUBSET DOMAIN d
    PROVE  /\ Len(d) <= MaxResults => FirstOf(places) = places
           /\ Cardinality(places) \in Nat
           /\ Cardinality(places) < MaxResults => FirstOf(places) = places
<1>1. Len(d) \in Nat /\ DOMAIN d = 1 .. Len(d) /\ MaxResults \in Nat
  BY FileToolsAssumption DEF FileToolsAssumption
<1>2. IsFiniteSet(1 .. Len(d)) /\ Cardinality(1 .. Len(d)) = Len(d)
  BY <1>1, FS_Interval
<1>3. places \in SUBSET (1 .. Len(d))
  BY <1>1
<1>4. IsFiniteSet(places) /\ Cardinality(places) <= Cardinality(1 .. Len(d))
  BY <1>2, <1>3, FS_Subset
<1>5. Cardinality(places) \in Nat
  BY <1>4, FS_CardinalityType
<1>6. Cardinality(places) <= MaxResults => FirstOf(places) = places
  BY <1>1, <1>3, FirstOfFew
<1>7. QED
  BY <1>1, <1>2, <1>4, <1>5, <1>6

LEMMA SearchAnnounces ==
    ASSUME NEW d \in Directories, Search(d) PROVE CutIsAnnounced'
<1>1. answer'.dir = d /\ answer'.ls = LS(d) /\ answer'.glob = Glob(d) /\ answer'.grep = Grep(d)
  BY DEF Search
<1>2. Len(d) \in Nat /\ MaxResults \in Nat
  BY FileToolsAssumption DEF FileToolsAssumption
<1>3. LS(d).shown # {} => LS(d).shown = VisibleIn(d) \/ LS(d).cut
  <2> DEFINE shown == FirstOf(DOMAIN d) \intersect VisibleIn(d)
  <2> SUFFICES ASSUME LS(d).shown # {} PROVE LS(d).shown = VisibleIn(d) \/ LS(d).cut
    OBVIOUS
  <2>0. LS(d) = Result(shown, shown # {} /\ Len(d) > MaxResults) /\ shown # {}
    BY DEF LS, Result
  <2>shown. LS(d).shown = shown
    <3> HIDE DEF shown
    <3>1. PICK cut : LS(d) = Result(shown, cut)
      BY <2>0
    <3>2. QED
      BY <3>1 DEF Result
  <2>1. CASE Len(d) <= MaxResults
    <3>1. DOMAIN d \in SUBSET DOMAIN d
      OBVIOUS
    <3>2. FirstOf(DOMAIN d) = DOMAIN d
      BY <2>1, <3>1, FewPlaces
    <3>3. DOMAIN d \intersect VisibleIn(d) = VisibleIn(d)
      BY DEF VisibleIn
    <3>4. shown = VisibleIn(d)
      BY <3>2, <3>3
    <3>5. QED
      BY <2>shown, <3>4
  <2>2. CASE Len(d) > MaxResults
    <3> HIDE DEF shown
    <3>1. PICK cut : cut = (shown # {} /\ Len(d) > MaxResults) /\ LS(d) = Result(shown, cut)
      BY <2>0
    <3>2. LS(d).cut = cut
      BY <3>1 DEF Result
    <3>3. QED
      BY <2>0, <2>2, <3>1, <3>2
  <2>3. QED
    BY <1>2, <2>1, <2>2
<1>4. Glob(d).shown = FilesIn(d) \/ Glob(d).cut
  <2>1. FilesIn(d) \subseteq DOMAIN d
    BY DEF FilesIn
  <2>2. Len(d) <= MaxResults => FirstOf(FilesIn(d)) = FilesIn(d)
    BY <2>1, FewPlaces
  <2>3. CASE Len(d) <= MaxResults
    BY <2>2, <2>3 DEF Glob, Result
  <2>4. CASE Len(d) > MaxResults
    BY <2>4 DEF Glob, Result
  <2>5. QED
    BY <1>2, <2>3, <2>4
<1>5. Grep(d).shown = LinesIn(d) \/ Grep(d).cut
  <2>1. LinesIn(d) \subseteq DOMAIN d
    BY DEF LinesIn, FilesIn
  <2>2. Cardinality(LinesIn(d)) \in Nat /\ (Cardinality(LinesIn(d)) < MaxResults => FirstOf(LinesIn(d)) = LinesIn(d))
    BY <2>1, FewPlaces
  <2>3. CASE Cardinality(LinesIn(d)) < MaxResults
    BY <2>2, <2>3 DEF Grep, Result
  <2>4. CASE Cardinality(LinesIn(d)) >= MaxResults
    BY <2>4 DEF Grep, Result
  <2>5. QED
    BY <1>2, <2>2, <2>3, <2>4
<1>6. QED
  BY <1>1, <1>3, <1>4, <1>5 DEF CutIsAnnounced

\* A search that shows less than it could says so, for any directory and any limit (ls,
\* glob and grep of the file tools); what Grep cannot read is not counted.
THEOREM CutsAreAnnounced == ToolsSpec => []CutIsAnnounced
<1>1. ToolsInit => CutIsAnnounced
  BY DEF ToolsInit, CutIsAnnounced
<1>2. CutIsAnnounced /\ [ToolsNext]_toolsVars => CutIsAnnounced'
  <2> SUFFICES ASSUME CutIsAnnounced, [ToolsNext]_toolsVars PROVE CutIsAnnounced'
    OBVIOUS
  <2>1. CASE answer'.kind # "search"
    BY <2>1 DEF CutIsAnnounced
  <2>2. CASE UNCHANGED answer
    BY <2>2 DEF CutIsAnnounced
  <2>3. ASSUME NEW f \in FileNames, NEW ok \in BOOLEAN, NEW c, NEW o, NEW scanned, Write(f, c, o, scanned, ok)
      PROVE  answer'.kind # "search"
    BY <2>3 DEF Write, Rejects, Replies
  <2>4. ASSUME NEW f \in FileNames, NEW ok \in BOOLEAN, NEW x, NEW y, NEW all, Edit(f, x, y, all, ok) PROVE answer'.kind # "search"
    BY <2>4 DEF Edit, Rejects, Replies
  <2>5. ASSUME NEW f \in FileNames, NEW scanned \in BOOLEAN, Read(f, scanned) PROVE answer'.kind # "search"
    BY <2>5 DEF Read, Rejects, Replies
  <2>6. ASSUME NEW l, MultiEdit(l) PROVE answer'.kind # "search"
    BY <2>6 DEF MultiEdit
  <2>7. ASSUME CheckEdit PROVE answer'.kind # "search" \/ UNCHANGED answer
    BY <2>7 DEF CheckEdit, Rejects, Replies
  <2>8. ASSUME MultiEdited PROVE answer'.kind # "search"
    BY <2>8 DEF MultiEdited, Replies
  <2>9. (\E f, c : Shell(f, c)) \/ Checked \/ (\E ok : ApplyEdit(ok)) \/ UNCHANGED toolsVars => UNCHANGED answer
    BY DEF Shell, Checked, ApplyEdit, toolsVars
  <2>10. QED
    BY <2>1, <2>2, <2>3, <2>4, <2>5, <2>6, <2>7, <2>8, <2>9, SearchAnnounces DEF ToolsNext
<1>3. QED
  BY <1>1, <1>2, PTL DEF ToolsSpec

=============================================================================
