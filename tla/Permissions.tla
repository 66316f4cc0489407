---------------------------- MODULE Permissions ----------------------------
(***************************************************************************)
(* What an agent run may do: the permission profile, from which the rules  *)
(* of the session are built, the callback that the SDK asks before a tool  *)
(* is used, and the denials that end the run.                              *)
(*                                                                         *)
(* The rules are held by a manager for an older configuration file, which  *)
(* looks for that file with every call.                                    *)
(***************************************************************************)
EXTENDS Naturals, FiniteSets, SequencesExt

CONSTANTS
    Profiles,      \* contents of the profile file
    Legacy,        \* contents of permissions.json: rules
    Calls,         \* uses of tools
    MaxDenials,    \* max_denials_before_interrupt
    MaxAgentRuns,  \* bounds the runs of one agent
    MaxEdits       \* bounds the changes of the two files

PermissionsAssumption ==
    /\ MaxDenials \in Nat \ {0} /\ {MaxAgentRuns, MaxEdits} \subseteq Nat
    /\ \A p \in Profiles : p.base \in BOOLEAN => ~p.base
ASSUME PermissionsAssumption

\* Rules: sequences of patterns, and whether what no rule names is allowed.
Rules(allow, deny, bypass) == [allow |-> allow, deny |-> deny, bypass |-> bypass]
NoRules == Rules(<<>>, <<>>, FALSE)
NoProfile == [base |-> TRUE]

VARIABLES
    file,           \* the profile file
    base,           \* _profile_base: the profile, once it is loaded
    config,         \* the rules of the configuration manager
    workdir,        \* its working directory: the workspace, or that of the program
    legacy,         \* permissions.json: its rules, and whether it is newer than config
    execution,      \* the run of the agent
    counts,         \* denial_counts of the callback, by tool
    denialTracker,  \* the denial tracker
    edits

permissionsVars == <<file, base, config, workdir, legacy, execution, counts, denialTracker, edits>>

Workspace == <<"users", "me", "workspace">>
AgentDir == <<"app">>
CalledTools == {c.tool : c \in Calls}
NoCounts == [t \in CalledTools |-> 0]
NoDenials == [denials |-> 0, interrupted |-> FALSE]
\* replaced and broken are history: permissions.json took the place of the rules, and a
\* use was permitted that the profile denies.
NoRun == [pc |-> "idle", number |-> 0, promised |-> NoRules, replaced |-> FALSE,
          broken |-> FALSE, status |-> "none", checked |-> {}, disabled |-> {}]
NoFile == [exists |-> FALSE, newer |-> FALSE, rules |-> NoRules]

PermissionsInit ==
    /\ file = CHOOSE p \in Profiles : TRUE
    /\ base = NoProfile /\ config = NoRules /\ workdir = AgentDir /\ legacy = NoFile
    /\ execution = NoRun /\ counts = NoCounts /\ denialTracker = NoDenials /\ edits = 0

-----------------------------------------------------------------------------
(* Patterns                                                                *)

\* A pattern names a tool alone, or also a path, a command or anything at all; a path
\* pattern is a directory and the extension that names in it must have.
AnyPath == [any |-> TRUE]
PathPattern(abs, dir, ext) == [any |-> FALSE, abs |-> abs, dir |-> dir, ext |-> ext]

Located(p) == IF p.abs THEN p.parts ELSE workdir \o p.parts

\* An absolute pattern never matches in the workspace.
MatchesPath(p, pattern) ==
    \/ pattern.any
    \/ LET f == Located(p)
       IN  /\ ~pattern.any
           /\ pattern.abs => ~IsPrefix(workdir, f)
           /\ IsPrefix(IF pattern.abs THEN pattern.dir ELSE workdir \o pattern.dir, f)
           /\ pattern.ext \in {"", p.ext}

\* The words of a command: the program, then a path or another word, if any, which
\* a pattern that ends in " *" asks for.
MatchesCommand(c, pattern) ==
    /\ pattern.program \in {"*", c.program}
    /\ IF pattern.path # {} THEN \E f \in c.path, p \in pattern.path : MatchesPath(f, p)
       ELSE \/ pattern.word \in {"", c.word}
            \/ pattern.word = "*" /\ (c.word # "" \/ c.path # {})

\* A command with operators matches no pattern, neither of the rules that allow nor of
\* those that deny.
MatchesBash(c, pattern) == ~c.operators /\ MatchesCommand(c, pattern)

PathTools == {"Read", "Write", "Edit", "MultiEdit", "Glob", "Grep"}

Matches(c, pattern) ==
    /\ pattern.tool = c.tool
    /\ \/ pattern.kind = "name"
       \/ c.tool \in PathTools /\ pattern.kind = "path" /\ MatchesPath(c.path, pattern.path)
       \/ c.tool = "Bash" /\ pattern.kind = "command" /\ MatchesBash(c, pattern)
       \/ c.tool \notin PathTools \union {"Bash"} /\ pattern.kind = "any"

MatchesSome(c, patterns) == \E i \in DOMAIN patterns : Matches(c, patterns[i])

\* A variant of Allows: the rules that allow come first.
AllowsFirst(rules, c) == MatchesSome(c, rules.allow) \/ (~MatchesSome(c, rules.deny) /\ rules.bypass)

Allows(rules, c) == ~MatchesSome(c, rules.deny) /\ (MatchesSome(c, rules.allow) \/ rules.bypass)

-----------------------------------------------------------------------------
(* The profile and the session                                             *)

EditProfile(p) ==
    /\ edits < MaxEdits /\ edits' = edits + 1 /\ file' = p
    /\ UNCHANGED <<base, config, workdir, legacy, execution, counts, denialTracker>>

\* Someone writes permissions.json, as the command line offers.
SaveLegacy(rules) ==
    /\ edits < MaxEdits /\ edits' = edits + 1
    /\ legacy' = [exists |-> TRUE, newer |-> TRUE, rules |-> rules]
    /\ UNCHANGED <<file, base, config, workdir, execution, counts, denialTracker>>

\* The static rules, or those for the workspace when the profile has some.
SessionRules(p) == IF p.session = {} THEN p.static ELSE CHOOSE r \in p.session : TRUE

UpdateConfig(rules) == config' = rules /\ legacy' = [legacy EXCEPT !.newer = FALSE]

\* A run begins: the profile is loaded the first time, the rules are built for the
\* workspace, the tools are sorted and the denials of the run before are cleared.
BeginRun ==
    LET p == IF base.base THEN file ELSE base
    IN  /\ execution.pc = "idle" /\ execution.number < MaxAgentRuns
        /\ base' = p /\ workdir' = Workspace
        /\ UpdateConfig(SessionRules(p))
        /\ execution' = [NoRun EXCEPT !.pc = "running", !.number = execution.number + 1,
                                !.promised = SessionRules(p), !.checked = p.checked,
                                !.disabled = p.disabled]
        /\ counts' = NoCounts /\ denialTracker' = NoDenials
        /\ UNCHANGED <<file, edits>>

\* load: a file that is newer replaces the rules.
Replaces == legacy.exists /\ legacy.newer
Loaded == IF Replaces THEN legacy.rules ELSE config
LoadConfig == config' = Loaded /\ legacy' = [legacy EXCEPT !.newer = FALSE]

-----------------------------------------------------------------------------
(* can_use_tool                                                            *)

\* sum(denial_counts.values()): so many denials, told apart by their tool and number.
Each(f) == UNION {{t} \X (1 .. f[t]) : t \in DOMAIN f}
SumOf(f) == Cardinality(Each(f))

\* A variant of Interrupts: each tool has its own limit, and there is no other.
InterruptsByTool(n, t) == n[t] >= MaxDenials

Interrupts(n, t) == n[t] >= MaxDenials \/ SumOf(n) >= 2 * MaxDenials

RecordDenial(interrupt) ==
    denialTracker' = [denials |-> denialTracker.denials + 1, interrupted |-> denialTracker.interrupted \/ interrupt]

\* The flag that would switch off the sandbox ends the run.
Bypass(c) ==
    /\ c.bypass /\ RecordDenial(TRUE)
    /\ UNCHANGED <<file, base, config, workdir, legacy, execution, counts, edits>>

Permit(c) ==
    /\ ~c.bypass /\ LoadConfig /\ Allows(Loaded, c)
    /\ execution' = [execution EXCEPT !.replaced = @ \/ Replaces,
                                      !.broken = @ \/ MatchesSome(c, execution.promised.deny)]
    /\ UNCHANGED <<file, base, workdir, counts, denialTracker, edits>>

Deny(c) ==
    LET n == [counts EXCEPT ![c.tool] = @ + 1]
    IN  /\ ~c.bypass /\ LoadConfig /\ ~Allows(Loaded, c)
        /\ counts' = n /\ RecordDenial(Interrupts(n, c.tool))
        /\ execution' = [execution EXCEPT !.replaced = @ \/ Replaces]
        /\ UNCHANGED <<file, base, workdir, edits>>

\* Only the tools that have to be checked ask; after an interrupt the agent stops.
CanUseTool(c) ==
    /\ execution.pc = "running" /\ ~denialTracker.interrupted
    /\ c.tool \in execution.checked \ execution.disabled
    /\ Bypass(c) \/ Permit(c) \/ Deny(c)

\* The run ends: FAILED when it was interrupted.  The session is cleared, the rules
\* are those of the profile.
EndRun ==
    /\ execution.pc = "running"
    /\ execution' = [execution EXCEPT !.pc = "idle", !.status = IF denialTracker.interrupted THEN "FAILED" ELSE "COMPLETE"]
    /\ UpdateConfig(base.static) /\ workdir' = AgentDir
    /\ UNCHANGED <<file, base, counts, denialTracker, edits>>

PermissionsNext ==
    \/ \E p \in Profiles : EditProfile(p)
    \/ \E r \in Legacy : SaveLegacy(r)
    \/ BeginRun \/ EndRun
    \/ \E c \in Calls : CanUseTool(c)

PermissionsSpec == PermissionsInit /\ [][PermissionsNext]_permissionsVars

-----------------------------------------------------------------------------
PermissionsTypeOK ==
    /\ file \in Profiles /\ base \in Profiles \union {NoProfile}
    /\ workdir \in {Workspace, AgentDir}
    /\ counts \in [CalledTools -> 0 .. MaxDenials] /\ execution.pc \in {"idle", "running"}

\* No use of a tool that has to be checked is permitted against a rule that denies it
\* in the profile with which the run began, unless a permissions.json has replaced it.
DenyRulesHold == execution.broken => execution.replaced

\* A run that goes on has been denied less than twice the limit in all.
StopsInTime == execution.pc = "running" /\ ~denialTracker.interrupted => denialTracker.denials < 2 * MaxDenials

\* "Set _last_modified to prevent reload from file" (permission_profiles.py:653): the
\* rules of the profile decide during the whole run.  They do not when someone writes a
\* permissions.json after that time.
ProfileDecides == ~execution.broken

=============================================================================
