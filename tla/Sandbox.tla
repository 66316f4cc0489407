------------------------------ MODULE Sandbox ------------------------------
(***************************************************************************)
(* The shell of the agent.  A command passes a filter, and runs in a       *)
(* namespace of its own whose directories are bound one by one when the    *)
(* command starts: the paths of a session have a third reader, besides the *)
(* validator and the resolver of PathResolution.                           *)
(***************************************************************************)
EXTENDS PathResolution

CONSTANTS
    Commands,     \* [program, args, background]: words; what runs on beside its main process
    RuleSets,     \* contents of the file of rules, or NotLoaded
    SkillScripts, \* arguments that are scripts of skills
    Unavailable   \* sources that may be missing

NotLoaded == [loaded |-> FALSE]

\* Rules in the order of the file: what they do and the commands they match.
SandboxAssumption ==
    /\ PathAssumption
    /\ \A set \in RuleSets \ {NotLoaded} : \A i \in DOMAIN set.list :
          set.list[i].action \in {"block", "record"} /\ set.list[i].matches \subseteq Commands
    /\ \A c \in Commands : c.background \subseteq {"loud", "quiet"}

ASSUME SandboxAssumption

VARIABLES
    filter,    \* the filter, loaded with the process
    boxMounts, \* the mounts of the run's sandbox, or Unboxed
    command,   \* the command that the tool waits for
    left       \* how the last command was left that still has processes

sandboxVars == <<pathVars, filter, boxMounts, command, left>>

Unboxed == <<>>
Nothing == <<"nothing">>
NoCommand == [procs |-> {}]
NothingLeft == [how |-> "none"]

SandboxInit ==
    /\ PathInit /\ filter \in RuleSets
    /\ boxMounts = Unboxed /\ command = NoCommand /\ left = NothingLeft

-----------------------------------------------------------------------------
(* The mounts                                                              *)

Mount(source, target, mode, optional) ==
    [source |-> source, target |-> target, mode |-> mode, optional |-> optional]

\* The session's mounts of the profile, in the order of the file.
SessionMounts ==
    <<Mount(WorkspaceDir, <<"workspace">>, "rw", FALSE),
      Mount(<<"users", "me", "venv">>, <<"venv">>, "ro", FALSE),
      Mount(<<"skills">>, <<"skills">>, "ro", FALSE),
      Mount(<<"users", "me", ".claude", "skills">>, UserSkills, "ro", TRUE),
      Mount(Base("ro"), Base("ro"), "ro", TRUE), Mount(Base("rw"), Base("rw"), "rw", TRUE),
      Mount(Persistent, <<"persistent">>, "rw", TRUE)>>

\* A variant of UserMount: all user mounts are put below the shared ones.
UserMountShared(k, m) ==
    LET area == IF k = "user-ro" THEN "ro" ELSE "rw" IN Mount(Base(k) \o <<m>>, Base(area) \o <<m>>, area, TRUE)

\* At the place where the links of the workspace lead.
UserMount(k, m) == Mount(Base(k) \o <<m>>, Base(k) \o <<m>>, IF k = "user-ro" THEN "ro" ELSE "rw", TRUE)

\* Those of the user that are there follow.
TableFor(user) ==
    LET There(k) == user[k] \intersect present[k]
    IN  SessionMounts \o SetToSeq(UNION {{UserMount(k, m) : m \in There(k)} : k \in Kinds})

\* The sandbox is set up with the mounts of one reading of the configuration, the
\* validator with those of another.  A profile may have no sandbox.
ConfigureRun ==
    /\ Configure
    /\ \E user \in UserMounts : boxMounts' \in {Unboxed, TableFor(user)}
    /\ UNCHANGED <<filter, command, left>>

SourceExists(source, lost) == source # lost /\ (\A k \in {"ro", "rw"} : source = Base(k) => bases[k])

\* build_bwrap_command: a mount that is not optional must be there; of those that
\* are bound the order stays.
Refuses(mounts, lost) == \E i \in DOMAIN mounts : ~SourceExists(mounts[i].source, lost) /\ ~mounts[i].optional
Bound(mounts, lost) == Restrict(mounts, {i \in DOMAIN mounts : SourceExists(mounts[i].source, lost)})

-----------------------------------------------------------------------------
(* The filter                                                              *)

\* An interpreter runs the script of a skill: its first argument that is not an option.
Trusted(c) ==
    LET args == SelectSeq(c.args, LAMBDA a : a # "-o")
    IN  c.program \in {"python", "bash"} /\ args # <<>> /\ args[1] \in SkillScripts

FirstMatch(c) == CHOOSE i \in DOMAIN filter.list :
    c \in filter.list[i].matches /\ \A j \in 1 .. i - 1 : c \notin filter.list[j].matches

\* Without rules nothing runs; a trusted script always does; the first rule decides.
ShouldBlock(c) ==
    \/ ~filter.loaded
    \/ /\ ~Trusted(c) /\ \E i \in DOMAIN filter.list : c \in filter.list[i].matches
       /\ filter.list[FirstMatch(c)].action = "block"

-----------------------------------------------------------------------------
(* The tool                                                                *)

\* A blocked command, and a sandbox that cannot be built, are errors: nothing runs.
\* What runs on in the background holds the output open, unless it is quiet.
StartCommand(c, lost) ==
    /\ session = "running" /\ command = NoCommand /\ ~ShouldBlock(c)
    /\ ~Refuses(boxMounts, lost)
    /\ command' = [boxed |-> boxMounts # Unboxed, mounts |-> Bound(boxMounts, lost),
                   procs |-> {"main"} \union c.background]
    /\ UNCHANGED <<pathVars, filter, boxMounts, left>>

\* A variant of Survivors: the sandbox shares the processes of the container.
SurvivorsShared(boxed, procs, died) == procs \ {died}

\* With the first process of the namespace all others end.
Survivors(boxed, procs, died) == IF boxed /\ died = "main" THEN {} ELSE procs \ {died}

\* A process ends, by itself or, where timeout may signal it, by timeout.
ProcessEnds(p) ==
    /\ p \in command.procs
    /\ command' = [command EXCEPT !.procs = Survivors(command.boxed, @, p)]
    /\ UNCHANGED <<pathVars, filter, boxMounts, left>>

Leave(how) ==
    /\ left' = IF command.procs = {} THEN left ELSE [boxed |-> command.boxed, how |-> how]
    /\ command' = NoCommand

\* The output ends when no process holds it: the tool writes the file and answers.
AnswerCommand ==
    /\ command # NoCommand /\ command.procs \subseteq {"quiet"} /\ Leave("answered")
    /\ UNCHANGED <<pathVars, filter, boxMounts>>

\* The output does not end in time.  What the tool kills is timeout, or the shell that
\* runs it; the command below, in the sandbox that of sudo, gets no signal.
AsyncTimeout ==
    /\ ~command.procs \subseteq {"quiet"} /\ Leave("timeout")
    /\ UNCHANGED <<pathVars, filter, boxMounts>>

\* Cancelled while it waits, the tool kills nothing.
CancelRun ==
    /\ CancelSession /\ Leave("cancelled")
    /\ boxMounts' = Unboxed /\ UNCHANGED filter

\* What was left ends by itself.
LeftEnds ==
    /\ left # NothingLeft /\ left' = NothingLeft
    /\ UNCHANGED <<pathVars, filter, boxMounts, command>>

CleanupRun ==
    /\ command = NoCommand /\ Cleanup
    /\ boxMounts' = Unboxed /\ UNCHANGED <<filter, command, left>>

RestartAll ==
    /\ Restart /\ filter' \in RuleSets
    /\ boxMounts' = Unboxed /\ command' = NoCommand /\ left' = NothingLeft

Around == UNCHANGED <<filter, boxMounts, command, left>>

SandboxNext ==
    \/ ConfigureRun \/ CancelRun \/ CleanupRun \/ RestartAll
    \/ \E k \in Kinds, S \in SUBSET Mounts : EditMounts(k, S) /\ Around
    \/ (CreateSession \/ FileRequest) /\ Around
    \/ \E t \in LinkTargets : AgentLinks(t) /\ Around
    \/ \E c \in Commands, lost \in Unavailable \union {Nothing} : StartCommand(c, lost)
    \/ \E p \in {"main", "loud", "quiet"} : ProcessEnds(p)
    \/ AnswerCommand \/ AsyncTimeout \/ LeftEnds

SandboxSpec == SandboxInit /\ [][SandboxNext]_sandboxVars

-----------------------------------------------------------------------------
SandboxTypeOK ==
    /\ PathTypeOK /\ filter \in RuleSets
    /\ command = NoCommand \/ command.procs \subseteq {"main", "loud", "quiet"}
    /\ left = NothingLeft \/ left \in [boxed : BOOLEAN, how : {"answered", "timeout", "cancelled"}]

\* The last mount that covers a path decides.
Covering(mounts, d) == {i \in DOMAIN mounts : IsPrefix(mounts[i].target, d)}
Topmost(mounts, d) == LET above == Covering(mounts, d) IN mounts[CHOOSE i \in above : \A j \in above : j <= i]

\* What the container has there.
Behind(mounts, d) ==
    IF Covering(mounts, d) = {} THEN Nothing
    ELSE LET m == Topmost(mounts, d) IN m.source \o Drop(d, Len(m.target))

\* The links of the workspace where the sandbox has them; they are followed inside it.
LinksSeen(mounts) ==
    LET under(i) == {l \in DOMAIN symlinks : IsPrefix(mounts[i].source, l)}
        places == UNION {{mounts[i].target \o Drop(l, Len(mounts[i].source)) : l \in under(i)} : i \in DOMAIN mounts}
    IN  [d \in {d \in places : Behind(mounts, d) \in DOMAIN symlinks} |-> symlinks[Behind(mounts, d)]]

\* What the command finds under a path: a place in the sandbox.
Seen(p, there) == Followed(Spelt(p), there)

\* A mount that was there when the session was made has its link.
Linked(p) ==
    LET n == Spelt(p)
    IN  External(n) /\ n[3] # "persistent" => WorkspaceDir \o SubSeq(n, 2, 4) \in DOMAIN symlinks

\* What the tools and a command have at the same path.
SeesSameFile(p, d, there) ==
    LET s == Seen(p, there)  f == Behind(command.mounts, s)
    IN  /\ f \in {Nothing, d}
        /\ f = d /\ ~IsPrefix(WorkspaceDir, d) /\ Below(ReadOnlyRoots(validator), d)
               => Topmost(command.mounts, s).mode = "ro"

\* The command and the tools mean the same file by the same path, if the command sees
\* one, and it cannot write in a mount that is read-only for them.  The skills of the
\* user are apart: UserSkillsAreSame.
BashSeesSameFile ==
    command # NoCommand /\ command.boxed => LET there == LinksSeen(command.mounts) IN \A p \in Paths :
        LET d == Validate(validator, p, FALSE)
        IN  Direct(p) /\ Linked(p) /\ d # Refused /\ ~IsPrefix(UserSkills, d) => SeesSameFile(p, d, there)

\* What the comment on the links of the skills says, and is not so: /user-skills is the
\* same mount for the tools and for a command.  Only the sandbox mounts it.
UserSkillsAreSame ==
    command # NoCommand /\ command.boxed => LET there == LinksSeen(command.mounts) IN \A p \in Paths :
        LET d == Validate(validator, p, FALSE)
        IN  Direct(p) /\ Linked(p) /\ d # Refused /\ IsPrefix(UserSkills, d) => SeesSameFile(p, d, there)

\* A command that has ended for the tool has left no process when it ran in the
\* sandbox: what it ran in the background, quiet or not, has ended with it.
NothingIsLeft == left # NothingLeft /\ left.boxed => left.how # "answered"

\* What the answer to a timeout says, and is not so: the command was forcibly killed.
TimeoutKills == left # NothingLeft => left.how # "timeout"

\* What the profile says: the persistent directory is reached by the workspace's link.
PersistentLinkLeads ==
    command # NoCommand /\ (\E i \in DOMAIN command.mounts : command.mounts[i].source = Persistent)
        => LET p == [abs |-> FALSE, parts |-> <<"external", "persistent">>]
           IN  Behind(command.mounts, Seen(p, LinksSeen(command.mounts))) = Persistent

=============================================================================
