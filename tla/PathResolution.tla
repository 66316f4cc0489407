--------------------------- MODULE PathResolution ---------------------------
(***************************************************************************)
(* The paths of a session.  Its tools ask a path validator, which follows  *)
(* the links in the workspace; the file explorer of the API asks a path    *)
(* resolver, which works on names only.  An agent run configures both, a   *)
(* request that finds no resolver configures one without the user's own    *)
(* mounts.  Both live in registries of the process, under the session.     *)
(*                                                                         *)
(* A path is a sequence of names; no name of the model begins with         *)
(* another one.                                                            *)
(***************************************************************************)
EXTENDS Naturals, FiniteSets, SequencesExt

CONSTANTS
    PathNames,    \* what paths consist of, besides ".."
    Mounts,       \* names of per-user mounts
    Optional,     \* those that need not be there
    Reachable,    \* those whose path on the host leads somewhere in the container too
    Hidden,       \* names that begin with a dot: the name without it, by name
    Blocklist,    \* names on the blocklist
    Paths,        \* [abs, parts]: the paths that are asked for
    LinkTargets,  \* where the agent may let a link of its own point
    SkillLinks,   \* what a run may link: "global" or "user", by the name of the skill
    MaxMountEdits \* bounds the changes of the mount configuration

Kinds == {"user-ro", "user-rw"}

VARIABLES
    allowed,   \* the mounts that the configuration gives the user, by kind
    present,   \* the mount points of the container, by kind
    bases,     \* whether /mounts/ro and /mounts/rw exist
    symlinks,  \* symbolic links in the workspace, by path
    session,   \* the session: "new", and its agent: "idle", "running"
    validator, \* _session_validators[session_id]
    resolver,  \* _session_resolvers[session_id]
    mountEdits \* bounds the changes of the configuration: so many so far

pathVars == <<allowed, present, bases, symlinks, session, validator, resolver, mountEdits>>

Refused == <<"refused">>
Unconfigured == [set |-> FALSE]
NoMounts == [k \in Kinds |-> {}]

Session == <<"users", "me", "sessions", "s">>
WorkspaceDir == Session \o <<"workspace">>
Persistent == <<"users", "me", "ag3ntum", "persistent">>
GlobalSkills == <<"skills", ".claude", "skills">>
UserSkills == <<"user-skills">>
SkillsDir == WorkspaceDir \o <<".claude", "skills">>
Base(kind) == <<"mounts", kind>>
External(n) == Len(n) > 2 /\ n[1] = "workspace" /\ n[2] = "external"
ExternalDir == WorkspaceDir \o <<"external">>
Own == WorkspaceDir \o <<"l">>
Drop(s, n) == SubSeq(s, n + 1, Len(s))

\* The names of the code; those of the sandbox begin with no dot.
CodeNames ==
    {"users", "me", "sessions", "s", "workspace", "external", "ag3ntum", "persistent", "venv",
     "skills", ".claude", "user-skills", "mounts", "ro", "rw", "user-ro", "user-rw", "l"}

\* Where a link leads is a path without links, and not the root.
PathAssumption ==
    /\ CodeNames \union Mounts \subseteq PathNames /\ ".." \notin PathNames
    /\ DOMAIN Hidden \intersect {"workspace", "external"} = {}
    /\ IsFiniteSet(Mounts) /\ Optional \subseteq Mounts /\ MaxMountEdits \in Nat
    /\ \A p \in Paths : p.abs \in BOOLEAN /\ p.parts \in Seq(PathNames \union {".."}) /\ p.parts # <<>>
    /\ \A t \in LinkTargets : /\ t \in Seq(PathNames) /\ t # <<>> /\ ~IsPrefix(Own, t)
                              /\ ~IsPrefix(ExternalDir, t) /\ ~IsStrictPrefix(SkillsDir, t)
    /\ \A s \in SkillLinks : DOMAIN s \subseteq PathNames /\ \A n \in DOMAIN s : s[n] \in {"global", "user"}

PathInit ==
    /\ allowed \in [Kinds -> SUBSET Mounts]
    /\ present \in [Kinds -> SUBSET Mounts] /\ bases \in [{"ro", "rw"} -> BOOLEAN]
    /\ symlinks = <<>> /\ session = "new"
    /\ validator = Unconfigured /\ resolver = Unconfigured /\ mountEdits = 0

-----------------------------------------------------------------------------
(* The resolver: names only                                                *)

\* ".." goes up, but not above the root.
Up(s) == IF s = <<>> THEN s ELSE Front(s)
StepTo(s, n) == IF n = ".." THEN Up(s) ELSE Append(s, n)

\* From the root along names, and on from where a link leads.
Followed(parts, to) ==
    LET at[i \in 0 .. Len(parts)] ==
            IF i = 0 THEN <<>>
            ELSE LET next == StepTo(at[i - 1], parts[i]) IN IF next \in DOMAIN to THEN to[next] ELSE next
    IN  at[Len(parts)]

NoLinks == <<>>
Lexical(parts) == Followed(parts, NoLinks)

\* lstrip("./") of a relative path takes every dot and slash it begins with.
Stripped(parts) ==
    LET rest == Drop(parts, Cardinality({i \in DOMAIN parts : \A j \in 1 .. i : parts[j] = ".."}))
    IN  IF rest # <<>> /\ rest[1] \in DOMAIN Hidden
        THEN <<Hidden[rest[1]]>> \o Tail(rest) ELSE rest

\* A relative path begins in the workspace.
Spelt(p) == IF p.abs THEN p.parts ELSE <<"workspace">> \o p.parts
Normalize(p) == Lexical(IF p.abs THEN p.parts ELSE <<"workspace">> \o Stripped(p.parts))

\* Below /workspace/external the third name is the area.
UserArea(n) == External(n) /\ Len(n) > 3 /\ n[3] \in Kinds

Mapping(sandbox, docker, mode, type) ==
    [sandbox |-> sandbox, docker |-> docker, mode |-> mode, type |-> type]

WorkspaceMapping == Mapping(<<"workspace">>, WorkspaceDir, "rw", "workspace")
PersistentMapping == Mapping(<<"workspace", "external", "persistent">>, Persistent, "rw", "persistent")
UserMapping(k, m) ==
    Mapping(<<"workspace", "external", k, m>>, Base(k) \o <<m>>, IF k = "user-ro" THEN "ro" ELSE "rw", k)

Mappings(r) ==
    {WorkspaceMapping, PersistentMapping,
     Mapping(<<"venv">>, <<"users", "me", "venv">>, "ro", "venv"),
     Mapping(<<"skills">>, <<"skills">>, "ro", "global_skills"),
     Mapping(UserSkills, UserSkills, "ro", "user_skills"),
     Mapping(Base("ro"), Base("ro"), "ro", "external_ro"),
     Mapping(Base("rw"), Base("rw"), "rw", "external_rw")}
    \union UNION {{UserMapping(k, m) : m \in r.user[k]} : k \in Kinds}

\* The mapping with the longest sandbox path of those that apply.
Longest(S) == CHOOSE m \in S : \A o \in S : Len(o.sandbox) <= Len(m.sandbox)
ForSandbox(r, n) == {m \in Mappings(r) : IsPrefix(m.sandbox, n)}
ForDocker(r, d) == {m \in Mappings(r) : IsPrefix(m.docker, d)}

ToDocker(r, n) ==
    CASE External(n) /\ n[3] \in {"ro", "rw"} -> Base(n[3]) \o Drop(n, 3)
      [] UserArea(n) /\ n[4] \notin r.user[n[3]] -> Refused
      [] OTHER -> LET m == Longest(ForSandbox(r, n))
                  IN  IF ForSandbox(r, n) = {} THEN Refused ELSE m.docker \o Drop(n, Len(m.sandbox))

ToSandbox(r, docker) ==
    LET d == Lexical(docker)  m == Longest(ForDocker(r, d))
    IN  IF ForDocker(r, d) = {} THEN Refused ELSE m.sandbox \o Drop(d, Len(m.docker))

MountType(r, n) ==
    CASE External(n) /\ n[3] = "persistent" -> "persistent"
      [] External(n) /\ n[3] \in {"ro", "rw"} -> IF n[3] = "ro" THEN "external_ro" ELSE "external_rw"
      [] UserArea(n) -> n[3]
      [] OTHER -> IF ForSandbox(r, n) = {} THEN "unknown" ELSE Longest(ForSandbox(r, n)).type

IsPathWritable(r, n) ==
    MountType(r, n) \in {"workspace", "persistent", "external_rw", "user-rw"}

-----------------------------------------------------------------------------
(* The validator: where the path really leads                              *)

\* Every link on the way is followed.
Resolve(d) == Followed(d, symlinks)

Root(root, rest, bounded) == [root |-> root, rest |-> rest, bounded |-> bounded]

\* A mount of the user, or what lies in the workspace under the same name.
UserStart(v, kind, n) ==
    IF n[4] \in v.user[kind] THEN Root(Base(kind) \o <<n[4]>>, Drop(n, 4), TRUE)
    ELSE Root(WorkspaceDir, Tail(n), FALSE)

\* Which directory the path starts from, and whether it has to stay below it.
StartOf(v, p) ==
    LET n == Spelt(p)
        plain == Root(WorkspaceDir, Tail(n), TRUE)
        area == n[3]  rest == Drop(n, 3)
        external == CASE area \in {"ro", "rw"} ->
                             IF v.base[area] THEN Root(Base(area), rest, TRUE)
                             ELSE UserStart(v, IF area = "ro" THEN "user-ro" ELSE "user-rw", n)
                      [] area = "persistent" -> Root(Persistent, rest, TRUE)
                      [] area \in Kinds -> UserStart(v, area, n)
                      [] OTHER -> plain
    IN  IF External(n) /\ Len(n) > 3 THEN external
        ELSE IF n[1] = "workspace" THEN [plain EXCEPT !.bounded = p.abs] ELSE Root(<<>>, n, FALSE)

\* A variant of NormalizePath: names only, as the resolver works.
NormalizePathNames(v, p) == LET s == StartOf(v, p) IN Lexical(s.root \o s.rest)

NormalizePath(v, p) ==
    LET s == StartOf(v, p)  d == Resolve(s.root \o s.rest)
    IN  IF s.bounded /\ ~IsPrefix(s.root, d) THEN Refused ELSE d

ForeignSession(d) ==
    Len(d) > 1 /\ d[1] = "users" /\ (d[2] # "me" \/ (Len(d) > 3 /\ d[3] = "sessions" /\ d[4] # "s"))

ReadOnlyRoots(v) ==
    {GlobalSkills, UserSkills} \union (IF v.base["ro"] THEN {Base("ro")} ELSE {})
    \union {Base("user-ro") \o <<m>> : m \in v.user["user-ro"]}
    \union {WorkspaceDir \o prefix : prefix \in {<<"skills">>, <<".claude">>, <<"external", "ro">>,
                                              <<"external", "user-ro">>}}
WritableRoots(v) ==
    {WorkspaceDir, Persistent} \union (IF v.base["rw"] THEN {Base("rw")} ELSE {})
    \union {Base("user-rw") \o <<m>> : m \in v.user["user-rw"]}

Below(roots, d) == \E r \in roots : IsPrefix(r, d)

\* validate_path: the file it names, or Refused.
Validate(v, p, writing) ==
    LET d == NormalizePath(v, p)
    IN  IF \/ d = Refused \/ ForeignSession(d)
           \/ ~Below(ReadOnlyRoots(v) \union WritableRoots(v), d)
           \/ d # <<>> /\ Last(d) \in Blocklist /\ ~Below({GlobalSkills, UserSkills}, d)
           \/ writing /\ Below(ReadOnlyRoots(v), d)
        THEN Refused ELSE d

-----------------------------------------------------------------------------
(* The file explorer                                                       *)

\* Leading slashes and "workspace/" go, "..", and links out of the workspace except
\* below external, are refused.
BrowsePath(p) ==
    LET n == IF p.parts[1] = "workspace" THEN Tail(p.parts) ELSE p.parts
        d == WorkspaceDir \o n
    IN  IF \/ Contains(n, "..")
           \/ ~(n # <<>> /\ n[1] = "external") /\ ~IsPrefix(WorkspaceDir, Resolve(d))
        THEN Refused ELSE n

ListedReadOnly(n) == Len(n) > 1 /\ n[1] = "external" /\ n[2] \in {"ro", "user-ro"}

\* resolve_file_path_for_session
ResolveFile(r, p) ==
    LET n == Normalize(p) IN [docker |-> ToDocker(r, n), type |-> MountType(r, n)]

\* A variant of MayDelete: the types as the listing names them.
MayDeleteListed(r, p) ==
    LET f == ResolveFile(r, p) IN f.docker # Refused /\ f.type # "ro"

MayDelete(r, p) ==
    LET f == ResolveFile(r, p)
    IN  f.docker # Refused /\ f.type \notin {"external_ro", "user-ro"}

-----------------------------------------------------------------------------
(* The life of the registries                                              *)

\* The administrator edits external-mounts.yaml.
EditMounts(k, S) ==
    /\ mountEdits < MaxMountEdits /\ mountEdits' = mountEdits + 1
    /\ allowed' = [allowed EXCEPT ![k] = S]
    /\ UNCHANGED <<present, bases, symlinks, session, validator, resolver>>

\* get_user_mounts
AllowedMounts == [k \in Kinds |-> allowed[k] \intersect (Reachable \union Optional)]

\* A file that cannot be read is a configuration without mounts.
UserMounts == {AllowedMounts, NoMounts}

PersistentLink == ExternalDir \o <<"persistent">>

\* setup_external_mounts: a link for every mount that is there.
LinksFor(user) ==
    LET there(k) == IF k \in Kinds THEN user[k] \intersect present[k] ELSE IF bases[k] THEN Mounts ELSE {}
        places == UNION {{ExternalDir \o <<k, m>> : m \in there(k)} : k \in {"ro", "rw"} \union Kinds}
    IN  [d \in places \union {PersistentLink} |->
            IF d = PersistentLink THEN Persistent ELSE Base(d[7]) \o <<d[8]>>]

\* These links are made when the session is, and never again.
CreateSession ==
    /\ session = "new" /\ session' = "idle"
    /\ \E user \in UserMounts : symlinks' = LinksFor(user)
    /\ UNCHANGED <<allowed, present, bases, validator, resolver, mountEdits>>

ResolverFor(user) == [set |-> TRUE, user |-> user]

\* configure_path_validator configures both.
ConfigureValidator(user) ==
    /\ validator' = [set |-> TRUE, user |-> user, base |-> bases]
    /\ resolver' = ResolverFor(user)

\* The directory of the skills goes, and what it has.
WithoutSkills == Restrict(symlinks, {d \in DOMAIN symlinks : ~IsPrefix(SkillsDir, d)})

SkillDir(owner, n) == (IF owner = "user" THEN UserSkills ELSE GlobalSkills) \o <<n>>

\* _setup_workspace_skills: it is made again, with a link for every skill.  One that
\* cannot be made is skipped, as if there were no such skill.
SkillLinked(skills) ==
    LET places == {SkillsDir \o <<n>> : n \in DOMAIN skills}
    IN  [d \in DOMAIN WithoutSkills \union places |->
            IF d \in places THEN SkillDir(skills[d[8]], d[8]) ELSE symlinks[d]]

\* The agent links the skills, if it is to have any, and reads the mounts again.
Configure ==
    /\ session = "idle" /\ session' = "running"
    /\ symlinks' \in {symlinks} \union {SkillLinked(skills) : skills \in SkillLinks}
    /\ \E user \in UserMounts : ConfigureValidator(user)
    /\ UNCHANGED <<allowed, present, bases, mountEdits>>

\* The end of a run removes both, and the links of the skills if it can.  A run that
\* is cancelled, or runs into its time limit, leaves them.
Cleanup ==
    /\ session = "running" /\ session' = "idle"
    /\ symlinks' \in {symlinks, WithoutSkills}
    /\ validator' = Unconfigured /\ resolver' = Unconfigured
    /\ UNCHANGED <<allowed, present, bases, mountEdits>>

CancelSession ==
    /\ session = "running" /\ session' = "idle"
    /\ UNCHANGED <<allowed, present, bases, symlinks, validator, resolver, mountEdits>>

\* A file request configures a resolver where none is, without user mounts.
FileRequest ==
    /\ session # "new" /\ resolver = Unconfigured /\ resolver' = ResolverFor(NoMounts)
    /\ UNCHANGED <<allowed, present, bases, symlinks, session, validator, mountEdits>>

AgentLinks(t) ==
    /\ session = "running" /\ Own \notin DOMAIN symlinks
    /\ symlinks' = [d \in DOMAIN symlinks \union {Own} |-> IF d = Own THEN t ELSE symlinks[d]]
    /\ UNCHANGED <<allowed, present, bases, session, validator, resolver, mountEdits>>

Restart ==
    /\ session # "new" /\ session' = "idle" /\ validator' = Unconfigured /\ resolver' = Unconfigured
    /\ UNCHANGED <<allowed, present, bases, symlinks, mountEdits>>

PathNext ==
    \/ \E k \in Kinds, S \in SUBSET Mounts : EditMounts(k, S)
    \/ CreateSession \/ Configure \/ Cleanup \/ CancelSession \/ FileRequest \/ Restart
    \/ \E t \in LinkTargets : AgentLinks(t)

PathSpec == PathInit /\ [][PathNext]_pathVars

-----------------------------------------------------------------------------
PathTypeOK ==
    /\ {allowed, present} \subseteq [Kinds -> SUBSET Mounts]
    /\ session \in {"new", "idle", "running"}
    /\ resolver = Unconfigured \/ resolver.user \in [Kinds -> SUBSET Mounts]
    /\ validator = Unconfigured \/ validator.user \in [Kinds -> SUBSET Mounts]

\* A file below /workspace that is spelt without "..", and in a configured mount if it
\* is below one.
Direct(p) ==
    LET n == Spelt(p)
    IN  /\ n[1] = "workspace" /\ ~Contains(n, "..")
        /\ External(n) => /\ Len(n) > 3
                          /\ n[3] \in {"ro", "rw"} => validator.base[n[3]]
                          /\ n[3] \in Kinds => n[4] \in validator.user[n[3]]

\* The resolver takes the dot from the beginning of a relative path.
Plain(p) == Direct(p) /\ ~(~p.abs /\ p.parts[1] \in DOMAIN Hidden)

\* While the agent runs, its tools and the file explorer mean the same file by the
\* same path, also through the agent's own links.
SameFile ==
    session = "running" => \A p \in Paths :
        LET d == Validate(validator, p, FALSE)
        IN  Plain(p) /\ d # Refused => Resolve(ToDocker(resolver, Normalize(p))) = d

\* What a tool may write is really outside every read-only mount, and the resolver
\* shows it as writable where it has a path for it.
WritesAreWritable ==
    session = "running" => \A p \in Paths :
        LET d == Validate(validator, p, TRUE)  n == ToSandbox(resolver, d)
        IN  d # Refused => /\ ~Below(ReadOnlyRoots(validator), Resolve(d))
                           /\ n # Refused => IsPathWritable(resolver, n)

\* The file explorer deletes no file that its listing shows as read-only.  Directories, as
\* the areas themselves, are never deleted; a relative path names what is in the workspace.
ListedIsKept ==
    resolver.set => \A p \in Paths :
        LET n == BrowsePath(p)
        IN  /\ n # Refused /\ ListedReadOnly(n) /\ Len(n) > 2
            /\ ~p.abs => p.parts[1] # "workspace"
            => ~MayDelete(resolver, p)

\* What is read-only for one is read-only for all.
ReadOnlyIsKept == WritesAreWritable /\ ListedIsKept

=============================================================================
