------------------------------- MODULE Skills -------------------------------
(***************************************************************************)
(* Skills: the directories in which they are looked for, the links that a  *)
(* run finds in its workspace, the tools made of skills with a script, the *)
(* subagents of a run, and the list that the API answers.  Skills come and *)
(* go while a run is on, and a run that is cancelled leaves its links.     *)
(*                                                                         *)
(* A link has the name of its skill, so that the place it leads to says    *)
(* all: "user" is /user-skills, "global" is /skills/.claude/skills, and    *)
(* "none" stands for a link that could not be made.  Tools                 *)
(* are looked for in "tools", the skills_dir of the run.                   *)
(***************************************************************************)
EXTENDS Integers, FiniteSets, SequencesExt

CONSTANTS
    SkillNames,       \* of directories, in alphabetical order
    ToolName,         \* title -> the name of its tool: - and . become _
    Catalog,          \* place and name -> what may be found there, or NoSkill
    SubagentConfigs,  \* subagents.yaml: name -> [enabled, tools, template, prompt]
    MaxSkillRuns      \* bounds the runs

NoSkill == [readable |-> FALSE]
NoText == "none"
Places == {"global", "user", "tools"}
Extensions == <<"py", "sh", "bash">>

(* A skill: its frontmatter is absent, broken, or gives a title and a      *)
(* description; its scripts are <<stem, extension>>.                       *)
SkillsAssumption ==
    /\ DOMAIN Catalog = Places \X ToSet(SkillNames)
    /\ \A s \in UNION {Catalog[d] : d \in DOMAIN Catalog} \ {NoSkill} :
           DOMAIN s = {"readable", "front", "title", "description", "scripts"}
    /\ MaxSkillRuns \in Nat

ASSUME SkillsAssumption

VARIABLES
    skills,      \* place and name -> the skill with a SKILL.md that is there, or NoSkill
    mode,        \* of the run: "off", "on", or "plain" without skills
    skillRuns,   \* how many there have been
    links,       \* workspace/.claude/skills: name -> place
    changed,     \* skills came or went since the run began
    skillTools,  \* of the run, in order: [tool, skill, script]
    agents,      \* SubagentManager: the definitions, once it has loaded them
    scripts,     \* <<tool, script>> that is being executed, in the sandbox
    orphans,     \* that still is, though nobody waits for it
    listed       \* the last answer of GET /skills

skillsVars == <<skills, mode, skillRuns, links, changed, skillTools, agents, scripts, orphans, listed>>

SkillsInit ==
    /\ skills = [d \in Places \X ToSet(SkillNames) |-> CHOOSE s \in Catalog[d] : s # NoSkill \/ Catalog[d] = {NoSkill}]
    /\ mode = "off" /\ skillRuns = 0 /\ links = << >> /\ changed = FALSE
    /\ skillTools = << >> /\ agents = << >> /\ scripts = {} /\ orphans = {} /\ listed = {}

-----------------------------------------------------------------------------
(* What is found                                                           *)

ListSkills(place) == {n \in ToSet(SkillNames) : skills[place, n] # NoSkill}

(* The user's skill overrides the global one of the same name. *)
Sources ==
    [n \in ListSkills("global") \cup ListSkills("user") |->
        IF n \in ListSkills("user") THEN "user" ELSE "global"]

Title(n, s) == IF s.front = "given" /\ s.title # "" THEN s.title ELSE n
Description(s) == IF s.front = "given" THEN s.description ELSE ""

(* Scripts named like the directory come first, then any, and within each  *)
(* of them python before sh before bash; the first match is arbitrary.     *)
Candidates(n, s) ==
    LET wanted == [i \in 1 .. 6 |->
            {f \in s.scripts : f[2] = Extensions[((i - 1) % 3) + 1] /\ (i <= 3 => f[1] = n)}]
        some == {i \in 1 .. 6 : wanted[i] # {}}
    IN  IF some = {} THEN {} ELSE wanted[CHOOSE i \in some : \A j \in some : i <= j]

(* The skills with a script, in the order of their names; one whose        *)
(* SKILL.md cannot be read is left out.                                    *)
ScriptSkills ==
    SelectSeq(SkillNames, LAMBDA n : n \in ListSkills("tools") /\ skills["tools", n].readable
                                /\ Candidates(n, skills["tools", n]) # {})

SkillTool(n, file) == LET t == Title(n, skills["tools", n]) IN [tool |-> ToolName[t], skill |-> n, script |-> file]

(* The server keeps one handler for each name of a tool, the last one. *)
Served(t) == CHOOSE i \in DOMAIN skillTools : skillTools[i].tool = t /\ \A j \in i + 1 .. Len(skillTools) : skillTools[j].tool # t

-----------------------------------------------------------------------------
(* Subagents                                                               *)

Prompt(c) ==
    IF c.template = "fine" THEN "rendered"
    ELSE IF c.prompt # NoText THEN c.prompt
    ELSE IF c.template = "broken" THEN "error" ELSE "unavailable"

LoadSubagents == [a \in DOMAIN SubagentConfigs |-> SubagentConfigs[a] @@ [rendered |-> Prompt(SubagentConfigs[a])]]

(* A disabled subagent is passed on, without tools. *)
AgentsDict ==
    [a \in DOMAIN agents |->
        [prompt |-> agents[a].rendered, tools |-> IF agents[a].enabled THEN agents[a].tools ELSE {}]]

-----------------------------------------------------------------------------
(* A run                                                                   *)

(* A variant of Setup: what is there already stays. *)
SetupKeeps == {[n \in DOMAIN links \cup DOMAIN Sources |-> IF n \in DOMAIN links THEN links[n] ELSE Sources[n]]}

(* Made anew, with a link for every skill; one that cannot be made is skipped. *)
Setup ==
    {made \in [DOMAIN Sources -> Places \cup {NoText}] : \A n \in DOMAIN made : made[n] \in {Sources[n], NoText}}

(* Each of them gets a tool, with one of its scripts. *)
MakeTools ==
    \E file \in [ToSet(ScriptSkills) -> UNION {s.scripts : s \in UNION {Catalog[d] : d \in DOMAIN Catalog} \ {NoSkill}}] :
        /\ \A n \in DOMAIN file : file[n] \in Candidates(n, skills["tools", n])
        /\ skillTools' = [i \in DOMAIN ScriptSkills |-> SkillTool(ScriptSkills[i], file[ScriptSkills[i]])]

(* Without skills nothing is touched, and what a cancelled run left stays. *)
StartRun(enabled) ==
    /\ mode = "off" /\ skillRuns < MaxSkillRuns
    /\ skillRuns' = skillRuns + 1
    /\ mode' = IF enabled THEN "on" ELSE "plain"
    /\ changed' = FALSE
    /\ links' \in IF enabled THEN Setup ELSE {links}
    /\ IF enabled THEN MakeTools ELSE skillTools' = << >>
    /\ agents' = IF agents = << >> THEN LoadSubagents ELSE agents
    /\ UNCHANGED <<skills, scripts, orphans, listed>>

(* If the links of an earlier run cannot be removed, the run ends at once. *)
FailStart ==
    /\ mode = "off" /\ skillRuns < MaxSkillRuns /\ links # << >>
    /\ skillRuns' = skillRuns + 1
    /\ \E kept \in SUBSET DOMAIN links : links' = Restrict(links, kept)
    /\ UNCHANGED <<skills, mode, changed, skillTools, agents, scripts, orphans, listed>>

CallTool(t) ==
    /\ mode = "on" /\ \A c \in scripts : c[1] # t
    /\ scripts' = scripts \cup {<<t, skillTools[Served(t)].script>>}
    /\ UNCHANGED <<skills, mode, skillRuns, links, changed, skillTools, agents, orphans, listed>>

(* A script that takes too long is no longer waited for, and not stopped.  *)
Reply(c, late) ==
    /\ c \in scripts
    /\ scripts' = scripts \ {c}
    /\ orphans' = IF late THEN orphans \cup {c} ELSE orphans
    /\ UNCHANGED <<skills, mode, skillRuns, links, changed, skillTools, agents, listed>>

(* What a script that nobody waits for comes to. *)
ScriptEnds(c) ==
    /\ c \in orphans
    /\ orphans' = orphans \ {c}
    /\ UNCHANGED <<skills, mode, skillRuns, links, changed, skillTools, agents, scripts, listed>>

(* The end of a run removes its links; a failure to do so is only logged. *)
CleanupWorkspaceSkills(fails) == links' = IF fails THEN links ELSE << >>

FinishRun(fails) ==
    /\ mode # "off" /\ scripts = {}
    /\ mode' = "off" /\ skillTools' = << >>
    /\ CleanupWorkspaceSkills(fails)
    /\ UNCHANGED <<skills, skillRuns, changed, agents, scripts, orphans, listed>>

(* A cancelled run removes nothing. *)
Cancel ==
    /\ mode # "off"
    /\ mode' = "off" /\ skillTools' = << >>
    /\ scripts' = {} /\ orphans' = orphans \cup scripts
    /\ UNCHANGED <<skills, skillRuns, links, changed, agents, listed>>

-----------------------------------------------------------------------------
(* The API, and what others do                                             *)

(* A skill that cannot be read is listed by the name of its directory. *)
Info(n) ==
    LET s == skills[Sources[n], n] IN
    [id |-> n, place |-> Sources[n],
     name |-> IF s.readable THEN Title(n, s) ELSE n,
     description |-> IF s.readable THEN Description(s) ELSE ""]

GetSkills ==
    /\ listed' = {Info(n) : n \in DOMAIN Sources}
    /\ UNCHANGED <<skills, mode, skillRuns, links, changed, skillTools, agents, scripts, orphans>>

Install(d, s) ==
    /\ s \in Catalog[d] /\ s # skills[d]
    /\ skills' = [skills EXCEPT ![d] = s]
    /\ changed' = TRUE /\ listed' = {}
    /\ UNCHANGED <<mode, skillRuns, links, skillTools, agents, scripts, orphans>>

SkillsNext ==
    \/ \E enabled \in BOOLEAN : StartRun(enabled)
    \/ \E i \in DOMAIN skillTools : CallTool(skillTools[i].tool)
    \/ \E c \in scripts, late \in BOOLEAN : Reply(c, late)
    \/ \E c \in orphans : ScriptEnds(c)
    \/ \E fails \in BOOLEAN : FinishRun(fails)
    \/ FailStart \/ Cancel \/ GetSkills
    \/ \E d \in DOMAIN Catalog : \E s \in Catalog[d] : Install(d, s)

SkillsSpec == SkillsInit /\ [][SkillsNext]_skillsVars

-----------------------------------------------------------------------------
(* Properties                                                              *)

(* Every variable keeps its type. *)
SkillsTypeOK ==
    /\ skills \in [DOMAIN Catalog -> UNION {Catalog[d] : d \in DOMAIN Catalog}]
    /\ mode \in {"off", "on", "plain"} /\ skillRuns \in 0 .. MaxSkillRuns /\ changed \in BOOLEAN
    /\ DOMAIN links \subseteq ToSet(SkillNames) /\ {links[n] : n \in DOMAIN links} \subseteq Places \cup {NoText}
    /\ \A i \in DOMAIN skillTools : skillTools[i].skill \in ToSet(SkillNames)
    /\ agents = << >> \/ DOMAIN AgentsDict = DOMAIN SubagentConfigs
    /\ \A l \in listed : l.id \in ToSet(SkillNames)

(* While no skill comes or goes, the links of a run with skills are those  *)
(* of the skills that the API lists, but for one that could not be made,   *)
(* and each leads to the directory that the API described, whatever the    *)
(* runs before it left in the workspace (agent_core.py:482, skills.py:76). *)
LinksAreListed ==
    mode = "on" /\ ~changed /\ listed # {} =>
        /\ DOMAIN links = {l.id : l \in listed}
        /\ \A l \in listed : links[l.id] \in {l.place, NoText}

=============================================================================
