------------------------------ MODULE MCSystem ------------------------------
(***************************************************************************)
(* Parts that share no state, checked in one run: a behaviour is one of    *)
(* one of them.  The bounds are those of this module and of its .cfg; the  *)
(* values are chosen so that the cases that the properties are about       *)
(* happen.                                                                 *)
(*                                                                         *)
(* The modules of which theorems speak are extended: their variables keep  *)
(* their initial values in a behaviour of another part.                    *)
(***************************************************************************)
EXTENDS Integers, FiniteSets, Sequences, TLC, AskUser, Accounts, SessionStore,
        UserEvents, Skills, Files, Permissions, AgentRun, FileTools, Documents,
        Sandbox

CONSTANTS w1, w2  \* two callers

(* Nothing tells one of them from the other. *)
Workers == {w1, w2}
Symmetry == Permutations(Workers)

(* Files: two names, of which the second looks like a temporary file. *)
TwoNames == {[base |-> "a", copies |-> <<>>, tmp |-> t] : t \in {0, 1}}

(* Sandbox: a path in each area, hidden names, ways up and out, a link.    *)
HiddenNames == (".h" :> "h") @@ (".claude" :> "claude")
InArea(areas, rest) == {<<"workspace", "external", a>> \o rest : a \in areas}
Path(abs, parts) == [abs |-> abs, parts |-> parts]
AskedPaths ==
    {Path(TRUE, t) : t \in
         InArea({"ro", "rw", "persistent", "user-ro", "user-rw"}, <<"m", "f">>)
         \cup InArea({"ro", "user-ro"}, <<"f">>) \cup {<<"workspace", "f">>}}
    \cup {Path(TRUE, <<"workspace">> \o t) : t \in
              {<<"external", "ro", "m", "..", "..", "rw", "m">>, <<".claude", "f">>,
               <<"m", "..", "..", "e">>, <<"l", "f">>}}
    \cup {Path(TRUE, t) : t \in
              {<<"mounts", "ro", "m", "f">>, <<"skills", ".claude", "skills", "f">>,
               <<"user-skills", "f">>, <<"users", "you", "f">>}}
    \cup {Path(FALSE, t) : t \in
              {<<".h">>, <<".claude", "skills", "g", "f">>, <<".claude", "skills", "u", "f">>,
               <<"l", "..", "f">>, <<"l", "f">>, <<"external", "user-rw", "m", "f">>,
               <<"external", "ro", "m", "f">>}}
AllNames == CodeNames \cup {"m", "f", "e", ".h", "h", "claude", "you", "g", "u"}
LinksTo == {<<"mounts", "ro", "m">>, WorkspaceDir \o <<".claude">>}
VenvMayBeMissing == {<<"users", "me", "venv">>}
OwnAndGlobal == {("g" :> "global") @@ ("u" :> "user")}
Command(t, b) == [program |-> "python", args |-> <<"-o">> \o t, background |-> b]
ShellCommands == {Command(<<"x">>, {"quiet"}), Command(<<"s">>, {"loud"}), Command(<<"x", "s">>, {})}
FilterRules ==
    {[loaded |-> FALSE],
     [loaded |-> TRUE,
      list |-> <<[action |-> "record", matches |-> {Command(<<"x">>, {"quiet"})}],
                 [action |-> "block", matches |-> {Command(<<"s">>, {"loud"}), Command(<<"x", "s">>, {})}]>>]}

(* Permissions: rules that a directory, an extension, a command or an      *)
(* operator decides, and a profile that allows what no rule names; a       *)
(* permissions.json that someone writes denies everything, or allows what  *)
(* no rule names.                                                          *)
At(abs, parts, ext) == [abs |-> abs, parts |-> parts, ext |-> ext]
WriteTo(p) == [tool |-> "Write", bypass |-> FALSE, path |-> p]
Bash(program, path, word, operators) ==
    [tool |-> "Bash", bypass |-> FALSE, operators |-> operators, program |-> program, word |-> word, path |-> path]
Fetch(bypass) == [tool |-> "Fetch", bypass |-> bypass]
ToolCalls ==
    {WriteTo(At(FALSE, <<"out", "f">>, "md")), WriteTo(At(FALSE, <<"src", "f">>, "py")),
     WriteTo(At(TRUE, <<"etc", "f">>, "md")), Bash("ls", {At(FALSE, <<"src">>, "")}, "", FALSE),
     Bash("rm", {}, "", FALSE), Bash("rm", {}, "x", FALSE), Bash("rm", {}, "x", TRUE), Fetch(FALSE), Fetch(TRUE)}
Within(abs, place, ext) == [any |-> FALSE, abs |-> abs, dir |-> place, ext |-> ext]
OnPath(p) == [tool |-> "Write", kind |-> "path", path |-> p]
OnCommand(program, path, word) ==
    [tool |-> "Bash", kind |-> "command", program |-> program, path |-> path, word |-> word]
EveryUse(tool) == [tool |-> tool, kind |-> "any"]
OfSession ==
    Rules(<<OnPath(Within(FALSE, <<"out">>, "")), OnCommand("*", {}, "")>>,
          <<OnPath(Within(FALSE, <<>>, "py")), OnCommand("rm", {}, "*")>>, FALSE)
Static == Rules(<<OnPath([any |-> TRUE]), OnCommand("ls", {Within(FALSE, <<"src">>, "")}, "")>>, <<>>, FALSE)
Lax ==
    Rules(<<[tool |-> "Fetch", kind |-> "name"]>>,
          <<EveryUse("Fetch"), OnCommand("ls", {Within(TRUE, <<"etc">>, "")}, "")>>, TRUE)
DenyAll == Rules(<<>>, <<EveryUse("Write"), EveryUse("Bash"), EveryUse("Fetch")>>, FALSE)
LegacyFiles == {DenyAll, Lax}
Profile(static, ofSession) ==
    [base |-> FALSE, static |-> static, session |-> ofSession, checked |-> {"Write", "Bash", "Fetch"}, disabled |-> {}]
TwoProfiles == {Profile(Static, {OfSession}), Profile(Lax, {})}

(* AgentRun: a plain text, a header with a text.                           *)
SubagentTexts == {<<"p", "p">>}
AgentTexts == {<<"s", "p">>, <<"h", "e", "p">>}

(* FileTools: edits of one file, of two, twice of the same.                *)
Change(f, old, new) == [file |-> f, old |-> old, new |-> new]
ChangeLists ==
    {<<Change("f", "a", "b")>>, <<Change("f", "a", "b"), Change("g", "b", "a")>>,
     <<Change("f", "a", "b"), Change("f", "b", "a")>>}
FileContents == {<<>>, <<"a", "b">>, <<"a", "a">>, <<"b", "secret">>}
InDir(kind, hidden, matches) == [kind |-> kind, hidden |-> hidden, matches |-> matches]
Open(matches) == InDir("file", FALSE, matches)
Concealed == InDir("file", TRUE, TRUE)
Listings ==
    {<<>>, <<Concealed>>} \cup
    {<<x, y, Open(TRUE)>> : x \in {Concealed, Open(TRUE)}, y \in {Concealed, Open(TRUE), Open(FALSE)}}
    \cup {<<Open(TRUE), InDir(k, FALSE, TRUE), Open(TRUE)>> : k \in {"dir", "broken", "unreadable"}}

(* Documents: two documents with the same first bytes and the same size,   *)
(* of one path and of two, pages that need OCR, an archive, a table longer *)
(* than what is loaded.                                                    *)
ExtensionOf == ("pdf" :> "pdf") @@ ("twin" :> "pdf") @@ ("zip" :> "archive") @@ ("csv" :> "tabular")
Document(kind, head, size) ==
    [kind |-> kind, head |-> head, size |-> size, body |-> kind, pages |-> <<>>, rows |-> 0, members |-> <<>>]
Member(name, size, isDir) ==
    [name |-> name, size |-> size, dir |-> isDir, link |-> FALSE, banned |-> FALSE, body |-> <<name, size>>]
DocCatalog ==
    [pdf1 |-> [Document("pdf", "h", 2) EXCEPT !.pages = <<"scan", "a", "scan">>],
     pdf2 |-> [Document("pdf", "h", 2) EXCEPT !.pages = <<"scan", "b", "scan">>],
     tar |-> [Document("tar", "z", 1) EXCEPT !.members = <<Member("d", 0, TRUE), Member("m", 1, FALSE)>>],
     csv |-> [Document("text", "t", 1) EXCEPT !.rows = 4]]
VersionsAt == ("pdf" :> {"pdf1", "pdf2"}) @@ ("twin" :> {"pdf2"}) @@ ("zip" :> {"tar"}) @@ ("csv" :> {"csv"})
Request == [hint |-> "none", pages |-> {}, rows |-> [how |-> "all"], mode |-> "list", member |-> "none"]
DocRequests ==
    ("pdf" :> {Request, [Request EXCEPT !.pages = {<<2, 3>>}]})
    @@ ("twin" :> {Request})
    @@ ("zip" :> {[Request EXCEPT !.mode = "extract", !.member = "m"]})
    @@ ("csv" :> {[Request EXCEPT !.rows = [how |-> "tail", from |-> 0, n |-> 2]]})

(* Skills: two directories whose tools have one name, a skill of the user  *)
(* that hides a global one, one that cannot be read, several scripts.      *)
Skill(front, title, description, runnable) ==
    [readable |-> TRUE, front |-> front, title |-> title, description |-> description, scripts |-> runnable]
Scripted == Skill("given", "A", "d", {<<"x", "sh">>, <<"y", "sh">>, <<"z", "bash">>})
TwoSkills == <<"a-b", "a.b">>
SkillCatalog ==
    (<<"global", "a-b">> :> {Skill("given", "", "g", {})})
    @@ (<<"global", "a.b">> :> {NoSkill, [Scripted EXCEPT !.readable = FALSE]})
    @@ (<<"user", "a-b">> :> {NoSkill, Skill("given", "", "u", {})})
    @@ (<<"user", "a.b">> :> {NoSkill})
    @@ (<<"tools", "a-b">> :> {Scripted})
    @@ (<<"tools", "a.b">> :> {NoSkill, Skill("broken", "", "", {<<"a.b", "sh">>, <<"y", "py">>})})
ToolNames == ("A" :> "skill_a") @@ ("a-b" :> "skill_a_b") @@ ("a.b" :> "skill_a_b")
Subagent(enabled, template) == [enabled |-> enabled, tools |-> {"Read"}, template |-> template, prompt |-> "none"]
Templates == ("general-purpose" :> Subagent(TRUE, "fine")) @@ ("Bash" :> Subagent(FALSE, "broken"))

(* SessionScan: a plugin, a custom pattern that finds what is longer, and  *)
(* one for passwords, of which a prefix is no part of the secret.          *)
Lies(depth, readonly) == [depth |-> depth, readonly |-> readonly, skipped |-> FALSE, extension |-> TRUE]
Place == ("f" :> Lies(0, FALSE)) @@ ("g" :> Lies(1, FALSE)) @@ ("r" :> Lies(1, TRUE))
Pattern(prefix, class, least, whole, plugin) ==
    [prefix |-> <<prefix>>, class |-> class, least |-> least, whole |-> whole, plugin |-> plugin]
Finders ==
    <<Pattern("a", {"b"}, 1, TRUE, TRUE), Pattern("k", {"a", "b"}, 2, TRUE, FALSE),
      Pattern("p", {"k", "a", "b", "*", "p", "escape"}, 2, FALSE, FALSE)>>
ScanTexts ==
    {<<"k", "a", "b", "a", "b">>, <<"p", "a", "a", "_", "k", "b", "a", "a">>, <<"0", "a", "b">>,
     <<"raw", "a", "b", "crlf", "0">>}
Payloads == {<<"quote", "escape", "quote", "p", "a", "a", "escape", "quote", "quote">>}
VARIABLES
    part,   \* the part that takes steps
    x_files, x_scan, x_alerts, x_row, x_written, x_scans

scaVars ==
    <<x_files, x_scan, x_alerts, x_row, x_written, x_scans>>
recordVars == <<askVars, accountsVars, storeVars, eventsVars>>
agentVars == <<skillsVars, filesVars, permissionsVars, runVars, toolsVars, documentsVars, sandboxVars>>
vars == <<part, recordVars, agentVars, scaVars>>

-----------------------------------------------------------------------------
Sca == INSTANCE SessionScan WITH
    Files <- DOMAIN Place, Place <- Place, Finders <- Finders,
    FalsePositives <- {<<"a", "b", "b">>}, MinLength <- 2, Format <- "asterisk", Overhead <- 1,
    MaxDepth <- 1, MaxFiles <- 1, MaxSize <- 8, ChunkSize <- 4, Texts <- ScanTexts, Payloads <- Payloads,
    MaxWrites <- 2, MaxScans <- 2, files <- x_files, scan <- x_scan, alerts <- x_alerts,
    row <- x_row, written <- x_written, scans <- x_scans

ASSUME Sca!SessionScanAssumption

-----------------------------------------------------------------------------
(* A behaviour is one of the part that takes steps; the variables of the   *)
(* other parts keep one value, those of the scan none.  The sandbox begins *)
(* with the mount m of either kind, which the configuration may lose later;*)
(* what has no influence on one another is varied one by one.              *)
None == 0
NoSca ==
    /\ x_files = None /\ x_scan = None /\ x_alerts = None /\ x_row = None /\ x_written = None
    /\ x_scans = None

NoMountIsThere ==
    /\ allowed = NoMounts /\ present = NoMounts /\ ~bases["ro"] /\ ~bases["rw"] /\ ~filter.loaded

MountsAreThere ==
    /\ present["user-ro"] = {"m"} /\ bases["rw"] /\ \A k \in Kinds : allowed[k] = {"m"}
    /\ bases["ro"] => present["user-rw"] = {"m"}
    /\ ~filter.loaded => bases["ro"]

Init ==
    /\ part \in {"ask", "accounts", "store", "files", "sandbox", "permissions", "run", "tools",
                "documents", "events", "skills", "scan"}
    /\ AskInit /\ AccountsInit /\ StoreInit /\ EventsInit
    /\ SkillsInit /\ FilesInit /\ PermissionsInit /\ RunInit /\ ToolsInit /\ DocumentsInit /\ SandboxInit
    /\ part # "run" => ~run.partial
    /\ part # "tools" => files = [f \in FileNames |-> <<>>]
    /\ part # "documents" => DocName("pdf") = "pdf1"
    /\ IF part = "sandbox" THEN MountsAreThere ELSE NoMountIsThere
    /\ IF part = "scan" THEN Sca!Init ELSE NoSca

AskStep ==
    /\ part = "ask" /\ AskNext
    /\ UNCHANGED <<part, accountsVars, storeVars, eventsVars, agentVars, scaVars>>

AccountStep ==
    /\ part = "accounts" /\ AccountsNext
    /\ UNCHANGED <<part, askVars, storeVars, eventsVars, agentVars, scaVars>>

StoreStep ==
    /\ part = "store" /\ StoreNext
    /\ UNCHANGED <<part, askVars, accountsVars, eventsVars, agentVars, scaVars>>

EventStep ==
    /\ part = "events" /\ EventsNext
    /\ UNCHANGED <<part, askVars, accountsVars, storeVars, agentVars, scaVars>>

SkillStep ==
    /\ part = "skills" /\ SkillsNext
    /\ UNCHANGED <<part, filesVars, permissionsVars, runVars, toolsVars, documentsVars, sandboxVars, recordVars, scaVars>>

FileStep ==
    /\ part = "files" /\ FilesNext
    /\ UNCHANGED <<part, skillsVars, permissionsVars, runVars, toolsVars, documentsVars, sandboxVars, recordVars, scaVars>>

PermissionStep ==
    /\ part = "permissions" /\ PermissionsNext
    /\ UNCHANGED <<part, skillsVars, filesVars, runVars, toolsVars, documentsVars, sandboxVars, recordVars, scaVars>>

RunStep ==
    /\ part = "run" /\ RunNext
    /\ UNCHANGED <<part, skillsVars, filesVars, permissionsVars, toolsVars, documentsVars, sandboxVars, recordVars, scaVars>>

ToolStep ==
    /\ part = "tools" /\ ToolsNext
    /\ UNCHANGED <<part, skillsVars, filesVars, permissionsVars, runVars, documentsVars, sandboxVars, recordVars, scaVars>>

BoxStep ==
    /\ part = "sandbox" /\ SandboxNext
    /\ UNCHANGED <<part, skillsVars, filesVars, permissionsVars, runVars, toolsVars, documentsVars, recordVars, scaVars>>

DocStep ==
    /\ part = "documents" /\ DocumentsNext
    /\ UNCHANGED <<part, skillsVars, filesVars, permissionsVars, runVars, toolsVars, sandboxVars, recordVars, scaVars>>

ScaStep ==
    /\ part = "scan" /\ Sca!Next
    /\ UNCHANGED <<part, recordVars, agentVars>>

Next ==
    \/ AskStep
    \/ AccountStep
    \/ StoreStep
    \/ EventStep
    \/ SkillStep
    \/ FileStep
    \/ PermissionStep
    \/ RunStep
    \/ ToolStep
    \/ BoxStep
    \/ DocStep
    \/ ScaStep

Spec == Init /\ [][Next]_vars

-----------------------------------------------------------------------------
(* The variables of the part that takes steps keep their types; those of   *)
(* the others have the value that they began with.                         *)
TypeOK ==
    /\ part = "ask" => AskTypeOK
    /\ part = "accounts" => AccountsTypeOK
    /\ part = "store" => StoreTypeOK
    /\ part = "events" => EventsTypeOK
    /\ part = "skills" => SkillsTypeOK
    /\ part = "files" => FilesTypeOK
    /\ part = "permissions" => PermissionsTypeOK
    /\ part = "run" => RunTypeOK
    /\ part = "tools" => ToolsTypeOK
    /\ part = "sandbox" => SandboxTypeOK
    /\ part = "documents" => DocumentsTypeOK
    /\ part = "scan" => Sca!TypeOK

(* Masking changes nothing of a file but its secrets, and a file that is   *)
(* reported as masked has none of those that were reported until somebody  *)
(* writes it (session_scanner.py, sensitive_data_scanner.py).              *)
OnlySecretsGo ==
    [][part = "scan" => Sca!OnlySecretsChange /\ Sca!ReportedIsMasked']_scaVars
=============================================================================
