---------------------------- MODULE ServiceProofs ----------------------------
(***************************************************************************)
(* Theorems about what an agent and its user are given: the events of a    *)
(* user, skills, uploaded files, what documents show.                      *)
(***************************************************************************)
EXTENDS UserEvents, Skills, Files, Documents, FiniteSetTheorems, WellFoundedInduction,
        TLAPS

-----------------------------------------------------------------------------
(* The stream of a user's sessions                                         *)

\* What was told is of sessions that the last read returned, and whatever the
\* last list had was told.
ToldIsKnown == DOMAIN told \subseteq DOMAIN known /\ active \subseteq DOMAIN told
EventsInv == StatusIsTold /\ ToldIsKnown

LEMMA PollTells ==
    ASSUME EventsInv, Poll
    PROVE  EventsInv'
<1> DEFINE due == {t \in SeenSessions : ListIsDue \/ t \in Changed \/ t \in DOMAIN told}
<1>1. DOMAIN known' = SeenSessions /\ \A s \in SeenSessions : known'[s] = stored[s].status
  BY DEF Poll
<1>2. /\ DOMAIN told' = due
      /\ \A s \in due : told'[s] = IF ListIsDue \/ s \in Changed THEN stored[s] ELSE told[s]
  BY DEF Poll
<1>3. active' = SeenActive /\ SeenActive \subseteq SeenSessions
  BY DEF Poll, ListIsDue, SeenActive
<1>4. SeenActive \subseteq due
  BY <1>3 DEF ListIsDue, EventsInv, ToldIsKnown
<1>5. ToldIsKnown'
  BY <1>1, <1>2, <1>3, <1>4 DEF ToldIsKnown
<1>6. ASSUME NEW s \in SeenSessions, s \in due \/ stored[s].status \in ActiveStatuses
      PROVE  s \in due /\ told'[s].status = stored[s].status
  <2>1. s \in due
    BY <1>4, <1>6 DEF SeenActive
  <2>2. CASE ListIsDue \/ s \in Changed
    BY <1>2, <2>1, <2>2
  <2>3. CASE ~ListIsDue /\ s \notin Changed
    <3>1. s \in DOMAIN told /\ told'[s] = told[s]
      BY <1>2, <2>1, <2>3
    <3>2. s \in DOMAIN known /\ known[s] = stored[s].status
      BY <2>3, <3>1 DEF EventsInv, ToldIsKnown, Changed
    <3>3. told[s].status = known[s]
      BY <3>1, <3>2 DEF EventsInv, StatusIsTold
    <3>4. QED
      BY <2>1, <3>1, <3>2, <3>3
  <2>4. QED
    BY <2>2, <2>3
<1>7. StatusIsTold'
  BY <1>1, <1>2, <1>6 DEF StatusIsTold
<1>8. QED
  BY <1>5, <1>7 DEF EventsInv

\* What the client was told of a session is the status of the last read, whatever
\* reads failed in between, and of a running or queued one it was told (auth.py:163).
THEOREM StatusesAreTold == EventsSpec => []StatusIsTold
<1>1. EventsInit => EventsInv
  BY DEF EventsInit, Connected, EventsInv, StatusIsTold, ToldIsKnown
<1>2. EventsInv /\ [EventsNext]_eventsVars => EventsInv'
  <2> SUFFICES ASSUME EventsInv, [EventsNext]_eventsVars PROVE EventsInv'
    OBVIOUS
  <2>1. CASE UNCHANGED <<known, active, told>>
    BY <2>1 DEF EventsInv, StatusIsTold, ToldIsKnown
  <2>2. CASE Connect
    BY <2>2 DEF Connect, EventsInv, StatusIsTold, ToldIsKnown
  <2>3. CASE Poll
    BY <2>3, PollTells
  <2>4. CASE PollFails \/ Disconnect
    BY <2>1, <2>4 DEF PollFails, Disconnect
  <2>5. ASSUME NEW s \in Sessions, Create(s) \/ RunSession(s) \/ End(s) PROVE EventsInv'
    BY <2>1, <2>5 DEF Create, RunSession, End, Store, stream
  <2>6. ASSUME NEW s \in Sessions, NEW p \in 1 .. MaxPlace, Enqueue(s, p) \/ MoveUp(s, p)
        PROVE  EventsInv'
    BY <2>1, <2>6 DEF Enqueue, MoveUp, Store, stream
  <2>7. QED
    BY <2>1, <2>2, <2>3, <2>4, <2>5, <2>6 DEF EventsNext, eventsVars
<1>3. EventsInv => StatusIsTold
  BY DEF EventsInv
<1>4. QED
  BY <1>1, <1>2, <1>3, PTL DEF EventsSpec

-----------------------------------------------------------------------------
(* Skills of a run                                                         *)

\* An answer of the API, and the links of a run with skills, are of what there is.
Offered == {Info(n) : n \in DOMAIN Sources}
ListedIsThere == listed = {} \/ listed = Offered
LinksAreSources == mode = "on" /\ ~changed => links \in Setup
SkillsInv == ListedIsThere /\ LinksAreSources

\* What there is depends on the directories alone.
LEMMA SourcesKept ==
    ASSUME UNCHANGED skills
    PROVE  Sources' = Sources /\ Offered' = Offered /\ Setup' = Setup
<1>1. ListSkills("user")' = ListSkills("user") /\ ListSkills("global")' = ListSkills("global")
  BY DEF ListSkills
<1>2. Sources' = Sources
  BY <1>1 DEF Sources
<1>3. Offered' = Offered
  BY <1>2 DEF Offered, Info, Title, Description
<1>4. Setup' = Setup
  BY <1>2 DEF Setup
<1>5. QED
  BY <1>2, <1>3, <1>4

\* The links of a run are those of the skills that the API lists, to the directories
\* that the API described, but for one that could not be made, whatever the runs before
\* it left (agent_core.py:482).
THEOREM LinksFollowTheList == SkillsSpec => []LinksAreListed
<1>1. SkillsInit => SkillsInv
  BY DEF SkillsInit, SkillsInv, ListedIsThere, LinksAreSources
<1>2. SkillsInv /\ [SkillsNext]_skillsVars => SkillsInv'
  <2> SUFFICES ASSUME SkillsInv, [SkillsNext]_skillsVars PROVE SkillsInv'
    OBVIOUS
  <2> USE DEF SkillsInv, ListedIsThere, LinksAreSources
  <2>1. CASE UNCHANGED <<skills, links, changed, listed>> /\ mode' \in {mode, "off"}
    BY <2>1, SourcesKept
  <2>2. ASSUME NEW enabled \in BOOLEAN, StartRun(enabled) PROVE SkillsInv'
    BY <2>2, SourcesKept DEF StartRun
  <2>3. ASSUME NEW fails \in BOOLEAN, FinishRun(fails) PROVE SkillsInv'
    BY <2>3, SourcesKept DEF FinishRun
  <2>4. CASE Cancel
    BY <2>1, <2>4 DEF Cancel
  <2>f. CASE FailStart
    <3>1. UNCHANGED <<skills, changed, listed, mode>> /\ mode = "off"
      BY <2>f DEF FailStart
    <3>2. QED
      BY <3>1, SourcesKept
  <2>5. CASE GetSkills
    <3>1. listed' = Offered
      BY <2>5 DEF GetSkills, Offered
    <3>2. QED
      BY <2>5, <3>1, SourcesKept DEF GetSkills
  <2>6. ASSUME NEW d \in DOMAIN Catalog, NEW s \in Catalog[d], Install(d, s) PROVE SkillsInv'
    BY <2>6 DEF Install
  <2>7. ASSUME NEW t, CallTool(t) PROVE SkillsInv'
    BY <2>1, <2>7 DEF CallTool
  <2>8. ASSUME NEW c, NEW late \in BOOLEAN, Reply(c, late) \/ ScriptEnds(c) PROVE SkillsInv'
    BY <2>1, <2>8 DEF Reply, ScriptEnds
  <2>9. CASE UNCHANGED skillsVars
    BY <2>1, <2>9 DEF skillsVars
  <2>10. QED
    BY <2>2, <2>3, <2>4, <2>f, <2>5, <2>6, <2>7, <2>8, <2>9 DEF SkillsNext
<1>3. SkillsInv => LinksAreListed
  <2> SUFFICES ASSUME SkillsInv, mode = "on", ~changed, listed # {}
               PROVE  /\ DOMAIN links = {l.id : l \in listed}
                      /\ \A l \in listed : links[l.id] \in {l.place, NoText}
    BY DEF LinksAreListed
  <2>1. listed = Offered /\ links \in Setup
    BY DEF SkillsInv, ListedIsThere, LinksAreSources
  <2>3. DOMAIN links = DOMAIN Sources /\ \A n \in DOMAIN Sources : links[n] \in {Sources[n], NoText}
    BY <2>1 DEF Setup
  <2>2. \A n \in DOMAIN Sources : Info(n).id = n /\ Info(n).place = Sources[n]
    BY DEF Info
  <2>4. QED
    BY <2>1, <2>2, <2>3 DEF Offered
<1>4. QED
  BY <1>1, <1>2, <1>3, PTL DEF SkillsSpec

-----------------------------------------------------------------------------
(* Uploads                                                                 *)

File == [name : Originals, size : Sizes]
Fields == DOMAIN NoUpload

\* An upload has a file to write, or is idle.
UploadTypes ==
    \A u \in Uploads :
        /\ DOMAIN upload[u] = Fields /\ upload[u].pc \in {"idle", "name", "read"}
        /\ upload[u].files \in Seq(File) /\ (upload[u].pc # "idle" => upload[u].files # << >>)
        /\ upload[u].total \in Nat /\ upload[u].since \in 0 .. version

\* Whoever is there under the name that an upload found free came later.
LaterThanSeen ==
    \A u \in Uploads :
        upload[u].pc = "read" /\ ~upload[u].overwrite /\ Exists(upload[u].target) =>
            disk[upload[u].target] > upload[u].since

FilesInv ==
    /\ version \in Nat /\ (\A n \in DOMAIN disk : disk[n] \in Nat)
    /\ DOMAIN upload = Uploads /\ UploadTypes /\ LaterThanSeen /\ UploadFits

LEMMA FieldsAre ==
    Fields = {"pc", "files", "overwrite", "used", "total", "target", "since", "done"}
BY DEF Fields, NoUpload

\* What is left of the files of an upload after one of them.
LEMMA FollowingIs ==
    ASSUME NEW up, DOMAIN up = Fields, up.files \in Seq(File), up.files # << >>
    PROVE  /\ DOMAIN Following(up) = Fields
           /\ Following(up).pc \in {"idle", "name"} /\ Following(up).files \in Seq(File)
           /\ Following(up).pc # "idle" => Following(up).files # << >>
           /\ Following(up).total = up.total /\ Following(up).since = up.since
<1>1. DOMAIN Following(up) = Fields
  BY FieldsAre DEF Following
<1>2. Following(up).files = Tail(up.files)
  BY FieldsAre DEF Following
<1>3. Tail(up.files) \in Seq(File) /\ Len(Tail(up.files)) = Len(up.files) - 1 /\ Len(up.files) # 0
  OBVIOUS
<1>4. Following(up).pc = IF Len(up.files) = 1 THEN "idle" ELSE "name"
  BY FieldsAre DEF Following
<1>5. Following(up).total = up.total /\ Following(up).since = up.since
  BY FieldsAre DEF Following
<1>6. Len(up.files) # 1 => Tail(up.files) # << >>
  <2> SUFFICES ASSUME Tail(up.files) = << >> PROVE Len(up.files) = 1
    OBVIOUS
  <2>1. Len(Tail(up.files)) = 0
    <3>1. \A t \in Seq(File) : t = << >> => Len(t) = 0
      OBVIOUS
    <3>2. QED
      BY <1>3, <3>1
  <2>2. Len(up.files) \in Nat
    OBVIOUS
  <2>3. QED
    BY <1>3, <2>1, <2>2
<1>7. Following(up).pc \in {"idle", "name"} /\ (Following(up).pc # "idle" => Len(up.files) # 1)
  BY <1>4
<1>8. QED
  BY <1>1, <1>2, <1>3, <1>5, <1>6, <1>7

\* One that fits is small, and what redaction makes of it is not too much.
LEMMA RedactedFits ==
    ASSUME NEW size \in Nat, size <= MaxFile, NEW total \in Nat, total + size <= MaxTotal,
           NEW s \in RedactedSizes(size)
    PROVE  s \in Nat /\ total + s <= MaxTotal + (Growth - 1) * MaxFile
<1>1. MaxFile \in Nat /\ MaxTotal \in Nat /\ Growth \in Nat \ {0}
  BY FilesAssumption DEF FilesAssumption
<1> DEFINE more == Growth - 1
<1>2. more \in Nat /\ Growth = more + 1
  BY <1>1
<1> HIDE DEF more
<1>3. more * size \in Nat /\ more * size <= more * MaxFile /\ more * MaxFile \in Nat
  <2>1. PICK rest \in Nat : MaxFile = size + rest
    <3>1. MaxFile - size \in Nat /\ MaxFile = size + (MaxFile - size)
      BY <1>1
    <3>2. QED
      BY <3>1
  <2>2. more * MaxFile = more * size + more * rest
    BY <1>2, <2>1
  <2>3. more * size \in Nat /\ more * rest \in Nat
    BY <1>2, <2>1
  <2>4. QED
    BY <2>2, <2>3
<1>4. Growth * size = more * size + size
  BY <1>2
<1>5. s = size \/ s = more * size + size
  BY <1>4 DEF RedactedSizes
<1>6. s \in Nat /\ total + s <= MaxTotal + more * MaxFile
  BY <1>1, <1>3, <1>5
<1>7. more = Growth - 1
  BY DEF more
<1>8. QED
  BY <1>6, <1>7

LEMMA NoneFits == 0 <= MaxTotal + (Growth - 1) * MaxFile
<1>1. MaxTotal \in Nat /\ MaxFile \in Nat /\ Growth - 1 \in Nat
  BY FilesAssumption DEF FilesAssumption
<1>2. \A a, b \in Nat : a * b \in Nat
  OBVIOUS
<1>3. (Growth - 1) * MaxFile \in Nat
  BY <1>1, <1>2
<1>4. \A a, b \in Nat : 0 <= a + b
  OBVIOUS
<1>5. QED
  BY <1>1, <1>3, <1>4

\* A step of upload u alone.
LEMMA UploadMoves ==
    ASSUME FilesInv, NEW u \in Uploads,
           DOMAIN upload' = Uploads, \A v \in Uploads \ {u} : upload'[v] = upload[v],
           version' \in Nat, version <= version',
           \A n \in DOMAIN disk' : disk'[n] \in Nat,
           \A n \in DOMAIN disk' : (n \in DOMAIN disk /\ disk'[n] = disk[n]) \/ disk'[n] > version,
           DOMAIN upload'[u] = Fields, upload'[u].pc \in {"idle", "name", "read"},
           upload'[u].files \in Seq(File), upload'[u].pc # "idle" => upload'[u].files # << >>,
           upload'[u].total \in Nat, upload'[u].since \in 0 .. version',
           upload'[u].total <= MaxTotal + (Growth - 1) * MaxFile,
           upload'[u].pc = "read" /\ ~upload'[u].overwrite
              /\ upload'[u].target \in DOMAIN disk' =>
                 disk'[upload'[u].target] > upload'[u].since
    PROVE  FilesInv'
<1>1. UploadTypes'
  BY DEF FilesInv, UploadTypes
<1>2. UploadFits'
  BY DEF FilesInv, UploadFits
<1>3. LaterThanSeen'
  <2> SUFFICES ASSUME NEW v \in Uploads, upload'[v].pc = "read", ~upload'[v].overwrite,
                      upload'[v].target \in DOMAIN disk'
               PROVE  disk'[upload'[v].target] > upload'[v].since
    BY DEF LaterThanSeen, Exists
  <2>1. CASE v = u
    BY <2>1
  <2>2. CASE v # u
    <3>1. upload'[v] = upload[v] /\ upload[v].since \in 0 .. version
      BY <2>2 DEF FilesInv, UploadTypes
    <3>2. CASE disk'[upload[v].target] > version
      BY <3>1, <3>2 DEF FilesInv
    <3>3. CASE upload[v].target \in DOMAIN disk /\ disk'[upload[v].target] = disk[upload[v].target]
      BY <3>1, <3>3 DEF FilesInv, LaterThanSeen, Exists
    <3>4. QED
      BY <3>1, <3>2, <3>3
  <2>3. QED
    BY <2>1, <2>2
<1>4. QED
  BY <1>1, <1>2, <1>3 DEF FilesInv

\* A step of the agent or of another request.
LEMMA OthersMove ==
    ASSUME FilesInv, UNCHANGED upload, version' \in Nat, version <= version',
           \A n \in DOMAIN disk' : disk'[n] \in Nat,
           \A n \in DOMAIN disk' : (n \in DOMAIN disk /\ disk'[n] = disk[n]) \/ disk'[n] > version
    PROVE  FilesInv'
<1>1. UploadTypes' /\ UploadFits'
  BY DEF FilesInv, UploadTypes, UploadFits
<1>2. LaterThanSeen'
  <2> SUFFICES ASSUME NEW v \in Uploads, upload[v].pc = "read", ~upload[v].overwrite,
                      upload[v].target \in DOMAIN disk'
               PROVE  disk'[upload[v].target] > upload[v].since
    BY DEF LaterThanSeen, Exists
  <2>1. upload[v].since \in 0 .. version
    BY DEF FilesInv, UploadTypes
  <2>2. CASE disk'[upload[v].target] > version
    BY <2>1, <2>2 DEF FilesInv
  <2>3. CASE upload[v].target \in DOMAIN disk /\ disk'[upload[v].target] = disk[upload[v].target]
    BY <2>1, <2>3 DEF FilesInv, LaterThanSeen, Exists
  <2>4. QED
    BY <2>2, <2>3
<1>3. QED
  BY <1>1, <1>2 DEF FilesInv

LEMMA BeginKeeps ==
    ASSUME FilesInv, NEW u \in Uploads, NEW files \in Requests, NEW overwrite \in BOOLEAN,
           UploadBegin(u, files, overwrite)
    PROVE  FilesInv'
<1> DEFINE begun == [NoUpload EXCEPT !.pc = "name", !.files = files, !.overwrite = overwrite]
<1>1. /\ DOMAIN upload' = Uploads /\ \A v \in Uploads \ {u} : upload'[v] = upload[v]
      /\ upload'[u] = begun
  BY DEF UploadBegin, FilesInv
<1>2. /\ DOMAIN begun = Fields /\ begun.pc = "name" /\ begun.files = files
      /\ begun.total = 0 /\ begun.since = 0
  BY FieldsAre DEF NoUpload
<1>3. files \in Seq(File) /\ files # << >>
  <2>1. PICK n \in 1 .. MaxFiles : files \in [1 .. n -> File]
    BY DEF Requests, File
  <2>2. n \in Nat /\ n # 0
    OBVIOUS
  <2>3. files \in Seq(File) /\ Len(files) = n
    BY <2>1, <2>2
  <2>4. QED
    BY <2>2, <2>3
<1>4. 0 <= MaxTotal + (Growth - 1) * MaxFile
  BY NoneFits
<1>5. UNCHANGED <<disk, version>>
  BY DEF UploadBegin
<1> HIDE DEF begun
<1>6. QED
  BY <1>1, <1>2, <1>3, <1>4, <1>5, UploadMoves DEF FilesInv

LEMMA NameKeeps ==
    ASSUME FilesInv, NEW u \in Uploads, UploadName(u)
    PROVE  FilesInv'
<1> DEFINE up == upload[u]
           sent == Head(up.files).name
           target == IF sent \in up.used THEN UniqueName(sent) ELSE sent
           named == [up EXCEPT !.used = @ \union {target}]
           read == [named EXCEPT !.pc = "read", !.target = target, !.since = version]
<1>1. /\ DOMAIN up = Fields /\ up.pc = "name" /\ up.files \in Seq(File) /\ up.files # << >>
      /\ up.total \in Nat /\ up.since \in 0 .. version
      /\ up.total <= MaxTotal + (Growth - 1) * MaxFile
  BY DEF FilesInv, UploadTypes, UploadFits, UploadName
<1>2. /\ DOMAIN upload' = Uploads /\ \A v \in Uploads \ {u} : upload'[v] = upload[v]
      /\ \/ upload'[u] = Following(up)
         \/ upload'[u] = Following(named)
         \/ (Exists(target) => up.overwrite) /\ upload'[u] = read
      /\ UNCHANGED <<disk, version>>
  BY DEF UploadName, FilesInv
<1> HIDE DEF up, target
<1>3. /\ DOMAIN named = Fields /\ named.files = up.files /\ named.total = up.total
      /\ named.since = up.since
  BY <1>1, FieldsAre
<1>4. /\ DOMAIN read = Fields /\ read.pc = "read" /\ read.files = up.files
      /\ read.total = up.total /\ read.since = version /\ read.target = target
      /\ read.overwrite = up.overwrite
  BY <1>1, FieldsAre
<1> HIDE DEF named, read
<1>5. CASE upload'[u] = Following(up)
  <2>1. /\ DOMAIN Following(up) = Fields
        /\ Following(up).pc \in {"idle", "name"} /\ Following(up).files \in Seq(File)
        /\ Following(up).pc # "idle" => Following(up).files # << >>
        /\ Following(up).total = up.total /\ Following(up).since = up.since
    BY <1>1, FollowingIs
  <2>2. QED
    BY <1>1, <1>2, <1>5, <2>1, UploadMoves DEF FilesInv
<1>6. CASE upload'[u] = Following(named)
  <2>1. upload'[u] = Following(named)
    BY <1>6
  <2>2. /\ DOMAIN Following(named) = Fields
        /\ Following(named).pc \in {"idle", "name"} /\ Following(named).files \in Seq(File)
        /\ Following(named).pc # "idle" => Following(named).files # << >>
        /\ Following(named).total = named.total /\ Following(named).since = named.since
    BY <1>1, <1>3, FollowingIs
  <2>3. QED
    BY <1>1, <1>2, <1>3, <2>1, <2>2, UploadMoves DEF FilesInv
<1>7. CASE (Exists(target) => up.overwrite) /\ upload'[u] = read
  <2>1. upload'[u] = read
    BY <1>7
  <2>2. version \in 0 .. version
    BY DEF FilesInv
  <2>3. ~up.overwrite => target \notin DOMAIN disk
    BY <1>7 DEF Exists
  <2>4. QED
    BY <1>1, <1>2, <1>4, <2>1, <2>2, <2>3, UploadMoves DEF FilesInv
<1>8. QED
  BY <1>2, <1>5, <1>6, <1>7

\* Redaction and the limits; the file is there under its name, with a new content.
LEMMA WriteKeeps ==
    ASSUME FilesInv, NEW u \in Uploads, UploadWrite(u)
    PROVE  FilesInv'
<1> DEFINE up == upload[u]
           size == Head(up.files).size
           limit == MaxTotal + (Growth - 1) * MaxFile
<1>1. /\ DOMAIN up = Fields /\ up.files \in Seq(File) /\ up.files # << >>
      /\ up.total \in Nat /\ up.since \in 0 .. version /\ up.total <= limit
      /\ version \in Nat /\ \A n \in DOMAIN disk : disk[n] \in Nat
  BY DEF FilesInv, UploadTypes, UploadFits, UploadWrite
<1>2. size \in Nat
  <2>1. Head(up.files) \in File
    BY <1>1
  <2>2. MaxFile \in Nat
    BY FilesAssumption DEF FilesAssumption
  <2>3. QED
    BY <2>1, <2>2 DEF File, Sizes
\* The upload goes on without the file.
<1>3. ASSUME upload' = [upload EXCEPT ![u] = Following(up)], UNCHANGED version,
             \A n \in DOMAIN disk' : n \in DOMAIN disk /\ disk'[n] = disk[n]
      PROVE  FilesInv'
  <2>1. /\ DOMAIN upload' = Uploads /\ \A v \in Uploads \ {u} : upload'[v] = upload[v]
        /\ upload'[u] = Following(up)
    BY <1>3 DEF FilesInv
  <2>2. /\ DOMAIN Following(up) = Fields
        /\ Following(up).pc \in {"idle", "name"} /\ Following(up).files \in Seq(File)
        /\ Following(up).pc # "idle" => Following(up).files # << >>
        /\ Following(up).total = up.total /\ Following(up).since = up.since
    BY <1>1, FollowingIs
  <2> HIDE DEF up, limit
  <2>3. limit = MaxTotal + (Growth - 1) * MaxFile
    BY DEF limit
  <2>4. QED
    BY <1>1, <1>3, <2>1, <2>2, <2>3, UploadMoves
<1>4. CASE ~Fits(up, size) /\ upload' = [upload EXCEPT ![u] = Following(up)]
           /\ UNCHANGED <<disk, version>>
  BY <1>3, <1>4
<1>5. CASE upload' = [upload EXCEPT ![u] = Following(up)] /\ disk' = Without(Temp(up.target))
           /\ UNCHANGED version
  <2>1. \A n \in DOMAIN disk' : n \in DOMAIN disk /\ disk'[n] = disk[n]
    BY <1>5 DEF Without
  <2>2. QED
    BY <1>3, <1>5, <2>1
<1>6. ASSUME Fits(up, size), version' = version + 1, NEW s \in RedactedSizes(size),
             upload' = [upload EXCEPT ![u] = Following([up EXCEPT !.total = @ + s,
                                                                   !.done = @ + 1])],
             disk' = [m \in (DOMAIN disk \ {Temp(up.target)}) \union {up.target} |->
                         IF m = up.target THEN version + 1 ELSE disk[m]]
      PROVE  FilesInv'
  <2> DEFINE more == [up EXCEPT !.total = @ + s, !.done = @ + 1]
  <2>1. DOMAIN more = Fields /\ more.files = up.files /\ more.total = up.total + s
        /\ more.since = up.since
    BY <1>1, FieldsAre
  <2>2. s \in Nat /\ up.total + s <= limit
    BY <1>1, <1>2, <1>6, RedactedFits DEF Fits
  <2>3. /\ DOMAIN upload' = Uploads /\ \A v \in Uploads \ {u} : upload'[v] = upload[v]
        /\ upload'[u] = Following(more)
    BY <1>6 DEF FilesInv
  <2>4. \A n \in DOMAIN disk' : (n \in DOMAIN disk /\ disk'[n] = disk[n]) \/ disk'[n] > version
    BY <1>1, <1>6
  <2>5. version' \in Nat /\ version <= version' /\ \A n \in DOMAIN disk' : disk'[n] \in Nat
    BY <1>1, <1>6
  <2> HIDE DEF more
  <2>6. /\ DOMAIN Following(more) = Fields
        /\ Following(more).pc \in {"idle", "name"} /\ Following(more).files \in Seq(File)
        /\ Following(more).pc # "idle" => Following(more).files # << >>
        /\ Following(more).total = more.total /\ Following(more).since = more.since
    BY <1>1, <2>1, FollowingIs
  <2> HIDE DEF up, limit
  <2>7. Following(more).total \in Nat /\ Following(more).total <= limit
        /\ Following(more).since \in 0 .. version'
    BY <1>1, <1>6, <2>1, <2>2, <2>6
  <2>8. limit = MaxTotal + (Growth - 1) * MaxFile
    BY DEF limit
  <2>9. QED
    BY <2>3, <2>4, <2>5, <2>6, <2>7, <2>8, UploadMoves
<1>7. QED
  BY <1>4, <1>5, <1>6 DEF UploadWrite

\* What UploadWrite does to the files.
LEMMA WriteSpares ==
    ASSUME FilesInv, NEW u \in Uploads, UploadWrite(u), ~upload[u].overwrite, NEW n \in DOMAIN disk
    PROVE  \/ n \in DOMAIN disk' /\ disk'[n] = disk[n]
           \/ disk[n] > upload[u].since
           \/ n = Temp(upload[u].target)
<1>1. CASE n = upload[u].target
  BY <1>1 DEF FilesInv, LaterThanSeen, UploadWrite, Exists
<1>2. CASE n # upload[u].target /\ n # Temp(upload[u].target)
  BY <1>2 DEF UploadWrite, Without
<1>3. QED
  BY <1>1, <1>2

LEMMA FilesStep == FilesInv /\ [FilesNext]_filesVars => FilesInv'
<1> SUFFICES ASSUME FilesInv, [FilesNext]_filesVars PROVE FilesInv'
  OBVIOUS
<1>1. ASSUME NEW u \in Uploads, NEW files \in Requests, NEW overwrite \in BOOLEAN,
             UploadBegin(u, files, overwrite)
      PROVE  FilesInv'
  BY <1>1, BeginKeeps
<1>2. ASSUME NEW u \in Uploads, UploadName(u) \/ UploadWrite(u) PROVE FilesInv'
  BY <1>2, NameKeeps, WriteKeeps
<1>3. ASSUME NEW n, AgentWrites(n) PROVE FilesInv'
  <2>1. version' = version + 1 /\ UNCHANGED upload /\ version \in Nat
    BY <1>3 DEF AgentWrites, FilesInv
  <2>2. \A m \in DOMAIN disk' : (m \in DOMAIN disk /\ disk'[m] = disk[m]) \/ disk'[m] = version + 1
    BY <1>3 DEF AgentWrites, With
  <2>3. \A m \in DOMAIN disk : disk[m] \in Nat
    BY DEF FilesInv
  <2>4. QED
    BY <2>1, <2>2, <2>3, OthersMove
<1>4. ASSUME NEW n, DeleteFile(n) PROVE FilesInv'
  BY <1>4, OthersMove DEF DeleteFile, Without, FilesInv
<1>5. CASE UNCHANGED <<disk, version, upload>>
  BY <1>5, OthersMove DEF FilesInv
<1>6. ASSUME NEW r, NEW n, DownloadFind(r, n) \/ DownloadSend(r) PROVE FilesInv'
  BY <1>5, <1>6 DEF DownloadFind, DownloadSend
<1>7. CASE UNCHANGED filesVars
  BY <1>5, <1>7 DEF filesVars
<1>8. QED
  BY <1>1, <1>2, <1>3, <1>4, <1>6, <1>7 DEF FilesNext

\* An upload that may not overwrite spares what was there when it looked, and the files
\* of one request fit the limit for all of them, but for what redaction adds to the last
\* (routes/files.py:1014), for any number of uploads that are under way.
THEOREM UploadsAreRuled == FilesSpec => UploadsKeepRules
<1>1. FilesInit => FilesInv
  <2> SUFFICES ASSUME FilesInit PROVE FilesInv
    OBVIOUS
  <2>1. DOMAIN upload = Uploads /\ (\A u \in Uploads : upload[u] = NoUpload) /\ version = 0
    BY DEF FilesInit
  <2>2. /\ DOMAIN NoUpload = Fields /\ NoUpload.pc = "idle" /\ NoUpload.files \in Seq(File)
        /\ NoUpload.total = 0 /\ NoUpload.since = 0
    BY DEF NoUpload, Fields
  <2>3. 0 <= MaxTotal + (Growth - 1) * MaxFile
    BY NoneFits
  <2>4. UploadTypes /\ LaterThanSeen /\ UploadFits
    BY <2>1, <2>2, <2>3 DEF UploadTypes, LaterThanSeen, UploadFits
  <2>5. version \in Nat /\ \A n \in DOMAIN disk : disk[n] \in Nat
    <3>1. disk = << >> /\ version = 0
      BY DEF FilesInit
    <3>2. Len(disk) = 0 /\ disk \in Seq(Nat)
      BY <3>1
    <3>3. QED
      BY <3>1, <3>2
  <2>6. QED
    BY <2>1, <2>4, <2>5 DEF FilesInv
<1>2. FilesInv /\ [FilesNext]_filesVars => FilesInv'
  BY FilesStep
<1>3. FilesInv /\ FilesInv' /\ [FilesNext]_filesVars => [FilesAreSpared /\ UploadFits']_filesVars
  <2> SUFFICES ASSUME FilesInv, FilesInv' PROVE FilesAreSpared /\ UploadFits'
    OBVIOUS
  <2>1. FilesAreSpared
    BY WriteSpares DEF FilesAreSpared
  <2>2. QED
    BY <2>1 DEF FilesInv
<1>4. QED
  BY <1>1, <1>2, <1>3, PTL DEF FilesSpec, UploadsKeepRules

-----------------------------------------------------------------------------
(* What documents show                                                     *)

\* Of what a key was made.
LEMMA KeyParts ==
    ASSUME NEW p, NEW doc, NEW m, NEW r, NEW q, NEW e, NEW n, NEW s,
           Key(p, doc, m, r) = Key(q, e, n, s)
    PROVE  /\ Category(p, doc, r.hint) = Category(q, e, s.hint)
           /\ doc.head = e.head /\ doc.size = e.size /\ m = n
           /\ r.pages = s.pages /\ r.rows = s.rows /\ r.mode = s.mode /\ r.member = s.member
<1> DEFINE k == Key(p, doc, m, r)
           l == Key(q, e, n, s)
<1>1. k.category = l.category /\ k.head = l.head /\ k.size = l.size /\ k.mtime = l.mtime
      /\ k.args = l.args
  OBVIOUS
<1>2. /\ k.category = Category(p, doc, r.hint) /\ l.category = Category(q, e, s.hint)
      /\ k.head = doc.head /\ l.head = e.head /\ k.size = doc.size /\ l.size = e.size
      /\ k.mtime = m /\ l.mtime = n
  BY DEF Key
<1>3. k.args = <<r.pages, r.rows, r.mode, r.member>> /\ l.args = <<s.pages, s.rows, s.mode, s.member>>
  BY DEF Key
<1>4. r.pages = s.pages /\ r.rows = s.rows /\ r.mode = s.mode /\ r.member = s.member
  BY <1>1, <1>3
<1>5. QED
  BY <1>1, <1>2, <1>4

\* A call shows the same of the same document as another one with the same key.
LEMMA SameKeyShowsSame ==
    ASSUME NEW p, NEW doc, NEW m, NEW r, NEW n, NEW s, NEW slow,
           Key(p, doc, m, r) = Key(p, doc, n, s)
    PROVE  Extraction(Key(p, doc, m, r).category, p, doc, r, slow) = Extraction(Category(p, doc, s.hint), p, doc, s, slow)
<1>1. /\ Category(p, doc, r.hint) = Category(p, doc, s.hint)
      /\ r.pages = s.pages /\ r.rows = s.rows /\ r.mode = s.mode /\ r.member = s.member
  BY KeyParts
<1>2. Key(p, doc, m, r).category = Category(p, doc, r.hint)
  BY DEF Key
<1>3. QED
  BY <1>1, <1>2 DEF Extraction
-----------------------------------------------------------------------------
(* Which document an entry of the cache is of                              *)

\* A document is named by its path and the time of its last change; a time is given once,
\* but for the documents that were there at first.
StampsTell ==
    /\ now \in Nat \ {0}
    /\ DOMAIN documents = DocPaths
    /\ \A p \in DocPaths : DocName(p) \in Versions[p] /\ Mtime(p) \in Nat /\ Mtime(p) < now
    /\ \A p, q \in DocPaths : p # q /\ Mtime(p) = Mtime(q) => Mtime(p) = 0

\* A call has the key of the document as it was when it began.
CallFits(c) ==
    /\ reads[c].path \in DocPaths
    /\ reads[c].req \in ReadRequests[reads[c].path]
    /\ \E d \in Versions[reads[c].path], m \in Nat :
          /\ reads[c].key = Key(reads[c].path, DocTable[d], m, reads[c].req)
          /\ m <= Mtime(reads[c].path)
          /\ m = Mtime(reads[c].path) => d = DocName(reads[c].path)
          /\ \A q \in DocPaths : q # reads[c].path /\ Mtime(q) = m => m = 0
CallsFit == DOMAIN reads = DocReaders /\ \A c \in DocReaders : reads[c] # NoRead => CallFits(c)

\* An entry answers for the documents that have its key now, if there are any.
EntryFits(k, shown) ==
    /\ \E p, d, m, r : k = Key(p, d, m, r) /\ m \in Nat /\ m < now
    /\ \A q \in DocPaths : \A r \in ReadRequests[q] :
          k = Key(q, Doc(q), Mtime(q), r) => AnswerFor(shown, q, Doc(q), r)
EntriesFit == \A k \in DOMAIN cache : EntryFits(k, cache[k].shown)

CurrentInv == StampsTell /\ CallsFit /\ EntriesFit /\ CachedIsCurrent

\* What a call extracts now answers for each document that has its key.
LEMMA StoredFits ==
    ASSUME StampsTell, NEW c \in DocReaders, CallFits(c), NEW slow \in {{}, {1}}
    PROVE  EntryFits(reads[c].key, ExtractedNow(c, slow))
<1> DEFINE p == reads[c].path
           req == reads[c].req
           k == reads[c].key
           shown == Extraction(k.category, p, Doc(p), req, slow)
<1>1. PICK d \in Versions[p], m \in Nat :
          /\ k = Key(p, DocTable[d], m, req)
          /\ m <= Mtime(p)
          /\ m = Mtime(p) => d = DocName(p)
          /\ \A q \in DocPaths : q # p /\ Mtime(q) = m => m = 0
  BY DEF CallFits
<1>2. p \in DocPaths /\ req \in ReadRequests[p]
  BY DEF CallFits
<1>3. m < now
  BY <1>1, <1>2 DEF StampsTell
<1>4. ASSUME NEW q \in DocPaths, NEW r \in ReadRequests[q], k = Key(q, Doc(q), Mtime(q), r)
      PROVE  AnswerFor(shown, q, Doc(q), r)
  <2>1. Key(p, DocTable[d], m, req) = Key(q, Doc(q), Mtime(q), r)
    BY <1>1, <1>4
  <2>2. /\ Category(p, DocTable[d], req.hint) = Category(q, Doc(q), r.hint)
        /\ DocTable[d].head = Doc(q).head /\ DocTable[d].size = Doc(q).size /\ m = Mtime(q)
        /\ req.pages = r.pages /\ req.rows = r.rows /\ req.mode = r.mode /\ req.member = r.member
    BY <2>1, KeyParts
  <2>3. CASE q = p
    <3>1. DocTable[d] = Doc(p)
      BY <2>2, <2>3, <1>1 DEF Doc
    <3>2. Key(p, Doc(p), m, req) = Key(p, Doc(p), Mtime(p), r)
      BY <2>1, <2>3, <3>1
    <3>3. k = Key(p, Doc(p), m, req)
      BY <1>1, <3>1
    <3>4. shown = Extraction(Category(p, Doc(p), r.hint), p, Doc(p), r, slow)
      BY <3>2, <3>3, SameKeyShowsSame
    <3>5. QED
      BY <2>3, <3>4 DEF AnswerFor, Gives
  <2>4. CASE q # p
    <3>1. Key(p, DocTable[d], 0, req) = Key(q, Doc(q), 0, r)
      BY <2>2 DEF Key
    <3>2. DocName(p) \in Versions[p] /\ Doc(p) = DocTable[DocName(p)]
      BY <1>2 DEF StampsTell, Doc
    <3>3. k.category = Category(p, DocTable[d], req.hint)
      BY <1>1 DEF Key
    <3>4. shown = Extraction(Category(p, DocTable[d], req.hint), p, DocTable[DocName(p)], req, slow)
      BY <3>2, <3>3
    <3>5. p \in DocPaths \ {q}
      BY <1>2, <2>4
    <3> HIDE DEF shown, p, req
    <3>6. GivesTwin(q, Doc(q), r, shown)
      BY <1>1, <1>2, <3>1, <3>2, <3>4, <3>5 DEF GivesTwin
    <3>7. QED
      BY <3>6 DEF AnswerFor
  <2>5. QED
    BY <2>3, <2>4
<1>5. QED
  BY <1>1, <1>3, <1>4 DEF EntryFits, ExtractedNow

\* What the cache holds as long as no document changes.
LEMMA CacheStays ==
    ASSUME UNCHANGED documents, NEW k, NEW shown, EntryFits(k, shown), now \in Nat, now' \in Nat, now <= now'
    PROVE  EntryFits(k, shown)'
BY DEF EntryFits, Doc, Mtime, DocName
LEMMA CurrentAtFirst == DocumentsInit => CurrentInv
<1> SUFFICES ASSUME DocumentsInit PROVE CurrentInv
  OBVIOUS
<1>1. DOMAIN documents = DocPaths /\ \A p \in DocPaths : DocName(p) \in Versions[p]
  BY DEF DocumentsInit
<1>2. \A p \in DocPaths : Mtime(p) = 0
  BY DEF DocumentsInit, Mtime
<1>3. now = 1
  BY DEF DocumentsInit
<1>4. StampsTell
  BY <1>1, <1>2, <1>3 DEF StampsTell
<1>5. DOMAIN cache = {} /\ DOMAIN reads = DocReaders /\ \A c \in DocReaders : reads[c] = NoRead
  BY DEF DocumentsInit
<1>6. reply.kind # "cached"
  BY DEF DocumentsInit, NoReply, Unset
<1>7. QED
  BY <1>4, <1>5, <1>6 DEF CurrentInv, CallsFit, EntriesFit, CachedIsCurrent

\* Steps that change neither documents, nor the entries of the cache, nor what the last
\* call answered from it.
LEMMA NothingNew ==
    ASSUME CurrentInv, UNCHANGED documents, now' \in Nat, now <= now',
           DOMAIN reads' = DocReaders,
           \A c \in DocReaders : reads'[c] # NoRead => (reads'[c] = reads[c] \/ CallFits(c)'),
           \A k \in DOMAIN cache' : (k \in DOMAIN cache /\ cache'[k] = cache[k]) \/ EntryFits(k, cache[k].shown)',
           reply'.kind = "cached" => UNCHANGED reply
    PROVE  CurrentInv'
<1>1. StampsTell'
  BY DEF CurrentInv, StampsTell, DocName, Mtime
<1>2. now \in Nat
  BY DEF CurrentInv, StampsTell
<1>3. CallsFit'
  <2> SUFFICES ASSUME NEW c \in DocReaders, reads'[c] # NoRead PROVE CallFits(c)'
    BY DEF CallsFit
  <2>1. CASE reads'[c] = reads[c]
    BY <2>1 DEF CurrentInv, CallsFit, CallFits, DocName, Mtime
  <2>2. QED
    BY <2>1
<1>4. EntriesFit'
  <2> SUFFICES ASSUME NEW k \in DOMAIN cache' PROVE EntryFits(k, cache[k].shown)'
    BY DEF EntriesFit
  <2>1. CASE k \in DOMAIN cache /\ cache'[k] = cache[k]
    <3>1. PICK v : v = cache[k].shown
      OBVIOUS
    <3>2. EntryFits(k, v)
      BY <2>1, <3>1 DEF CurrentInv, EntriesFit
    <3>3. EntryFits(k, v)'
      BY <1>2, <3>2, CacheStays
    <3>4. QED
      BY <2>1, <3>1, <3>3
  <2>2. QED
    BY <2>1
<1>5. CachedIsCurrent'
  BY DEF CurrentInv, CachedIsCurrent
<1>6. QED
  BY <1>1, <1>3, <1>4, <1>5 DEF CurrentInv
LEMMA BeginsCurrent ==
    ASSUME CurrentInv, NEW c \in DocReaders, NEW p \in DocPaths, NEW req \in ReadRequests[p],
           BeginRead(c, p, req)
    PROVE  CurrentInv'
<1> DEFINE k == Key(p, Doc(p), Mtime(p), req)
           category == Category(p, Doc(p), req.hint)
<1>1. UNCHANGED <<documents, now>> /\ now' \in Nat /\ now <= now'
  BY DEF BeginRead, CurrentInv, StampsTell
<1>2. DOMAIN reads = DocReaders
  BY DEF CurrentInv, CallsFit
<1>3. CASE /\ Shows("error", p, req, Error) /\ UNCHANGED <<reads, cache, index, torn>>
  <2>1. reply'.kind = "error"
    BY <1>3 DEF Shows
  <2>2. QED
    BY <1>1, <1>2, <1>3, <2>1, NothingNew
<1>4. CASE /\ Hit(k) /\ Shows("cached", p, req, cache[k].shown) /\ UNCHANGED <<reads, cache, index, torn>>
  <2>1. k \in DOMAIN cache
    BY <1>4 DEF Hit
  <2>2. AnswerFor(cache[k].shown, p, Doc(p), req)
    BY <2>1 DEF CurrentInv, EntriesFit, EntryFits
  <2>3. /\ reply'.path = p /\ reply'.name = DocName(p) /\ reply'.req = req
        /\ reply'.shown = cache[k].shown
    BY <1>4 DEF Shows
  <2>4. CachedIsCurrent'
    BY <2>2, <2>3 DEF CachedIsCurrent, Doc
  <2>5. StampsTell' /\ CallsFit' /\ EntriesFit'
    BY <1>1, <1>4 DEF CurrentInv, StampsTell, CallsFit, CallFits, EntriesFit, EntryFits, Doc, Mtime, DocName
  <2>6. QED
    BY <2>4, <2>5 DEF CurrentInv
<1>5. CASE /\ reads' = [reads EXCEPT ![c] = [path |-> p, req |-> req, key |-> k]]
           /\ reply' = NoReply
           /\ cache' = Removed(cache, {k}) \/ cache' = cache
  <2>1. reply'.kind # "cached"
    BY <1>5 DEF NoReply, Unset
  <2>2. DOMAIN reads' = DocReaders /\ \A d \in DocReaders : d # c => reads'[d] = reads[d]
    BY <1>2, <1>5
  <2>3. reads'[c] = [path |-> p, req |-> req, key |-> k]
    BY <1>2, <1>5
  <2>4. CallFits(c)'
    <3>1. /\ DocName(p)' = DocName(p) /\ \A q : Mtime(q)' = Mtime(q)
      BY <1>1 DEF DocName, Mtime
    <3>2. /\ DocName(p) \in Versions[p] /\ Mtime(p) \in Nat
          /\ \A q \in DocPaths : q # p /\ Mtime(q) = Mtime(p) => Mtime(p) = 0
      BY DEF CurrentInv, StampsTell
    <3>3. k = Key(p, DocTable[DocName(p)], Mtime(p), req)
      BY DEF Doc
    <3> HIDE DEF k
    <3>4. reads'[c].path = p /\ reads'[c].req = req /\ reads'[c].key = k
      BY <2>3
    <3>5. QED
      BY <3>1, <3>2, <3>3, <3>4 DEF CallFits
  <2>5. \A j \in DOMAIN cache' : j \in DOMAIN cache /\ cache'[j] = cache[j]
    BY <1>5 DEF Removed
  <2>6. QED
    BY <1>1, <2>1, <2>2, <2>4, <2>5, NothingNew
<1>6. QED
  BY <1>3, <1>4, <1>5 DEF BeginRead

\* What a call has extracted is kept under its key, or not at all.
LEMMA KeepsCurrent ==
    ASSUME CurrentInv, UNCHANGED documents, now' = now + 1, NEW c \in DocReaders,
           reads[c] # NoRead, NEW slow \in {{}, {1}}, NEW whole,
           DOMAIN reads' = DocReaders,
           \A d \in DocReaders : reads'[d] # NoRead => reads'[d] = reads[d],
           \A k \in DOMAIN cache' :
               \/ k \in DOMAIN cache /\ cache'[k] = cache[k]
               \/ /\ k = reads[c].key
                  /\ cache'[k].shown = ExtractedNow(c, slow),
           reply'.kind # "cached"
    PROVE  CurrentInv'
<1>1. now \in Nat /\ now' \in Nat /\ now <= now'
  BY DEF CurrentInv, StampsTell
<1>2. CallFits(c)
  BY DEF CurrentInv, CallsFit
<1>3. EntryFits(reads[c].key, ExtractedNow(c, slow))
  BY <1>2, StoredFits DEF CurrentInv
<1>4. ASSUME NEW k \in DOMAIN cache', k = reads[c].key,
             cache'[k].shown = ExtractedNow(c, slow)
      PROVE  EntryFits(k, cache[k].shown)'
  <2>1. PICK v : v = ExtractedNow(c, slow)
    OBVIOUS
  <2>2. EntryFits(k, v)
    BY <1>3, <1>4, <2>1
  <2>3. EntryFits(k, v)'
    BY <1>1, <2>2, CacheStays
  <2>4. cache'[k].shown = v
    BY <1>4, <2>1
  <2>5. QED
    BY <2>3, <2>4
<1>5. QED
  BY <1>1, <1>4, NothingNew
\* What is in the cache after an answer was kept.
LEMMA PutKeeps ==
    ASSUME NEW k, NEW e, Put(k, e)
    PROVE  \A j \in DOMAIN cache' : \/ j \in DOMAIN cache /\ cache'[j] = cache[j]
                                    \/ j = k /\ cache'[j] = e
<1>1. PICK gone : cache' = Removed(Added(k, e), gone)
  BY DEF Put
<1>2. QED
  BY <1>1 DEF Removed, Added

LEMMA FinishesCurrent ==
    ASSUME CurrentInv, NEW c \in DocReaders, NEW slow \in {{}, {1}}, NEW ok,
           FinishRead(c, slow, ok)
    PROVE  CurrentInv'
<1> DEFINE p == reads[c].path
           shown == IF ok THEN ExtractedNow(c, slow) ELSE Error
<1>1. /\ reads[c] # NoRead /\ now' = now + 1 /\ UNCHANGED documents
      /\ reads' = [reads EXCEPT ![c] = NoRead]
  BY DEF FinishRead
<1>2. DOMAIN reads = DocReaders
  BY DEF CurrentInv, CallsFit
<1>3. DOMAIN reads' = DocReaders /\ \A d \in DocReaders : reads'[d] # NoRead => reads'[d] = reads[d]
  BY <1>1, <1>2
<1>4. CASE ~shown.error /\ Put(reads[c].key, Entry(shown, TRUE)) /\ Shows("stored", p, reads[c].req, shown)
  <2>1. ok
    BY <1>4 DEF Error
  <2>2. Entry(shown, TRUE).shown = ExtractedNow(c, slow)
    BY <2>1 DEF Entry
  <2>3. reply'.kind # "cached"
    BY <1>4 DEF Shows
  <2>4. \A k \in DOMAIN cache' :
            \/ k \in DOMAIN cache /\ cache'[k] = cache[k]
            \/ k = reads[c].key /\ cache'[k] = Entry(shown, TRUE)
    <3> HIDE DEF shown
    <3>1. QED
      BY <1>4, PutKeeps
  <2>5. \A k \in DOMAIN cache' :
            \/ k \in DOMAIN cache /\ cache'[k] = cache[k]
            \/ /\ k = reads[c].key
               /\ cache'[k].shown = ExtractedNow(c, slow)
    BY <2>2, <2>4
  <2>6. QED
    BY <1>1, <1>3, <2>3, <2>5, KeepsCurrent
<1>5. CASE /\ UNCHANGED <<cache, index, torn>>
           /\ Shows(IF shown.error THEN "error" ELSE "shown", p, reads[c].req, shown)
  <2>1. reply'.kind # "cached"
    BY <1>5 DEF Shows
  <2>2. QED
    BY <1>1, <1>3, <1>5, <2>1, KeepsCurrent
<1>6. QED
  BY <1>4, <1>5 DEF FinishRead

LEMMA StopsCurrent ==
    ASSUME CurrentInv, NEW c \in DocReaders, NEW whole \in BOOLEAN, StopsWriting(c, whole)
    PROVE  CurrentInv'
<1> DEFINE p == reads[c].path
           shown == ExtractedNow(c, {})
<1>1. /\ reads[c] # NoRead /\ now' = now + 1 /\ UNCHANGED documents
      /\ reads' = [d \in DocReaders |-> NoRead] /\ reply' = NoReply
      /\ cache' = Added(reads[c].key, Entry(shown, whole))
  BY DEF StopsWriting
<1>2. Entry(shown, whole).shown = shown
  BY DEF Entry
<1>3. \A k \in DOMAIN cache' :
          \/ k \in DOMAIN cache /\ cache'[k] = cache[k]
          \/ k = reads[c].key /\ cache'[k].shown = shown
  <2> HIDE DEF shown
  <2>1. QED
    BY <1>1, <1>2 DEF Added
<1>4. DOMAIN reads' = DocReaders /\ \A d \in DocReaders : reads'[d] = NoRead
  BY <1>1
<1>5. reply'.kind # "cached"
  BY <1>1 DEF NoReply, Unset
<1>6. QED
  BY <1>1, <1>3, <1>4, <1>5, KeepsCurrent

LEMMA OverwritesCurrent ==
    ASSUME CurrentInv, NEW p \in DocPaths, Overwrite(p)
    PROVE  CurrentInv'
<1>1. PICK doc \in Versions[p] : documents' = [documents EXCEPT ![p] = <<doc, now>>]
  BY DEF Overwrite
<1>2. now' = now + 1 /\ UNCHANGED <<reads, cache, reply>>
  BY DEF Overwrite
<1>3. /\ now \in Nat \ {0} /\ DOMAIN documents = DocPaths
      /\ \A q \in DocPaths : DocName(q) \in Versions[q] /\ Mtime(q) \in Nat /\ Mtime(q) < now
      /\ \A q, r \in DocPaths : q # r /\ Mtime(q) = Mtime(r) => Mtime(q) = 0
  BY DEF CurrentInv, StampsTell
<1>4. documents'[p] = <<doc, now>> /\ \A q \in DocPaths : q # p => documents'[q] = documents[q]
  BY <1>1, <1>3
<1>5. Mtime(p)' = now /\ DocName(p)' = doc
  BY <1>4 DEF Mtime, DocName
<1>6. \A q \in DocPaths : q # p => Mtime(q)' = Mtime(q) /\ DocName(q)' = DocName(q)
  BY <1>4 DEF Mtime, DocName
<1>7. StampsTell'
  <2>1. DOMAIN documents' = DocPaths /\ now' \in Nat \ {0}
    BY <1>1, <1>2, <1>3
  <2>2. \A q \in DocPaths : DocName(q)' \in Versions[q] /\ Mtime(q)' \in Nat /\ Mtime(q)' < now'
    BY <1>2, <1>3, <1>5, <1>6
  <2>3. \A q, r \in DocPaths : q # r /\ Mtime(q)' = Mtime(r)' => Mtime(q)' = 0
    BY <1>3, <1>5, <1>6
  <2>4. QED
    BY <2>1, <2>2, <2>3 DEF StampsTell
<1>8. CallsFit'
  <2> SUFFICES ASSUME NEW c \in DocReaders, reads[c] # NoRead PROVE CallFits(c)'
    BY <1>2 DEF CurrentInv, CallsFit
  <2>1. CallFits(c)
    BY DEF CurrentInv, CallsFit
  <2>2. reads'[c] = reads[c]
    BY <1>2
  <2>3. QED
    BY <1>3, <1>5, <1>6, <2>1, <2>2 DEF CallFits
<1>9. EntriesFit'
  <2> SUFFICES ASSUME NEW k \in DOMAIN cache PROVE EntryFits(k, cache[k].shown)'
    BY <1>2 DEF EntriesFit
  <2>1. EntryFits(k, cache[k].shown)
    BY DEF CurrentInv, EntriesFit
  <2>2. PICK q, d, m, r : k = Key(q, d, m, r) /\ m \in Nat /\ m < now
    BY <2>1 DEF EntryFits
  <2>3. m < now'
    BY <1>2, <1>3, <2>2
  <2>4. ASSUME NEW o \in DocPaths, NEW s \in ReadRequests[o], k = Key(o, Doc(o)', Mtime(o)', s)
        PROVE  AnswerFor(cache[k].shown, o, Doc(o)', s)
    <3>1. Mtime(o)' = m
      <4>1. PICK e, n : e = Doc(o)' /\ n = Mtime(o)'
        OBVIOUS
      <4>2. Key(o, e, n, s) = Key(q, d, m, r)
        BY <2>2, <2>4, <4>1
      <4>3. n = m
        BY <4>2, KeyParts
      <4>4. QED
        BY <4>1, <4>3
    <3>2. o # p
      BY <1>3, <1>5, <2>2, <3>1
    <3>3. Doc(o)' = Doc(o) /\ Mtime(o)' = Mtime(o)
      BY <1>6, <3>2 DEF Doc
    <3>4. QED
      BY <2>1, <2>4, <3>3 DEF EntryFits
  <2>5. QED
    BY <1>2, <2>2, <2>3, <2>4 DEF EntryFits
<1>10. CachedIsCurrent'
  BY <1>2 DEF CurrentInv, CachedIsCurrent
<1>11. QED
  BY <1>7, <1>8, <1>9, <1>10 DEF CurrentInv

LEMMA StepsStayCurrent ==
    ASSUME CurrentInv, [DocumentsNext]_documentsVars PROVE CurrentInv'
<1>1. ASSUME NEW c \in DocReaders, NEW p \in DocPaths, NEW req \in ReadRequests[p], BeginRead(c, p, req)
      PROVE  CurrentInv'
  BY <1>1, BeginsCurrent
<1>2. ASSUME NEW c \in DocReaders, NEW slow \in {{}, {1}}, FinishRead(c, slow, TRUE) PROVE CurrentInv'
  BY <1>2, FinishesCurrent
<1>3. ASSUME NEW c \in DocReaders, FinishRead(c, {}, FALSE) PROVE CurrentInv'
  BY <1>3, FinishesCurrent
<1>4. ASSUME NEW c \in DocReaders, NEW whole \in BOOLEAN, StopsWriting(c, whole) PROVE CurrentInv'
  BY <1>4, StopsCurrent
<1>5. ASSUME NEW p \in DocPaths, Overwrite(p) PROVE CurrentInv'
  BY <1>5, OverwritesCurrent
<1>6. CASE UNCHANGED <<documents, reads, cache, now, reply>>
  <2>1. now \in Nat /\ DOMAIN reads = DocReaders
    BY DEF CurrentInv, StampsTell, CallsFit
  <2>2. QED
    BY <1>6, <2>1, NothingNew
<1>7. ASSUME NEW x \in extracted, DeleteExtracted(x) PROVE CurrentInv'
  BY <1>6, <1>7 DEF DeleteExtracted
<1>8. QED
  BY <1>1, <1>2, <1>3, <1>4, <1>5, <1>6, <1>7 DEF DocumentsNext, documentsVars

\* An answer from the cache is one that the document could give now, whatever was
\* overwritten while calls were extracting, and whatever stops left in the cache; or,
\* when a document of another path had the same first bytes and the same size, one
\* about that path: the key has no more of a document (cache.py:122).
THEOREM CachedAnswersAreCurrent == DocumentsSpec => []CachedIsCurrent
<1>1. CurrentInv => CachedIsCurrent
  BY DEF CurrentInv
<1>2. QED
  BY <1>1, CurrentAtFirst, StepsStayCurrent, PTL DEF DocumentsSpec

-----------------------------------------------------------------------------
(* How much the cache holds                                                *)

Counted(entries) ==
    /\ IsFiniteSet(DOMAIN entries)
    /\ \A k \in DOMAIN entries : entries[k].size \in Nat /\ entries[k].at \in Nat

LEMMA UseIsCounted ==
    ASSUME NEW entries, Counted(entries), NEW keys \in SUBSET DOMAIN entries
    PROVE  /\ IsFiniteSet(UNION {Units(entries, k) : k \in keys})
           /\ CacheUse(entries, keys) \in Nat
<1> DEFINE units == {Units(entries, k) : k \in keys}
           f == [k \in keys |-> Units(entries, k)]
<1>1. IsFiniteSet(keys)
  BY FS_Subset DEF Counted
<1>2. f \in Surjection(keys, units)
  BY DEF Surjection
<1>3. IsFiniteSet(units)
  BY <1>1, <1>2, FS_Surjection
<1>4. \A T \in units : IsFiniteSet(T)
  <2> SUFFICES ASSUME NEW k \in keys PROVE IsFiniteSet(Units(entries, k))
    OBVIOUS
  <2>1. IsFiniteSet({k}) /\ IsFiniteSet(1 .. entries[k].size)
    <3>1. entries[k].size \in Nat
      BY DEF Counted
    <3>2. 1 \in Int /\ entries[k].size \in Int
      BY <3>1
    <3>3. QED
      BY <3>2, FS_Singleton, FS_Interval
  <2>2. QED
    BY <2>1, FS_Product DEF Units
<1>5. IsFiniteSet(UNION units)
  BY <1>3, <1>4, FS_UNION
<1>6. QED
  BY <1>5, FS_CardinalityType DEF CacheUse

\* More entries take more; what is removed is freed.
LEMMA UseGrows ==
    ASSUME NEW entries, Counted(entries), NEW keys \in SUBSET DOMAIN entries, NEW some \in SUBSET keys
    PROVE  CacheUse(entries, some) <= CacheUse(entries, keys)
<1> DEFINE U(ks) == UNION {Units(entries, k) : k \in ks}
<1>1. IsFiniteSet(U(keys)) /\ U(some) \subseteq U(keys)
  BY UseIsCounted
<1>2. QED
  BY <1>1, FS_Subset DEF CacheUse

LEMMA UseIsFreed ==
    ASSUME NEW entries, Counted(entries), NEW keys \in SUBSET DOMAIN entries, NEW some \in SUBSET keys
    PROVE  CacheUse(entries, keys \ some) = CacheUse(entries, keys) - CacheUse(entries, some)
<1> DEFINE U(ks) == UNION {Units(entries, k) : k \in ks}
<1>1. IsFiniteSet(U(keys)) /\ U(some) \subseteq U(keys)
  BY UseIsCounted
<1>2. U(keys \ some) = U(keys) \ U(some)
  <2>1. ASSUME NEW k \in keys \ some, NEW j \in some, NEW u \in Units(entries, k), u \in Units(entries, j)
        PROVE  FALSE
    BY <2>1 DEF Units
  <2>2. QED
    BY <2>1
<1>3. U(keys) \intersect U(some) = U(some)
  BY <1>1
<1> HIDE DEF U
<1>4. Cardinality(U(keys) \ U(some)) = Cardinality(U(keys)) - Cardinality(U(keys) \intersect U(some))
  BY <1>1, FS_Difference
<1>5. QED
  BY <1>2, <1>3, <1>4 DEF CacheUse, U

\* What is removed changes nothing of the rest.
LEMMA UseOfRest ==
    ASSUME NEW entries, NEW gone
    PROVE  CacheUse(Removed(entries, gone), DOMAIN Removed(entries, gone)) = CacheUse(entries, DOMAIN entries \ gone)
<1>1. DOMAIN Removed(entries, gone) = DOMAIN entries \ gone
      /\ \A k \in DOMAIN entries \ gone : Removed(entries, gone)[k] = entries[k]
  BY DEF Removed
<1>2. {Units(Removed(entries, gone), k) : k \in DOMAIN entries \ gone} = {Units(entries, k) : k \in DOMAIN entries \ gone}
  BY <1>1 DEF Units
<1>3. QED
  BY <1>1, <1>2 DEF CacheUse

LEMMA OldestKey ==
    ASSUME NEW entries, Counted(entries), NEW keys \in SUBSET DOMAIN entries, keys # {}
    PROVE  \E k \in keys : \A j \in keys : entries[k].at <= entries[j].at
<1> DEFINE times == {entries[k].at : k \in keys}
<1>1. times \subseteq Nat /\ times # {}
  BY DEF Counted
<1>2. PICK t \in times : \A u \in times : ~(<<u, t>> \in OpToRel(<, Nat))
  BY <1>1, NatLessThanWellFounded, WFMin
<1>3. t \in Nat /\ \A u \in times : u \in Nat
  BY <1>1
<1>4. \A u \in times : ~(u < t)
  BY <1>2, <1>3, Zenon DEF OpToRel
<1>5. PICK k \in keys : t = entries[k].at
  OBVIOUS
<1>6. \A j \in keys : entries[j].at \in times
  OBVIOUS
<1> HIDE DEF times
<1>7. ASSUME NEW j \in keys PROVE t <= entries[j].at
  <2>1. entries[j].at \in Nat /\ ~(entries[j].at < t)
    BY <1>3, <1>4, <1>6
  <2>2. QED
    BY <1>3, <2>1
<1>8. QED
  BY <1>5, <1>7

\* Whatever is removed is enough, or everything that the index knows.
LEMMA EnoughIsEvicted ==
    ASSUME NEW entries, Counted(entries), NEW indexed \in SUBSET DOMAIN entries
    PROVE  LET gone == Evicted(entries, indexed)
           IN  /\ gone \subseteq indexed
               /\ \/ CacheUse(entries, DOMAIN entries \ gone) + IndexSize <= CacheSize
                  \/ gone = indexed
<1> DEFINE gone == Evicted(entries, indexed)
           excess == CacheUse(entries, DOMAIN entries) + IndexSize - CacheSize
           older(k) == {j \in indexed : entries[j].at < entries[k].at}
<1>1. IndexSize \in Nat /\ CacheSize \in Nat
  BY DocumentsAssumption DEF DocumentsAssumption
<1>2. CacheUse(entries, DOMAIN entries) \in Nat
  BY UseIsCounted
<1>3. gone \subseteq indexed
  BY DEF Evicted
<1>4. CASE excess <= 0
  <2>1. gone = {}
    BY <1>4 DEF Evicted
  <2>2. QED
    BY <1>1, <1>2, <1>4, <2>1
<1>5. CASE ~(excess <= 0) /\ gone # indexed
  <2>1. gone = {k \in indexed : CacheUse(entries, older(k)) < excess}
    BY <1>5 DEF Evicted
  <2> HIDE DEF gone
  <2>2. indexed \ gone \subseteq DOMAIN entries /\ indexed \ gone # {}
    BY <1>3, <1>5
  <2>3. PICK x \in indexed \ gone : \A j \in indexed \ gone : entries[x].at <= entries[j].at
    BY <2>2, OldestKey
  <2>4. older(x) \subseteq gone
    <3> SUFFICES ASSUME NEW j \in indexed \ gone, entries[j].at < entries[x].at PROVE FALSE
      OBVIOUS
    <3>1. entries[x].at \in Nat /\ entries[j].at \in Nat
      BY DEF Counted
    <3>2. QED
      BY <2>3, <3>1
  <2>5. gone \subseteq DOMAIN entries
    BY <1>3
  <2>6. CacheUse(entries, older(x)) <= CacheUse(entries, gone)
    BY <2>4, <2>5, UseGrows
  <2>7. CacheUse(entries, older(x)) \in Nat /\ CacheUse(entries, gone) \in Nat
    BY <2>4, <2>5, UseIsCounted
  <2>8. ~(CacheUse(entries, older(x)) < excess)
    BY <2>1, <2>3
  <2>9. CacheUse(entries, DOMAIN entries \ gone) = CacheUse(entries, DOMAIN entries) - CacheUse(entries, gone)
    BY <2>5, UseIsFreed
  <2> HIDE DEF older
  <2>10. QED
    BY <1>1, <1>2, <1>3, <2>6, <2>7, <2>8, <2>9 DEF gone
<1>6. QED
  BY <1>3, <1>4, <1>5
-----------------------------------------------------------------------------
(* The limit of the cache                                                  *)

\* What the index does not know was torn.
CacheInv ==
    /\ now \in Nat /\ Counted(cache) /\ DOMAIN cache = index \union torn
    /\ CacheFits

LEMMA UptoIsCounted == ASSUME NEW s, NEW n \in Nat PROVE Cardinality(DOMAIN Upto(s, n)) \in Nat
<1>1. DOMAIN Upto(s, n) \subseteq 1 .. n
  BY DEF Upto
<1>2. IsFiniteSet(1 .. n)
  BY FS_Interval
<1>3. QED
  BY <1>1, <1>2, FS_Subset, FS_CardinalityType

\* What is kept weighs something.
LEMMA ExtractionHasWeight ==
    ASSUME NEW category, Cacheable(category), NEW p, NEW doc, NEW req, NEW slow,
           ~Extraction(category, p, doc, req, slow).error
    PROVE  Weight(Extraction(category, p, doc, req, slow)) \in Nat
<1> DEFINE shown == Extraction(category, p, doc, req, slow)
<1>1. ASSUME NEW lines PROVE Weight(Sanitized(lines)) \in Nat
  <2>1. MaxLines \in Nat
    BY DocumentsAssumption DEF DocumentsAssumption
  <2>2. Sanitized(lines).lines = Upto(lines, MaxLines) /\ "lines" \in DOMAIN Sanitized(lines)
    BY DEF Sanitized
  <2>3. QED
    BY <2>1, <2>2, UptoIsCounted DEF Weight
<1>2. \/ shown = Error
      \/ \E lines : shown = Sanitized(lines)
      \/ shown = [error |-> FALSE, extracted |-> req.member]
  <2>1. CASE category = "pdf"
    BY <2>1 DEF Extraction, ShowPages
  <2>2. CASE category = "office"
    BY <2>2 DEF Extraction, ShowOffice
  <2>3. CASE category = "archive"
    BY <2>3 DEF Extraction, ShowArchive, Listing, ReadMember
  <2>4. QED
    BY <2>1, <2>2, <2>3 DEF Cacheable
<1>3. CASE shown = Error
  BY <1>3 DEF Error
<1>4. CASE \E lines : shown = Sanitized(lines)
  BY <1>1, <1>4
<1>5. CASE shown = [error |-> FALSE, extracted |-> req.member]
  <2>1. "lines" \notin DOMAIN shown
    <3> HIDE DEF shown
    <3>1. DOMAIN shown = {"error", "extracted"}
      BY <1>5
    <3>2. QED
      BY <3>1
  <2>2. QED
    BY <2>1 DEF Weight
<1>6. QED
  BY <1>2, <1>3, <1>4, <1>5

\* A new entry in the cache.
LEMMA AddedIsCounted ==
    ASSUME CacheInv, NEW k, NEW e, e.size \in Nat, e.at \in Nat
    PROVE  Counted(Added(k, e)) /\ DOMAIN Added(k, e) = DOMAIN cache \union {k}
<1>1. DOMAIN Added(k, e) = DOMAIN cache \union {k}
      /\ Added(k, e)[k] = e /\ \A j \in DOMAIN cache : j # k => Added(k, e)[j] = cache[j]
  BY DEF Added
<1>2. IsFiniteSet(DOMAIN cache \union {k})
  BY FS_AddElement DEF CacheInv, Counted
<1>3. QED
  BY <1>1, <1>2 DEF CacheInv, Counted

LEMMA RemovedIsCounted ==
    ASSUME NEW entries, Counted(entries), NEW gone
    PROVE  Counted(Removed(entries, gone)) /\ DOMAIN Removed(entries, gone) = DOMAIN entries \ gone
<1>1. DOMAIN Removed(entries, gone) = DOMAIN entries \ gone
      /\ \A k \in DOMAIN entries \ gone : Removed(entries, gone)[k] = entries[k]
  BY DEF Removed
<1>2. IsFiniteSet(DOMAIN entries \ gone)
  BY FS_Difference DEF Counted
<1>3. QED
  BY <1>1, <1>2 DEF Counted

\* The step of put.
LEMMA PutFits ==
    ASSUME CacheInv, now' \in Nat, NEW k, NEW e, e.size \in Nat, e.at \in Nat, Put(k, e)
    PROVE  CacheInv'
<1> DEFINE entries == Added(k, e)
           indexed == index \union {k}
           gone == Evicted(entries, indexed)
<1>1. Counted(entries) /\ DOMAIN entries = DOMAIN cache \union {k}
  BY AddedIsCounted
<1>2. cache' = Removed(entries, gone) /\ index' = indexed \ gone /\ torn' = (torn \ {k}) \ gone
  BY DEF Put
<1>3. indexed \subseteq DOMAIN entries /\ DOMAIN entries = indexed \union (torn \ {k})
  BY <1>1 DEF CacheInv
<1> HIDE DEF entries, indexed
<1>4. /\ gone \subseteq indexed
      /\ \/ CacheUse(entries, DOMAIN entries \ gone) + IndexSize <= CacheSize
         \/ gone = indexed
  BY <1>1, <1>3, EnoughIsEvicted
<1> HIDE DEF gone
<1>5. Counted(cache') /\ DOMAIN cache' = DOMAIN entries \ gone
  BY <1>1, <1>2, RemovedIsCounted
<1>6. DOMAIN cache' = index' \union torn'
  BY <1>2, <1>3, <1>5
<1>7. CacheUse(cache', DOMAIN cache') = CacheUse(entries, DOMAIN entries \ gone)
  BY <1>2, UseOfRest
<1>8. CacheUse(cache', DOMAIN cache') + IndexSize <= CacheSize \/ DOMAIN cache' \subseteq torn'
  BY <1>2, <1>4, <1>6, <1>7
<1>9. QED
  BY <1>5, <1>6, <1>8 DEF CacheInv, CacheFits
LEMMA FitsStep == ASSUME CacheInv, [DocumentsNext]_documentsVars PROVE CacheInv'
<1> now \in Nat
  BY DEF CacheInv
<1>1. ASSUME UNCHANGED <<cache, index, torn>>, now' \in Nat,
             reply'.kind = "stored" => UNCHANGED reply
      PROVE  CacheInv'
  BY <1>1 DEF CacheInv, CacheFits
<1>2. ASSUME NEW c \in DocReaders, NEW p \in DocPaths, NEW req \in ReadRequests[p], BeginRead(c, p, req)
      PROVE  CacheInv'
  <2> DEFINE k == Key(p, Doc(p), Mtime(p), req)
  <2>1. now' = now /\ reply'.kind # "stored"
    BY <1>2 DEF BeginRead, Shows, NoReply, Unset
  <2>2. CASE UNCHANGED <<cache, index, torn>>
    BY <1>1, <2>1, <2>2
  <2>3. CASE cache' = Removed(cache, {k}) /\ index' = index \ {k} /\ torn' = torn \ {k}
    <3> HIDE DEF k
    <3>1. Counted(cache') /\ DOMAIN cache' = DOMAIN cache \ {k}
      BY <2>3, RemovedIsCounted DEF CacheInv
    <3>2. DOMAIN cache' = index' \union torn'
      BY <2>3, <3>1 DEF CacheInv
    <3>3. QED
      BY <2>1, <3>1, <3>2 DEF CacheInv, CacheFits
  <2>4. QED
    BY <1>2, <2>2, <2>3 DEF BeginRead
<1>3. ASSUME NEW c \in DocReaders, NEW slow, NEW ok \in BOOLEAN, FinishRead(c, slow, ok)
      PROVE  CacheInv'
  <2> DEFINE shown == IF ok THEN ExtractedNow(c, slow) ELSE Error
             k == reads[c].key
  <2>1. now' = now + 1 /\ now' \in Nat
    BY <1>3 DEF FinishRead
  <2>2. CASE ~shown.error /\ Cacheable(k.category) /\ Put(k, Entry(shown, TRUE))
    <3>1. ok /\ shown = ExtractedNow(c, slow)
      BY <2>2 DEF Error
    <3>2. Weight(shown) \in Nat
      BY <2>2, <3>1, ExtractionHasWeight DEF ExtractedNow
    <3> HIDE DEF shown
    <3>3. Entry(shown, TRUE).size \in Nat /\ Entry(shown, TRUE).at \in Nat
      BY <3>2 DEF Entry
    <3>4. QED
      BY <2>1, <2>2, <3>3, PutFits
  <2>3. CASE UNCHANGED <<cache, index, torn>> /\ reply'.kind # "stored"
    BY <1>1, <2>1, <2>3
  <2>4. \/ ~shown.error /\ Cacheable(k.category) /\ Put(k, Entry(shown, TRUE))
        \/ UNCHANGED <<cache, index, torn>>
           /\ Shows(IF shown.error THEN "error" ELSE "shown", reads[c].path, reads[c].req, shown)
    BY <1>3 DEF FinishRead
  <2> HIDE DEF shown
  <2>5. Shows(IF shown.error THEN "error" ELSE "shown", reads[c].path, reads[c].req, shown)
            => reply'.kind # "stored"
    BY DEF Shows
  <2>6. QED
    BY <2>2, <2>3, <2>4, <2>5
<1>4. ASSUME NEW c \in DocReaders, NEW whole \in BOOLEAN, StopsWriting(c, whole)
      PROVE  CacheInv'
  <2> DEFINE shown == ExtractedNow(c, {})
             k == reads[c].key
  <2>1. now' \in Nat /\ reply'.kind # "stored"
    BY <1>4 DEF StopsWriting, NoReply, Unset
  <2>2. /\ cache' = Added(k, Entry(shown, whole)) /\ index' = index
        /\ torn' = IF k \in index THEN torn ELSE torn \union {k}
        /\ Cacheable(k.category) /\ ~shown.error
    BY <1>4 DEF StopsWriting
  <2>3. Weight(shown) \in Nat
    BY <2>2, ExtractionHasWeight DEF ExtractedNow
  <2> HIDE DEF shown, k
  <2>4. Entry(shown, whole).size \in Nat /\ Entry(shown, whole).at \in Nat
    BY <2>3 DEF Entry
  <2>5. Counted(cache') /\ DOMAIN cache' = DOMAIN cache \union {k}
    BY <2>2, <2>4, AddedIsCounted
  <2>6. DOMAIN cache' = index' \union torn'
    BY <2>2, <2>5 DEF CacheInv
  <2>7. QED
    BY <2>1, <2>5, <2>6 DEF CacheInv, CacheFits
<1>5. ASSUME NEW p \in DocPaths, Overwrite(p) PROVE CacheInv'
  BY <1>1, <1>5 DEF Overwrite
<1>6. ASSUME NEW x \in extracted, DeleteExtracted(x) PROVE CacheInv'
  BY <1>1, <1>6 DEF DeleteExtracted
<1>7. CASE UNCHANGED documentsVars
  BY <1>1, <1>7 DEF documentsVars
<1>8. QED
  BY <1>2, <1>3, <1>4, <1>5, <1>6, <1>7 DEF DocumentsNext

\* After an answer was stored the cache is within its limit, whatever the sizes of answers
\* and the order of overlapping calls, but for files that no index knows (cache.py:291).
THEOREM CacheKeepsItsLimit == DocumentsSpec => []CacheFits
<1>1. DocumentsInit => CacheInv
  <2> SUFFICES ASSUME DocumentsInit PROVE CacheInv
    OBVIOUS
  <2>1. DOMAIN cache = {} /\ index = {} /\ torn = {} /\ now = 1
    BY DEF DocumentsInit
  <2>2. Counted(cache)
    BY <2>1, FS_EmptySet DEF Counted
  <2>3. CacheFits
    BY DEF DocumentsInit, CacheFits, NoReply, Unset
  <2>4. QED
    BY <2>1, <2>2, <2>3 DEF CacheInv
<1>2. CacheInv => CacheFits
  BY DEF CacheInv
<1>3. QED
  BY <1>1, <1>2, FitsStep, PTL DEF DocumentsSpec

=============================================================================
