SPECIFICATION Spec
CONSTANTS
    w1 = w1
    w2 = w2
    Handlers = {w1, w2}
    ListLimit = 9
    MaxQuestions = 2
    MaxAnswers = 2
    MaxEmits = 0
    MaxStarts = 2
    MaxAskFailures = 1
    Admins = {w1, w2}
    Clients = {"c1"}
    Names = {"ann", "test"}
    TestNames = {"test"}
    UidMin = 2
    UidMax = 3
    Blocked = {1}
    MaxIds = 2
    MaxMishaps = 1
    Callers = {w1, w2}
    MaxUses = 3
    MaxRuns = 1
    MaxFailures = 1
    Sessions = {w1, w2, "s3"}
    Window = 2
    MaxErrors = 2
    MaxPlace = 1
    SkillNames <- TwoSkills
    ToolName <- ToolNames
    Catalog <- SkillCatalog
    SubagentConfigs <- Templates
    MaxSkillRuns = 2
    Uploads = {"u1"}
    Readers = {"r1"}
    Originals <- TwoNames
    BlockedNames = {}
    MaxFiles = 2
    MaxFile = 1
    MaxTotal = 1
    Growth = 3
    MaxVersions = 3
    Profiles <- TwoProfiles
    Legacy <- LegacyFiles
    Calls <- ToolCalls
    MaxDenials = 3
    MaxAgentRuns = 2
    MaxEdits = 2
    Texts <- AgentTexts
    SubTexts <- SubagentTexts
    Tools = {"t1", "t2"}
    Tasks = {"t1"}
    Saved = {"t2"}
    MaxMessages = 3
    MaxTokens = 1
    FileNames = {"f", "g"}
    Letters = {"a", "b"}
    EditLists <- ChangeLists
    Contents <- FileContents
    Directories <- Listings
    MaxResults = 2
    MaxShell = 1
    DocReaders = {w1, w2}
    DocPaths = {"pdf", "twin", "zip", "csv"}
    Extension <- ExtensionOf
    DocTable <- DocCatalog
    Versions <- VersionsAt
    ReadRequests <- DocRequests
    MaxSize = 5
    MaxPages = 3
    MaxOcr = 1
    MaxLoaded = 3
    MaxLines = 2
    MaxCount = 2
    MaxUnpacked = 3
    MaxRatio = 5
    MaxSingle = 1
    CacheSize = 3
    Ttl = 2
    IndexSize = 1
    MaxNow = 4
    PathNames <- AllNames
    Mounts = {"m"}
    Optional = {}
    Reachable = {"m"}
    Hidden <- HiddenNames
    Blocklist = {"e"}
    Paths <- AskedPaths
    LinkTargets <- LinksTo
    SkillLinks <- OwnAndGlobal
    MaxMountEdits = 1
    Commands <- ShellCommands
    RuleSets <- FilterRules
    SkillScripts = {"s"}
    Unavailable <- VenvMayBeMissing
SYMMETRY Symmetry
INVARIANTS
    CompleteHasNoOpenQuestion
    SharedUidHasNoAccount AccountIsComplete
    RowHasDirectory StoredOnce
    TypeOK
    SameFile ReadOnlyIsKept BashSeesSameFile NothingIsLeft
    DenyRulesHold StopsInTime
    TextOnce SubagentsEnd
    RejectedChangesNothing CutIsAnnounced
    CachedIsCurrent CacheFits
    StatusIsTold
    LinksAreListed
PROPERTIES
    ContextHasAnswers
    UploadsKeepRules
    OnlySecretsGo
CHECK_DEADLOCK FALSE
