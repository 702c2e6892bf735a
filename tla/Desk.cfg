SPECIFICATION DeskSpec
CHECK_DEADLOCK FALSE
CONSTANTS
    AlMaxSaves = 3
    AlMaxInputs = 3
    AmMaxOps = 2
    AmMaxRequests = 2
    AmMaxFiles = 2
    ApMaxInputs = 3
    ApMaxSessions = 3
    CaMaxMoves = 2
    CaDates = {31, 87, 90}
    CaToday = 31
    CaMaxPreview = 1
    CaMaxRange = 58
    ClMaxInputs = 4
    ClMaxSize = 2
    CmMaxTokens = 2
    CmMaxInputs = 4
    FlMaxDraws = 2
    FlMaxMoves = 1
    FlMaxChanges = 1
    PcMaxInputs = 2
    FcMaxCommits = 1
    FcMaxInputs = 3
    FsMaxSaves = 2
    FsMaxInputs = 1
    GrMaxEdits = 2
    GrMaxRenders = 1
    LfMaxInputs = 8
    LnMaxChoices = 2
    LnMaxInputs = 1
    LuMaxEvents = 5
    MvMaxInputs = 3
    MxMaxRequests = 4
    MxMaxEdits = 3
    NtMaxEvents = 2
    NvMaxMoves = 4
    NvMaxEntries = 4
    PkMaxInputs = 3
    PmMaxInputs = 3
    PmMaxSessions = 2
    QcMaxActivities = 3
    RcMaxForms = 2
    RcMaxPicks = 1
    RcMaxSubmits = 1
    SeMaxSessions = 2
    SoMaxChanges = 2
    TbMaxChoices = 2
    TbMaxInputs = 1
    TbMaxCalls = 1
    TcMaxSends = 1
    TcMaxStamps = 3
    TcMaxOpens = 1
    TgMaxRows = 2
    TgMaxInputs = 3
    TrMaxInputs = 3
    TrMaxVersions = 2
    DiMaxQuestions = 2
    CgMaxSaves = 1
    CgMaxEdits = 2
    CgMaxChoices = 1
    UpMaxInputs = 4
    EbTables = {"a", "b"}
    EbChannelSize = 1
    EbStreamSize = 1
    EbMaxConnections = 1
    EbMaxEvents = 3
    MeProcesses = {"p", "q"}
    MeReaders = {"r1"}
    MeTTL = 2
    MeMaxDelay = 1
    MeMaxTime = 4
    MeMaxChanges = 2
    RlRequests = {"r1", "r2"}
    RlLimit = 2
    RlWindow = 3
    RlCleanAge = 7
    RlMaxDelay = 1
    RlMaxTime = 11
    RlMaxCounted = 5
    AdThings = 2
    AdMaxInputs = 3
    AdMaxOnLinks = 2
    LgUsers = {"a", "b"}
    LgMailed = {"a"}
    LgSlots = 2
    LgMaxTries = 2
    LgMaxInputs = 3
    LgMaxCodes = 2
INVARIANTS
    DeskTypeOK
    ArticleAsStored
    EditsHitTheirTarget
    ChatsKeepTheirThread
    FiltersAgree
    UrlsLeadBack
    ChosenIsCarriedOut
    DrawnAsStored
    SessionIsOne
    ShownIsTrue
    ServerKeepsItsWord
