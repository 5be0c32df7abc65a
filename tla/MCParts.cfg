SPECIFICATION PartsSpec
CONSTANTS
    p1 = p1
    p2 = p2
    Process = {p1, p2}
    Member <- MCMember
    RootTab = rootTab
    rootTab = rootTab
    ra = ra
    Extra = {x1}
    NoTab = NoTab
    Layouts = {"root", "both"}
    MaxCommands = 3
    MaxTrouble = 1

    Id = {"a"}
    NoId = "no id"
    Method = {"comments", "diff"}
    MaxRequests = 2
    Gate = 1
    Members = 1
    MaxTrees = 2
    FingerprintAt <- MCFingerprintAt

    Caller = {p1, p2}
    Query = {"ls", "diff"}
    MaxClientCalls = 2
    MaxSidecars = 2
    MaxViews = 1
    MaxClientTrouble = 1

    LiveSlice = {"s", "t"}
    SwapJob = {p1, p2}
    MaxConfirms = 2
    MaxMirrors = 3
    MaxLiveTrouble = 1

    Reader = {p1, p2}
    MaxReads = 2
    MaxChanges = 1
    Tips = 2
    MaxTime = 1
    MaxAge = 1
    SpawnSlots = 1
    MaxFailures = 1

    Branch = {"b1"}
    Worker = {p1, p2}
    Calls <- MCCalls
    MaxCalls = 1
    PrTTL = 1
    MaxPrTime = 1
    MaxPrTrouble = 1

    None = None
    Slice = {"s", "t"}
    Repo = {"r1", "r2"}
    Ref = {"bs", "bt", "jt"}
    NameOf <- MCNameOf
    Kin = {}
    Place <- MCPlace
    AgentDirs = {}
    AgentRefs = {}
    Command = {p1, p2}
    Starts <- MCStarts
    Gathered <- MCGathered
    Joins <- MCJoins
    MaxLifecycle = 2
    MaxUserSteps = 1

    OwnWork = {"own"}
    ForeignWork = {"foreign"}
    MaxRepoSteps = 3

    MaxBranch = 4
    MaxParents = 1

    Comment = {"x1", "x2"}
    CommentSlice <- MCCommentSlice
    Author = {"p", "q"}
    NoComment = NoComment
    MaxReviewCommands = 3
    MaxReviewTrouble = 1

    Badge <- MCBadge
    FileName <- MCFileName
    Hook = {p1, p2}
    Focuser = {"f1", "f2"}
    NoFocus = NoFocus
    MaxEvents = 2
    MaxMishaps = 1
SYMMETRY Interchangeable
INVARIANTS
    PartsTypeOK
    ClosingAloneIsSafe
    OneCommandPerTerminal
    RegistrationIsTheNewest
    PartialOnlyFromDiffCache
    DiffFitsFingerprint
    CallsAreSettledByTheirOwn
    SwapsRunAlone
    MirrorUpWhileLive
    AnswerSeesItsRefs
    AnswerIsRecent
    MergedIsNotAttachedToNewWork
    ReportsAreFaithful
    StackWalksAgree
    CommentsAreKept
    SentOnce
    BadgesAgreeAtRest
    BannersMatchChanges
    FocusIsShownOnce
PROPERTIES
    RegistrationIsKept
    AdoptLosesNoWork
CHECK_DEADLOCK FALSE
