SPECIFICATION Spec
CONSTANTS
    Files = {f1, f2, f3}
    Folders = {d1, d2, d3}
    Root = root
    Gone = gone
    Fresh = fresh
    Name <- MCName
    Extension <- MCExtension
    Targets <- MCTargets
    Readable = {f1}
    Jobs = {j1, j2, j3}
    Workspaces = {w1, w2}
    MaxWorkspaces = 1
    Executions = {e1}
    Turns = {t1, t2}
    Conversations = {c1, c2}
    NoConversation = noconversation
    NoWorkspace = noworkspace
    MaxActions = 2
    MaxShown = 1
    MaxRounds = 2
    MaxCalls = 2
    MaxHistory = 4
    MaxScan = 6
    MaxRecalled = 1
    MaxAttachments = 1
    HourlyQuota = 2
    MaxRanked = 2
    Clicks = {k1, k2}
    Keys = {a1, a2, a3}
    Limit = 3
    Window = 4
    MaxKeys = 2
    MaxNow = 13
    Ids = {1, 2, 3}
    MaxQueue = 2
    BatchSize = 2
    PageSize = 1
    Retention = 1
    Ranges = {3, 5, 17}
    BucketChoices = {1, 2, 4}
    TargetBuckets = 3
    MaxBuckets = 4
    Calls = {m1, m2}
    MaxDownload = 6
    Chunk = 2
    HeaderLen = 1
    TagLen = 1
    ChunkSize = 2
    Slack = 4
    ChunkSlack = 2
    Keyring <- MCKeyring
    MaxAttempts = 3
    Backoff <- MCBackoff
    MaxWait = 3
    WaitBudget = 4
    Waits = {0, 5}
    Deltas = {"a", "b", "x", "y", "z"}
    WatchedJobs = {j1, j2}
    MaxEvents = 3
    KeptEvents = 2
    ReadCount = 2
    Scenarios <- MCScenarios
    f1 = f1
    f2 = f2
    f3 = f3
    d1 = d1
    d2 = d2
    d3 = d3
    w1 = w1
    w2 = w2
    c1 = c1
    c2 = c2
    a1 = a1
SYMMETRY MCSymmetry
CHECK_DEADLOCK FALSE
INVARIANTS
    ConversationTrue
    AgentBounded
    ServedTruly
    LimiterSound
    TelemetrySound
    StreamWhole
    WatchedInOrder
PROPERTY StepsHonest
