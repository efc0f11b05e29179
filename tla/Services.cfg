\* Every service of its own, one at a time.
SPECIFICATION Spec
CONSTANTS
    p1 = p1
    omm = omm
    cdm = cdm
    c1 = c1
    c2 = c2
    a = a
    b = b
    k = k
    d1 = d1
    d1fbs = d1fbs
    s1 = s1
    \* tips
    Nil = Nil
    Schemas = {omm, cdm}
    Peers = {p1}
    CIDs = {c1}
    SchemaConfigs <- MCSchemaConfigs
    SourceConfigs <- MCSourceConfigs
    SystemDefault <- MCSystemDefault
    MaxQueueSize = 2
    MaxTips = 3
    \* ingestion
    NoDay = NoDay
    StartDays <- MCStartDays
    BatchDays = 2
    Span = 3
    MaxDay = 5
    MaxIngestFaults = 2
    \* audit log
    Events = {"e1", "e2"}
    GenesisHash = GenesisHash
    MaxEntries = 4
    MaxSeconds = 2
    MaxAuditFaults = 3
    \* rate limiter
    Senders = {"p", "q"}
    Burst = 2
    Refill = 1
    MaxMessagesPerMinute = 2
    MaxTrackedPeers = 1
    MaxIdleTime = 3
    TicksPerMinute = 3
    MaxTick = 10
    Untracked = Untracked
    \* login
    Accounts = {a, b}
    ConfigUsers <- MCConfigUsers
    Attested <- MCAttested
    SigningKeys = {k}
    NoKey = NoKey
    TrustLevels = {5}
    AdminLevel = 5
    Requests = {"g1", "g2"}
    NoUser = NoUser
    NoRequest = NoRequest
    ChallengeLife = 0
    SessionLife = 0
    MaxOpenChallenges = 1
    MaxTime = 1
    MaxIssued = 2
    \* licences
    ReqIDs = {"r1", "r2"}
    XPubs = {a}
    RemotePeers = {"c1"}
    Provers = {"g1", "g2"}
    Plans = {"pro"}
    FreePlan = "free"
    NoEntry = NoEntry
    ChallengeTTL = 1
    TokenTTL = 2
    MaxPendingChallenges = 2
    MaxChallengesPerPeer = 2
    Expiries = {2}
    MaxClock = 2
    MaxTokens = 1
    \* peers
    PeerIDs = {"q"}
    Groups = {"g"}
    Levels = {1, 3}
    Trusted = 3
    TrustedPeers = {"q"}
    Editors = {"w1", "w2"}
    Objects = {"o1", "o2", "o3"}
    Absent = Absent
    MaxRegistryFaults = 2
    \* subscriptions
    SubIDs = {"s1", "s2"}
    DataTypes = {d1, d1fbs}
    Stem <- MCStem
    SourcePeers = {p1}
    All = All
    Configs <- MCConfigs
    NoSub = NoSub
    NoSync = NoSync
    WindowLength = 1
    MaxMoment = 3
    MaxTopicFaults = 1
INVARIANTS
    
    ResolvesInOrder
    
    
    ChainUnbroken
    LimiterBounds
    OneSessionPerChallenge
    EntitlementKept
    SavedOrPending
    SyncedMatches
    RateLimitHolds
PROPERTY CatchesUp
CHECK_DEADLOCK FALSE
