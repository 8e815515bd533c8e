SPECIFICATION Spec
CONSTANTS
    \* Reshard
    Migrator = {p1, p2}
    Shard = {s1}
    Bucket = {"b1", "b2"}
    Rows = 4
    Dst <- MCDst
    BatchSize = 2
    CommitEvery = 2
    Concurrency = 1
    MaxFaults = 1
    MaxLostCommits = 1
    MaxInterrupts = 1
    \* Leadership
    Node = {n1, n2, n3}
    MaxSessions = 4
    MaxMishaps = 2
    \* Registrar
    RegCall = {1, 2}
    MaxRegFaults = 2
    \* JobQueue
    t1 = t1
    t2 = t2
    t3 = t3
    Task = {t1, t2, t3}
    UniqueKey <- MCUniqueKey
    Cap = 1
    MaxRetry <- MCMaxRetry
    Unknown = {t2}
    Parent <- MCParent
    MaxSkips = 1
    \* AuditLog
    MaxAudits = 4
    BufferSize = 2
    AuBatch = 2
    MaxRetries = 2
    MaxBadPosts = 3
    \* Replay
    ReplayWorker = {w1, w2}
    Submitter = {u1, u2}
    Multiplier = 2
    JobsCap = 2
    MaxSubmits = 3
    \* ShadowFlow
    MaxTraces = 2
    MaxEvents = 1
    MaxDepth = 3
    \* Identity
    SeqRadix = 3
    BusinessRadix = 2
    CurrencyRadix = 2
    TablesPerDB = 2
    Channels = 3
    Stride = 3
    Segment <- MCSegment
    FakeUsers = 10
    MaxOutside = 1000
    \* Migrate
    Pod = {pod1, pod2}
    Versions = 4
    Script = 2
    Commented <- MCCommented
    NoUp = {2}
    NoDown = {3}
    MaxCommands = 3
    MaxMigrateFaults = 1
    \* SchemaRegistry
    Field = {amountField}
    MaxVersions = 2
    \* RateLimit
    m1 = m1
    m2 = m2
    Merchant = {m1, m2}
    Caller = {k1, k2}
    Updater = {u1, u2}
    Config <- MCConfig
    MaxKey = 1
    MaxBuckets = 3
    MaxTicks = 1
    MaxPushes = 2
    \* FeatureFlag
    ann = ann
    mia = mia
    zed = zed
    Who = {ann, mia, zed}
    Nobody = zed
    KeyBucket <- MCKeyBucket
    Full = 3
    Listed = {ann}
    MaxEdits = 1
    MaxLoadFaults = 1
    \* Binding
    MaxChanges = 3
    Broken = {3}
    \* Money
    Bits = 9
    Scale = 4
    DecimalPlaces = {0, 1, 2}
    \* TypedReads
    MaxWords = 2
INVARIANTS
    CheckpointSafe
    OneLiveLeader
    JobsAccounted
    EventsAccounted
    CountersAddUp
    ShadowStaysApart
    IdsKeepMeaning
    TableTellsSchema
    CompatHolds
    NoOverdraft
    MoneyExact
    ReadsAlike
    BoundFollows
PROPERTIES
    RolloutOnlyGrows
    Progress
\* most components stop when their bounds are used up
CHECK_DEADLOCK FALSE
