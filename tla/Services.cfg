\* Every service in turn: two callers each, small caches, files and buffers that
\* overflow, up to three runs, two servers, three projects of which two have an index.
CONSTANTS
    Machines = {"circuit", "indexer", "log", "metrics", "sessions", "embedding"}
    Caller = {c1, c2}
    Asker = {k1, k2}
    Retrier = {r1}
    MaxFailures = 2
    MaxRetries = 2
    Thread = {t1, t2}
    MaxRuns = 3
    MaxFiles = 3
    MaxSize = 2
    Sizes = {1, 3}
    MaxLines = 6
    NoLog = NoLog
    Recorder = {q1, q2}
    Query <- MCQuery
    ZeroCapacity = 2
    TermCapacity = 1
    MaxRecords = 2
    MaxFlushes = 1
    NoOne = NoOne
    Server = {s1, s2}
    Session = {n1, n2}
    Project = {p1, p2, p3}
    Built = {p1, p2}
    Inode = {1, 2, 3, 4, 5, 6}
    MaxSessions = 1
    MaxOpens = 2
    Nothing = Nothing
    Text = {a, b, Blank}
    Blank = Blank
    MaxTexts = 2
    CacheSize = 2
    BatchSize = 1
    MaxAttempts = 2
    MaxCalls = 2
    Zero = Zero
    Nil = Nil
SPECIFICATION Spec
\* Bounds run out, and the metrics may block for ever.
CHECK_DEADLOCK FALSE
INVARIANTS
    RetryIsExact
    LockTellsTruth
    LogKeepsOrder
    MetricsAgree
    SessionsAreWhole
    EmbeddingOfItsText
PROPERTIES
    CircuitRecovers
