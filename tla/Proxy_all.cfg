CONSTANTS
    i1 = i1  i2 = i2  s1 = s1  s2 = s2  s3 = s3
    Reqs = {r1, r2}
    Probes = {r2}
    PoolSlots = {l1, l2}
    MaxConns = 2
    InputCap = 1
    MaxPipeline = 1
    FreeRetries = 0
    MaxFaults = 1
    MaxFills = 2
    MaxCmds = 3
    MaxSubs = 2
    MaxPipelineLen = 0
    HkProxies = {p1, p2}
    HkKeys = {k1, k2}
    HkReqs = {q1, q2}
    MaxEntries = 1
    QueueSize = 1
    MaxHkFills = 1
    PaSessions = {c1}
    PaCalls = {a1, a2, a3}
    PaACLs <- SomeACLs
    MaxPools = 2
    QlCallers = {q1, q2}
    QlLimits = {0, 1, 2}
    Ticks = 1
    MaxClock = 1
    MaxQlRev = 2
    AgSessions = {s1, s2, s3}
    AgIPs = {i1, i2}
    AgIP <- SessionIP
    MaxTracked = 1
    MaxFailures = 2
    LockDuration = 2
    MaxAgClock = 5
    CpUsers = {u1, u2}
    CpDbs = {0, 1}
    MaxClients = 2
    MaxQueued = 2
    MaxCpGets = 3
    MaxCpFaults = 1
    Parts = {"backend", "session", "cache", "acl", "qps", "auth", "pool"}
SPECIFICATION Spec
INVARIANTS ConnectionsAreSound SessionIsSound CacheIsSound ACLIsKept LimitIsKept ClientsAreClean
PROPERTIES SlotsGoOn SessionGoesOn BroadcastsReach GuardHolds
CHECK_DEADLOCK FALSE
