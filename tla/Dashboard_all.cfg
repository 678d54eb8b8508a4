CONSTANTS
    n1 = n1  n2 = n2  n3 = n3  n4 = n4  n5 = n5
    PtServers = {v1, v2}
    MaxPtJobs = 2
    PtConcurrent = 1
    RaCalls = {c1, c2}
    RaConcurrent = 1
    RaRetained = 1
    RaFetches = 1
    RaObjects <- Objects
    MaxRaObjects = 2
    TopN = 1
    MaxDepth = 1
    GsGroups = {1, 2}
    GsServers <- TwoGroups
    GsNone = NoOne
    MaxGsChanges = 2
    MaxGsSyncs = 2
    Sentinels = {t1, t2, t3}
    SnServers = {m1, m2}
    SnFirst = m1
    SnNone = NoOne
    Tries = 3
    MaxEpoch = 1
    MaxSnEvents = 1
    AcServers = {1, 2}
    AcProxies = {p1}
    AcUsers = {1}
    MaxAcDef = 1
    MaxAcRev = 2
    MaxAcOps = 4
    RbSlots = {0, 1, 2, 3}
    RbGroups = {1, 2, 3}
    RbBare = {4}
    MaxRbCalls = 2
    HaGroups = {1, 2}
    HaServers <- HaTwoGroups
    HaProxies = {p1}
    HaNone = NoOne
    MaxHaFaults = 2
    MaxHaOps = 1
    Parts = {"pitr", "rdb", "sync", "sentinel", "acl", "rebalance", "ha"}
SPECIFICATION Spec
CONSTRAINT FirstJobFirst
INVARIANTS RecoveryIsSafe AnalysisIsSound ReplicasFollow ServersAgree
PROPERTIES PtJobsEnd RaJobsEnd SyncsAreTaken SentinelsAreFollowed PlansAreGood LeadersAreKept GroupsAreLed
CHECK_DEADLOCK FALSE
