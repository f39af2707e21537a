SPECIFICATION CheckerSpec
CONSTANTS
    MaxBuild = 3
    Absent = Absent
    f1 = f1
    f2 = f2
    Server = server
    Pods = {server}
    Cache = Cache
    Files = {f1}
    Free = Free
    CachePods = {}
    AlwaysPods = {server}
    CacheRoot <- MCCacheRoot
    CacheMount <- MCCacheMount
    ManifestLast = TRUE
    CacheFull = FALSE
    FaultPoints <- Everywhere
    Cron = "cron"
    Manual = {}
PROPERTIES
    NewestGetsHandled
