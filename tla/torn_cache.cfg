SPECIFICATION Spec
CONSTANTS
    MaxBuild = 2
    Absent = Absent
    p1 = p1
    p2 = p2
    f1 = f1
    f2 = f2
    Pods = {p1, p2}
    Cache = Cache
    Files = {f1, f2}
    Free = Free
    CachePods = {p1, p2}
    AlwaysPods = {p1, p2}
    CacheRoot <- MCCacheRoot
    CacheMount <- MountAtParent
    ManifestLast = TRUE
    CacheFull = FALSE
    FaultPoints <- Everywhere
INVARIANTS
    ServersSound
