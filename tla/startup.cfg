SPECIFICATION Spec
CONSTANTS
    MaxBuild = 3
    Absent = Absent
    p1 = p1
    p2 = p2
    f1 = f1
    f2 = f2
    Pods = {p1, p2}
    Cache = Cache
    Files = {f1, f2}
    Free = Free
    CachePods = {p1}
    AlwaysPods = {p1}
    CacheRoot <- MCCacheRoot
    CacheMount <- MountAtRoot
    ManifestLast = TRUE
    CacheFull = FALSE
    FaultPoints <- Everywhere
SYMMETRY OnlyFiles
INVARIANTS
    TypeOK
    LatestIsWhole
    LaunchesWhole
    LaunchesFresh
PROPERTIES
    KeepsFirstDownload
    KeepsContract
    CacheNeverOlder
