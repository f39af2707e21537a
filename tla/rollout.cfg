SPECIFICATION Spec
CONSTANTS
    Unset = Unset
    NotInt = NotInt
    Slashed = {"../Menu"}
    Backslashed = {}
    DnsLabels = {"staging", "servers"}
    AbsolutePaths = {"/cache"}
    Catalog <- MCCatalog
    Cfgs <- MCCfgs
    ModeVersions <- MCModes
    ProfileVersions <- MCProfiles
    Committed <- MCCommitted
    EnvEdits <- MCEnvEdits
    Hostnames <- MCHostnames
    CheckerEdits <- MCCheckerEdits
    MaxEdits = 2
    h1 = h1
    People = {h1}
    MaxBots = 1
    Secrets = {"RCON_PASSWORD", "STEAM_ACCOUNT", "API_KEY"}
    MaxPods = 3
    MaxStarts = 2
    MaxInFlight = 2
INVARIANTS
    RolloutTypeOK
    GeneratedIsUnderstood
    GeneratedIsAccepted
    ContainedAsDeclared
    NoOneWhoStayed
    PromotedAsExpected
    PromotedIsOneProcess
PROPERTIES
    OnlyTheWindowKills
    QueriesEnd
