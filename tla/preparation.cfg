SPECIFICATION Spec
CONSTANTS
    p1 = p1
    p2 = p2
    rcon = rcon
    menu = menu
    Cache = Cache
    MaxBuild = 2
    Plugins = {rcon, menu}
    PluginFiles <- MCPluginFiles
    Folder <- MCFolder
    Bundle <- MCBundle
    Modes <- MCModes
    Cfgs <- MCCfgs
    Layer <- MCLayer
    Pods = {p1}
    Deployed <- OneServer
INVARIANTS
    TypeOK
    PluginsAsDeclared
    MostSpecificCfg
    LibrariesOfTheBuild
