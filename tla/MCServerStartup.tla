-------------------------- MODULE MCServerStartup --------------------------
(* Small instances of ServerStartup for TLC. *)
EXTENDS ServerStartup

CONSTANTS p1, p2, f1, f2

\* Paths, as sequences of components.
MCCacheRoot == <<"cache", "cs2">>
MountAtParent == <<"cache">>          \* the lock file is on the volume
MountAtRoot == <<"cache", "cs2">>     \* what server_generator.py renders

Everywhere == Places \ Stopped
OnceRunning == {"running"}
NotInSyncCopy == Everywhere \ {"sync_copy"}

\* Pods of one policy, and files, are interchangeable.
OnlyFiles == Permutations({f1, f2})
=============================================================================
