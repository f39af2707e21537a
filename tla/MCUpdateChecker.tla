-------------------------- MODULE MCUpdateChecker --------------------------
(* Small instances of UpdateChecker for TLC: one server without a cache, as *)
(* staging is deployed, and one or two checker jobs.                        *)
EXTENDS UpdateChecker

CONSTANTS f1, f2

MCCacheRoot == <<"cache", "cs2">>
MCCacheMount == <<"cache">>
Everywhere == Places \ Stopped
OnlyFiles == Permutations({f1, f2})
=============================================================================
