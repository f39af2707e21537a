----------------------------- MODULE SteamTrees -----------------------------
(***************************************************************************)
(* The state that the startup of every CS2 server pod on one node works    *)
(* on: the install tree on each pod's own volume, the install tree on the  *)
(* node's cache volume, the flock on the cache, and where the Python       *)
(* process of each pod is in src/cs2_server/__main__.py.                   *)
(*                                                                         *)
(* A tree is what matters of a CS2 install: for every game file the build  *)
(* whose content it has, the appmanifest, and the game files of the target *)
(* build that wait in steamapps/downloading/730.                           *)
(***************************************************************************)
EXTENDS SteamManifest, FiniteSets, SequencesExt

CONSTANTS
    Pods,           \* the server pods of the node, each with its own volume
    Cache,          \* names the tree on the node's cache volume
    Files,          \* the files of a CS2 install, outside steamapps/
    Free,           \* the holder of a lock nobody holds
    CachePods,      \* the pods started with CS2_CACHE_ROOT set
    AlwaysPods,     \* the pods started with STEAM_UPDATE_POLICY=always
    CacheRoot,      \* CS2_CACHE_ROOT, as a sequence of path components
    CacheMount,     \* where the pods mount the cache volume, likewise
    ManifestLast,   \* do tree copies replace the manifest after the game files?
    CacheFull,      \* has the cache volume no room for an install?
    FaultPoints     \* the places at which a pod may be killed

(* The places of a pod's process: "down" is killed or never started,       *)
(* "exited" is the death of the interpreter by an exception of its own.    *)
Stopped == {"down", "exited"}
SeedHolding == {"seed_plan", "seed_copy"}
SyncHolding == {"sync_plan", "sync_copy"}
Holding == SeedHolding \cup SyncHolding
Seeding == {"plan_seed", "seed_lock"} \cup SeedHolding
Updating == {"plan_update", "unlink", "clear", "steamcmd", "fetch"}
Syncing == {"plan_sync", "sync_lock"} \cup SyncHolding
Places == Stopped \cup Seeding \cup Updating \cup Syncing \cup {"prepare", "running"}

ASSUME TreesAssumption ==
    /\ Cache \notin Pods
    /\ Free \notin Pods
    /\ Files # {}
    /\ {"manifest", "downloading"} \cap Files = {}
    /\ CachePods \subseteq Pods
    /\ AlwaysPods \subseteq Pods
    /\ ManifestLast \in BOOLEAN
    /\ CacheFull \in BOOLEAN
    /\ FaultPoints \subseteq Places \ Stopped

Roots == Pods \cup {Cache}

\* What a recursive copy of a tree transfers, one entry at a time.
Entries == Files \cup {"manifest", "downloading"}

VARIABLES
    latest,     \* the build Valve's servers hand out
    files,      \* files[r][f]: the build of game file f in tree r, 0 if none
    manifest,   \* manifest[r]: the appmanifest of tree r, or Absent
    staged,     \* staged[r]: the files in steamapps/downloading/730 of tree r
    lock,       \* lock[r]: who holds the lock file on the volume of r
    pc,         \* pc[p]: where pod p is in main()
    todo,       \* todo[p]: the entries that p's running tree copy has left
    floor       \* floor[p]: latest when p's process began (history)

trees == <<files, manifest, staged>>
vars == <<latest, files, manifest, staged, lock, pc, todo, floor>>

TypeOK ==
    /\ latest \in Builds
    /\ files \in [Roots -> [Files -> BuildIds]]
    /\ manifest \in [Roots -> MaybeManifests]
    /\ staged \in [Roots -> SUBSET Files]
    /\ lock \in [Roots -> Pods \cup {Free}]
    /\ pc \in [Pods -> Places]
    /\ todo \in [Pods -> SUBSET Entries]
    /\ floor \in [Pods -> BuildIds]

Goto(p, place) == pc' = [pc EXCEPT ![p] = place]

\* Every game file of r has the content of build b.
Whole(r, b) == \A f \in Files : files[r][f] = b

(***************************************************************************)
(* SteamCache._lock.  The lock file is .cs2-cache.lock in the PARENT of    *)
(* the cache root.  It is one file for all pods only if that path lies on  *)
(* the cache volume; otherwise every pod opens a file of its own container *)
(* filesystem, and flock excludes nobody else.                             *)
(***************************************************************************)
LockPath == Append(Front(CacheRoot), ".cs2-cache.lock")
LockShared == IsPrefix(CacheMount, LockPath)

\* Mutant: the lock file in the container's own /tmp.
LockRoot_Local(p) == p

LockRoot(p) == IF LockShared THEN Cache ELSE p

\* Mutant: LOCK_SH instead of LOCK_EX, which several pods may hold.
AcquireLock_Shared(p) == lock' = [lock EXCEPT ![LockRoot(p)] = p]

\* fcntl.flock(LOCK_EX) blocks until nobody holds the lock of that file.
AcquireLock(p) ==
    /\ lock[LockRoot(p)] = Free
    /\ lock' = [lock EXCEPT ![LockRoot(p)] = p]

\* Leaving the with block.
ReleaseLock(p) == lock' = [lock EXCEPT ![LockRoot(p)] = Free]

(***************************************************************************)
(* _rsync_tree(src, dst), one entry at a time: rsync -a --delete, or the   *)
(* fallback _copy_tree_with_delete.  An entry that src lacks is deleted    *)
(* from dst, which copying "0", Absent or {} expresses.  rsync replaces a  *)
(* file by a rename, so an entry changes atomically; a half-written file   *)
(* of the fallback counts as not yet copied.  rsync walks a tree in sorted *)
(* order, game/ before steamapps/ (ManifestLast); iterdir() of the         *)
(* fallback has no order.                                                  *)
(***************************************************************************)
\* Mutant: the copy takes the manifest whenever it comes across it.
CopyOne_AnyOrder(p, src, dst, e) ==
    /\ todo' = [todo EXCEPT ![p] = @ \ {e}]
    /\ files' = IF e \in Files THEN [files EXCEPT ![dst][e] = files[src][e]] ELSE files
    /\ manifest' = IF e = "manifest" THEN [manifest EXCEPT ![dst] = manifest[src]] ELSE manifest
    /\ staged' = IF e = "downloading" THEN [staged EXCEPT ![dst] = staged[src]] ELSE staged

CopyOne(p, src, dst, e) ==
    /\ ManifestLast /\ e = "manifest" => todo[p] = {"manifest"}
    /\ todo' = [todo EXCEPT ![p] = @ \ {e}]
    /\ files' = IF e \in Files
                THEN [files EXCEPT ![dst][e] = files[src][e]]
                ELSE files
    /\ manifest' = IF e = "manifest"
                   THEN [manifest EXCEPT ![dst] = manifest[src]]
                   ELSE manifest
    /\ staged' = IF e = "downloading"
                 THEN [staged EXCEPT ![dst] = staged[src]]
                 ELSE staged

CopyEntry(p, src, dst) == \E e \in todo[p] : CopyOne(p, src, dst, e)
=============================================================================
