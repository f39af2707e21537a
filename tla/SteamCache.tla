----------------------------- MODULE SteamCache -----------------------------
(***************************************************************************)
(* src/cs2_server/steam_cache.py: seeding a server's tree from the node    *)
(* cache before the update, and syncing it back to the cache after it.     *)
(***************************************************************************)
EXTENDS SteamTrees

(* plan_seed() answers "seed" *)
SeedPlanned(p) ==
    /\ p \in CachePods
    /\ ReadyOnDisk(manifest[Cache])
    /\ ~ReadyOnDisk(manifest[p])

-----------------------------------------------------------------------------
(* seed_from_cache_if_available *)

\* The plan made without the lock.
PlanSeed(p) ==
    /\ pc[p] = "plan_seed"
    /\ Goto(p, IF SeedPlanned(p) THEN "seed_lock" ELSE "plan_update")
    /\ UNCHANGED <<latest, trees, lock, todo, floor>>

LockForSeed(p) ==
    /\ pc[p] = "seed_lock"
    /\ AcquireLock(p)
    /\ Goto(p, "seed_plan")
    /\ UNCHANGED <<latest, trees, todo, floor>>

\* The same plan made again under the lock: copy, or return.
ReplanSeed(p) ==
    /\ pc[p] = "seed_plan"
    /\ \/ /\ SeedPlanned(p)
          /\ Goto(p, "seed_copy")
          /\ todo' = [todo EXCEPT ![p] = Entries]
          /\ UNCHANGED lock
       \/ /\ ~SeedPlanned(p)
          /\ Goto(p, "plan_update")
          /\ ReleaseLock(p)
          /\ UNCHANGED todo
    /\ UNCHANGED <<latest, trees, floor>>

SeedCopy(p) ==
    /\ pc[p] = "seed_copy"
    /\ CopyEntry(p, Cache, p)
    /\ UNCHANGED <<latest, lock, pc, floor>>

\* Mutant: the lock is not released when the seed is complete.
SeedDone_KeepsLock(p) ==
    /\ pc[p] = "seed_copy"
    /\ todo[p] = {}
    /\ Goto(p, "plan_update")
    /\ UNCHANGED <<latest, trees, lock, todo, floor>>

SeedDone(p) ==
    /\ pc[p] = "seed_copy"
    /\ todo[p] = {}
    /\ ReleaseLock(p)
    /\ Goto(p, "plan_update")
    /\ UNCHANGED <<latest, trees, todo, floor>>

-----------------------------------------------------------------------------
(* sync_to_cache_if_needed *)

\* Mutant: CS2_CACHE_ROOT has a default, so every pod writes to the cache.
PlanSync_AnyPod(p) ==
    /\ pc[p] = "plan_sync"
    /\ Goto(p, IF ReadyOnDisk(manifest[p]) THEN "sync_lock" ELSE "prepare")
    /\ UNCHANGED <<latest, trees, lock, todo, floor>>

\* The server manifest is read without the lock and used under it.  Only
\* p's own process writes p's tree, so what it read stays what is there.
PlanSync(p) ==
    /\ pc[p] = "plan_sync"
    /\ Goto(p, IF p \in CachePods /\ ReadyOnDisk(manifest[p])
               THEN "sync_lock" ELSE "prepare")
    /\ UNCHANGED <<latest, trees, lock, todo, floor>>

LockForSync(p) ==
    /\ pc[p] = "sync_lock"
    /\ AcquireLock(p)
    /\ Goto(p, "sync_plan")
    /\ UNCHANGED <<latest, trees, todo, floor>>

\* reason "cache_current": the cache is ready and at the server's build.
CacheCurrent(p) ==
    /\ ReadyOnDisk(manifest[Cache])
    /\ manifest[Cache].build = manifest[p].build

CompareWithCache(p) ==
    /\ pc[p] = "sync_plan"
    /\ \/ /\ ~CacheCurrent(p)
          /\ Goto(p, "sync_copy")
          /\ todo' = [todo EXCEPT ![p] = Entries]
          /\ UNCHANGED lock
       \/ /\ CacheCurrent(p)
          /\ Goto(p, "prepare")
          /\ ReleaseLock(p)
          /\ UNCHANGED todo
    /\ UNCHANGED <<latest, trees, floor>>

\* A cache volume without room never takes the last entry.
SyncCopy(p) ==
    /\ pc[p] = "sync_copy"
    /\ CacheFull => \E a, b \in todo[p] : a # b
    /\ CopyEntry(p, p, Cache)
    /\ UNCHANGED <<latest, lock, pc, floor>>

\* rsync fails: check=True raises, the lock is released on the way out, and
\* nothing in main() catches the exception.
SyncFails(p) ==
    /\ pc[p] = "sync_copy"
    /\ CacheFull
    /\ todo' = [todo EXCEPT ![p] = {}]
    /\ ReleaseLock(p)
    /\ Goto(p, "exited")
    /\ UNCHANGED <<latest, trees, floor>>

SyncDone(p) ==
    /\ pc[p] = "sync_copy"
    /\ todo[p] = {}
    /\ ReleaseLock(p)
    /\ Goto(p, "prepare")
    /\ UNCHANGED <<latest, trees, todo, floor>>

-----------------------------------------------------------------------------
CacheStep(p) ==
    \/ PlanSeed(p) \/ LockForSeed(p) \/ ReplanSeed(p) \/ SeedCopy(p) \/ SeedDone(p)
    \/ PlanSync(p) \/ LockForSync(p) \/ CompareWithCache(p)
    \/ SyncCopy(p) \/ SyncFails(p) \/ SyncDone(p)
=============================================================================
