------------------------ MODULE ServerStartup_proofs ------------------------
(***************************************************************************)
(* Theorems about ServerStartup, for every number of pods, files and       *)
(* builds, with machine-checked proofs.                                    *)
(***************************************************************************)
EXTENDS ServerStartup, TLAPS

(***************************************************************************)
(* Type correctness.  SteamCMD's steps read the target of the manifest it  *)
(* wrote when it began, so that manifest must be there while it fetches.   *)
(***************************************************************************)
FetchesWithManifest == \A p \in Pods : pc[p] = "fetch" => manifest[p] \in Manifests

TypeInv == TypeOK /\ FetchesWithManifest

USE MaxBuildAssumption, AbsentAssumption DEF Roots, Entries, Places, Stopped, Seeding, SeedHolding,
    Updating, Syncing, SyncHolding, Builds, BuildIds

\* The initial states are well typed.
LEMMA TypeInit == Init => TypeInv
BY TreesAssumption DEF Init, TypeInv, TypeOK, FetchesWithManifest, MaybeManifests, Manifests, Flags, Results,
    FirstRelease

\* A copied entry leaves every part of the trees well typed.
LEMMA CopyEntryType ==
    ASSUME TypeInv, NEW p \in Pods, NEW src \in Roots, NEW dst \in Roots, CopyEntry(p, src, dst)
    PROVE  /\ files' \in [Roots -> [Files -> BuildIds]]
           /\ manifest' \in [Roots -> MaybeManifests]
           /\ staged' \in [Roots -> SUBSET Files]
           /\ todo' \in [Pods -> SUBSET Entries]
<1>1. PICK e \in todo[p] : CopyOne(p, src, dst, e)
  BY DEF CopyEntry
<1>2. files' \in [Roots -> [Files -> BuildIds]]
  <2>1. CASE e \in Files
    BY <1>1, <2>1 DEF CopyOne, TypeInv, TypeOK
  <2>2. CASE e \notin Files
    BY <1>1, <2>2 DEF CopyOne, TypeInv, TypeOK
  <2> QED BY <2>1, <2>2
<1>3. manifest' \in [Roots -> MaybeManifests]
  BY <1>1 DEF CopyOne, TypeInv, TypeOK
<1>4. staged' \in [Roots -> SUBSET Files]
  BY <1>1 DEF CopyOne, TypeInv, TypeOK
<1>5. todo' \in [Pods -> SUBSET Entries]
  BY <1>1 DEF CopyOne, TypeInv, TypeOK
<1> QED BY <1>2, <1>3, <1>4, <1>5

\* Every step of the cache keeps the types.
LEMMA TypeCacheStep ==
    ASSUME TypeInv, NEW p \in Pods, CacheStep(p)
    PROVE  TypeInv'
<1> USE DEF TypeInv, TypeOK, FetchesWithManifest, Goto, trees
<1>1. CASE PlanSeed(p) BY <1>1 DEF PlanSeed
<1>2. CASE LockForSeed(p) BY <1>2 DEF LockForSeed, AcquireLock
<1>3. CASE ReplanSeed(p) BY <1>3 DEF ReplanSeed, ReleaseLock
<1>4. CASE SeedCopy(p)
  <2>1. CopyEntry(p, Cache, p) BY <1>4 DEF SeedCopy
  <2>2. \A q \in Pods : q # p => manifest'[q] = manifest[q] BY <2>1 DEF CopyEntry, CopyOne
  <2> QED BY <1>4, <2>1, <2>2, CopyEntryType DEF SeedCopy
<1>5. CASE SeedDone(p) BY <1>5 DEF SeedDone, ReleaseLock
<1>6. CASE PlanSync(p) BY <1>6 DEF PlanSync
<1>7. CASE LockForSync(p) BY <1>7 DEF LockForSync, AcquireLock
<1>8. CASE CompareWithCache(p) BY <1>8 DEF CompareWithCache, ReleaseLock
<1>9. CASE SyncCopy(p)
  <2>1. CopyEntry(p, p, Cache) BY <1>9 DEF SyncCopy
  <2>2. \A q \in Pods : manifest'[q] = manifest[q]
    BY <2>1, TreesAssumption DEF CopyEntry, CopyOne
  <2> QED BY <1>9, <2>1, <2>2, CopyEntryType DEF SyncCopy
<1>10. CASE SyncFails(p) BY <1>10 DEF SyncFails, ReleaseLock
<1>11. CASE SyncDone(p) BY <1>11 DEF SyncDone, ReleaseLock
<1> QED BY <1>1, <1>2, <1>3, <1>4, <1>5, <1>6, <1>7, <1>8, <1>9, <1>10, <1>11 DEF CacheStep

\* Every step of the update keeps the types.
LEMMA TypeInstallStep ==
    ASSUME TypeInv, NEW p \in Pods, InstallStep(p)
    PROVE  TypeInv'
<1> USE DEF TypeInv, TypeOK, FetchesWithManifest, MaybeManifests, Manifests, Flags, Results, Goto, trees
<1>1. CASE PlanUpdate(p) BY <1>1 DEF PlanUpdate
<1>2. CASE UnlinkManifest(p) BY <1>2 DEF UnlinkManifest
<1>3. CASE ClearWorkDirs(p) BY <1>3 DEF ClearWorkDirs
<1>4. CASE SteamUpToDate(p) BY <1>4 DEF SteamUpToDate
<1>5. CASE SteamBegins(p) BY <1>5 DEF SteamBegins
<1>6. CASE SteamDownloads(p) BY <1>6 DEF SteamDownloads
<1>7. CASE SteamInstalls(p) BY <1>7 DEF SteamInstalls
<1>8. CASE SteamFinishes(p) BY <1>8 DEF SteamFinishes
<1> QED BY <1>1, <1>2, <1>3, <1>4, <1>5, <1>6, <1>7, <1>8 DEF InstallStep

\* Every step keeps the types.
LEMMA TypeNext == TypeInv /\ [Next]_vars => TypeInv'
<1> SUFFICES ASSUME TypeInv, [Next]_vars PROVE TypeInv'
  OBVIOUS
<1> USE DEF TypeInv, TypeOK, FetchesWithManifest, Goto, trees
<1>1. CASE Release BY <1>1 DEF Release
<1>2. ASSUME NEW p \in Pods, Start(p) PROVE TypeInv' BY <1>2 DEF Start
<1>3. ASSUME NEW p \in Pods, CacheStep(p) PROVE TypeInv' BY <1>3, TypeCacheStep
<1>4. ASSUME NEW p \in Pods, InstallStep(p) PROVE TypeInv' BY <1>4, TypeInstallStep
<1>5. ASSUME NEW p \in Pods, Launch(p) PROVE TypeInv' BY <1>5 DEF Launch
<1>6. ASSUME NEW p \in Pods, Fault(p) PROVE TypeInv' BY <1>6 DEF Fault, Killed
<1>7. CASE UNCHANGED vars BY <1>7 DEF vars
<1> QED BY <1>1, <1>2, <1>3, <1>4, <1>5, <1>6, <1>7 DEF Next, Step

\* Every variable keeps its type, through every interleaving, kill and restart.
THEOREM TypeCorrect == Spec => []TypeOK
<1>1. Spec => []TypeInv BY TypeInit, TypeNext, PTL DEF Spec
<1>2. TypeInv => TypeOK BY DEF TypeInv
<1> QED BY <1>1, <1>2, PTL

-----------------------------------------------------------------------------
(***************************************************************************)
(* The cache lock.  Whoever is between acquiring and releasing owns the    *)
(* lock file it opened; when that file is one for all pods, nobody else    *)
(* can be there too.                                                       *)
(***************************************************************************)
LockInv == \A p \in Pods : pc[p] \in Holding => lock[LockRoot(p)] = p

\* No step lets a pod into the critical section without its lock, or takes
\* the lock from a pod that is in it.
LEMMA LockNext ==
    ASSUME TypeInv, LockInv, [Next]_vars
    PROVE  LockInv'
<1> USE TreesAssumption DEF TypeInv, TypeOK, LockInv, Holding, LockRoot, Goto, trees
<1>1. CASE Release BY <1>1 DEF Release
<1>2. ASSUME NEW p \in Pods, Start(p) PROVE LockInv' BY <1>2 DEF Start
<1>3. ASSUME NEW p \in Pods, CacheStep(p) PROVE LockInv'
  <2>1. CASE PlanSeed(p) BY <2>1 DEF PlanSeed
  <2>2. CASE LockForSeed(p) BY <2>2 DEF LockForSeed, AcquireLock
  <2>3. CASE ReplanSeed(p) BY <2>3 DEF ReplanSeed, ReleaseLock
  <2>4. CASE SeedCopy(p) BY <2>4 DEF SeedCopy
  <2>5. CASE SeedDone(p) BY <2>5 DEF SeedDone, ReleaseLock
  <2>6. CASE PlanSync(p) BY <2>6 DEF PlanSync
  <2>7. CASE LockForSync(p) BY <2>7 DEF LockForSync, AcquireLock
  <2>8. CASE CompareWithCache(p) BY <2>8 DEF CompareWithCache, ReleaseLock
  <2>9. CASE SyncCopy(p) BY <2>9 DEF SyncCopy
  <2>10. CASE SyncFails(p) BY <2>10 DEF SyncFails, ReleaseLock
  <2>11. CASE SyncDone(p) BY <2>11 DEF SyncDone, ReleaseLock
  <2> QED BY <1>3, <2>1, <2>2, <2>3, <2>4, <2>5, <2>6, <2>7, <2>8, <2>9, <2>10, <2>11 DEF CacheStep
<1>4. ASSUME NEW p \in Pods, InstallStep(p) PROVE LockInv'
  <2>1. UNCHANGED lock /\ pc' \in [Pods -> Places]
    BY <1>4, TypeInstallStep DEF InstallStep, PlanUpdate, UnlinkManifest, ClearWorkDirs, SteamUpToDate,
       SteamBegins, SteamDownloads, SteamInstalls, SteamFinishes
  <2>2. \A q \in Pods : pc'[q] \in Holding => pc'[q] = pc[q]
    BY <1>4 DEF InstallStep, PlanUpdate, UnlinkManifest, ClearWorkDirs, SteamUpToDate,
       SteamBegins, SteamDownloads, SteamInstalls, SteamFinishes
  <2> QED BY <2>1, <2>2
<1>5. ASSUME NEW p \in Pods, Launch(p) PROVE LockInv' BY <1>5 DEF Launch
<1>6. ASSUME NEW p \in Pods, Fault(p) PROVE LockInv' BY <1>6 DEF Fault, Killed
<1>7. CASE UNCHANGED vars BY <1>7 DEF vars
<1> QED BY <1>1, <1>2, <1>3, <1>4, <1>5, <1>6, <1>7 DEF Next, Step

\* The two invariants together hold in every reachable state.
LEMMA LockHolds == Spec => [](TypeInv /\ LockInv)
<1>1. Init => LockInv BY DEF Init, LockInv, Holding
<1>2. TypeInv /\ LockInv /\ [Next]_vars => (TypeInv /\ LockInv)'
  BY TypeNext, LockNext
<1> QED BY <1>1, <1>2, TypeInit, PTL DEF Spec

-----------------------------------------------------------------------------
(***************************************************************************)
(* What a copy has done so far, and what a step leaves sound.              *)
(***************************************************************************)
\* What a copy of tree src to dst by p has done so far.
CopiedSoFar(p, src, dst) ==
    /\ \A f \in Files \ todo[p] : files[dst][f] = files[src][f]
    /\ "manifest" \notin todo[p] => todo[p] = {} /\ manifest[dst] = manifest[src]

\* While SteamCMD works, the manifest carries its error code.
FetchNotReady == \A p \in Pods : pc[p] = "fetch" => manifest[p].result = 1

\* A tree whose files and manifest a step leaves alone stays sound.
LEMMA SoundFrame ==
    ASSUME NEW r, Sound(r), files'[r] = files[r], manifest'[r] = manifest[r]
    PROVE  Sound(r)'
BY DEF Sound, Whole

\* A progress that only concerns trees a step leaves alone stays true.
LEMMA CopiedFrame ==
    ASSUME NEW p, NEW src, NEW dst, CopiedSoFar(p, src, dst), todo'[p] = todo[p],
           files'[src] = files[src], files'[dst] = files[dst],
           manifest'[src] = manifest[src], manifest'[dst] = manifest[dst]
    PROVE  CopiedSoFar(p, src, dst)'
BY DEF CopiedSoFar

\* Copying one entry, with the manifest last, is progress.
LEMMA CopiedOne ==
    ASSUME TypeInv, ManifestLast,
           NEW p \in Pods, NEW src \in Roots, NEW dst \in Roots, src # dst,
           CopiedSoFar(p, src, dst), NEW e \in todo[p], CopyOne(p, src, dst, e)
    PROVE  CopiedSoFar(p, src, dst)'
<1> USE TreesAssumption DEF TypeInv, TypeOK, CopiedSoFar, CopyOne
<1>1. CASE e \in Files
  <2>1. "manifest" \in todo[p] BY <1>1
  <2>2. files'[src] = files[src] /\ \A f \in Files : files'[dst][f] = IF f = e THEN files[src][f] ELSE files[dst][f]
    BY <1>1
  <2> QED BY <1>1, <2>1, <2>2
<1>2. CASE e = "manifest" BY <1>2
<1>3. CASE e = "downloading" BY <1>3
<1> QED BY <1>1, <1>2, <1>3

-----------------------------------------------------------------------------
(***************************************************************************)
(* Every launch is ready and fresh, under any lock, copy order and kill:   *)
(* whatever the cache put into a server's volume, the update step comes    *)
(* after it.                                                               *)
(***************************************************************************)
Settled == Syncing \cup {"prepare", "running"}

FloorInv ==
    /\ \A p \in Pods : floor[p] <= latest
    /\ \A p \in Pods : pc[p] \notin Stopped => floor[p] >= 1

NoFutureBuild ==
    \A r \in Roots : manifest[r] # Absent =>
        manifest[r].build <= latest /\ manifest[r].target <= latest

FetchesFresh == \A p \in Pods : pc[p] = "fetch" => manifest[p].target >= floor[p]

SettledReady == \A p \in Pods : pc[p] \in Settled => ReadyOnDisk(manifest[p])

SettledFresh ==
    \A p \in AlwaysPods : pc[p] \in Settled => manifest[p].build >= floor[p]

FreshInv == FloorInv /\ NoFutureBuild /\ FetchesFresh /\ SettledReady /\ SettledFresh

\* No step of the cache touches the manifest of a pod that is past its update.
LEMMA FreshCacheStep ==
    ASSUME TypeInv, FreshInv, NEW p \in Pods, CacheStep(p)
    PROVE  FreshInv'
<1> USE TreesAssumption DEF TypeInv, TypeOK, FreshInv, FloorInv, NoFutureBuild, FetchesFresh,
    SettledReady, SettledFresh, Settled, Goto, trees
<1>1. CASE PlanSeed(p) BY <1>1 DEF PlanSeed
<1>2. CASE LockForSeed(p) BY <1>2 DEF LockForSeed
<1>3. CASE ReplanSeed(p) BY <1>3 DEF ReplanSeed
<1>4. CASE SeedCopy(p)
  <2>1. pc' = pc /\ latest' = latest /\ floor' = floor /\ pc[p] = "seed_copy" BY <1>4 DEF SeedCopy
  <2>2. \A q \in Roots : q # p => manifest'[q] = manifest[q]
    BY <1>4 DEF SeedCopy, CopyEntry, CopyOne
  <2>3. manifest'[p] = manifest[p] \/ manifest'[p] = manifest[Cache]
    BY <1>4 DEF SeedCopy, CopyEntry, CopyOne
  <2> QED BY <2>1, <2>2, <2>3
<1>5. CASE SeedDone(p) BY <1>5 DEF SeedDone
<1>6. CASE PlanSync(p) BY <1>6 DEF PlanSync
<1>7. CASE LockForSync(p) BY <1>7 DEF LockForSync
<1>8. CASE CompareWithCache(p)
  <2>1. UNCHANGED <<manifest, latest, floor>> /\ pc[p] = "sync_plan"
    BY <1>8 DEF CompareWithCache
  <2>2. CASE ~CacheCurrent(p)
    <3>1. pc' = [pc EXCEPT ![p] = "sync_copy"] BY <1>8, <2>2 DEF CompareWithCache
    <3> QED BY <2>1, <3>1
  <2>3. CASE CacheCurrent(p)
    <3>1. pc' = [pc EXCEPT ![p] = "prepare"] BY <1>8, <2>3 DEF CompareWithCache
    <3> QED BY <2>1, <3>1
  <2> QED BY <2>2, <2>3
<1>9. CASE SyncCopy(p)
  <2>1. pc' = pc /\ latest' = latest /\ floor' = floor BY <1>9 DEF SyncCopy
  <2>2. \A q \in Pods : manifest'[q] = manifest[q]
    BY <1>9 DEF SyncCopy, CopyEntry, CopyOne
  <2>3. manifest'[Cache] = manifest[Cache] \/ manifest'[Cache] = manifest[p]
    BY <1>9 DEF SyncCopy, CopyEntry, CopyOne
  <2> QED BY <2>1, <2>2, <2>3
<1>10. CASE SyncFails(p) BY <1>10 DEF SyncFails
<1>11. CASE SyncDone(p) BY <1>11 DEF SyncDone
<1> QED BY <1>1, <1>2, <1>3, <1>4, <1>5, <1>6, <1>7, <1>8, <1>9, <1>10, <1>11 DEF CacheStep

\* Every way out of the update leaves a ready manifest, and for the policy
\* "always" one of a build no older than floor.
LEMMA FreshInstallStep ==
    ASSUME TypeInv, FreshInv, NEW p \in Pods, InstallStep(p)
    PROVE  FreshInv'
<1> USE TreesAssumption DEF TypeInv, TypeOK, FetchesWithManifest, FreshInv, FloorInv, NoFutureBuild,
    FetchesFresh, SettledReady, SettledFresh, Settled, Goto, trees
<1>1. CASE PlanUpdate(p) BY <1>1 DEF PlanUpdate, NothingPlanned
<1>2. CASE UnlinkManifest(p) BY <1>2 DEF UnlinkManifest
<1>3. CASE ClearWorkDirs(p) BY <1>3 DEF ClearWorkDirs
<1>4. CASE SteamUpToDate(p) BY <1>4 DEF SteamUpToDate, UpToDate
<1>5. CASE SteamBegins(p)
  <2>1. manifest' = [manifest EXCEPT ![p] = manifest'[p]] /\ manifest'[p].target = latest
    BY <1>5 DEF SteamBegins
  <2>2. manifest'[p].build <= latest BY <1>5 DEF SteamBegins
  <2> QED BY <1>5, <2>1, <2>2 DEF SteamBegins
<1>6. CASE SteamDownloads(p) BY <1>6 DEF SteamDownloads
<1>7. CASE SteamInstalls(p) BY <1>7 DEF SteamInstalls
<1>8. CASE SteamFinishes(p)
  <2> DEFINE t == manifest[p].target
  <2>0. pc[p] = "fetch" BY <1>8 DEF SteamFinishes
  <2>1. t \in BuildIds /\ t >= floor[p] /\ floor[p] >= 1 /\ t <= latest
    <3>1. manifest[p] \in Manifests BY <2>0
    <3>2. t \in BuildIds BY <3>1 DEF Manifests
    <3>3. t >= floor[p] /\ floor[p] >= 1 BY <2>0
    <3>4. t <= latest BY <3>1, AbsentAssumption
    <3> QED BY <3>2, <3>3, <3>4
  <2>2. manifest' = [manifest EXCEPT ![p] = [build |-> t, target |-> t, flags |-> 4, result |-> 0]]
    BY <1>8 DEF SteamFinishes
  <2>3. ReadyOnDisk(manifest'[p])
    <3>1. manifest'[p] = [build |-> t, target |-> t, flags |-> 4, result |-> 0] BY <2>2
    <3>2. manifest'[p] \in Manifests BY <2>1, <3>1 DEF Manifests, Flags, Results
    <3>3. t # 0 /\ t # Absent /\ 0 # Absent BY <2>1
    <3> QED BY <3>1, <3>2, <3>3 DEF ReadyOnDisk, IsReady
  <2> QED BY <1>8, <2>1, <2>2, <2>3 DEF SteamFinishes
<1> QED BY <1>1, <1>2, <1>3, <1>4, <1>5, <1>6, <1>7, <1>8 DEF InstallStep

\* Every step keeps FreshInv.
LEMMA FreshNext ==
    ASSUME TypeInv, FreshInv, [Next]_vars
    PROVE  FreshInv'
<1> USE TreesAssumption DEF TypeInv, TypeOK, FreshInv, FloorInv, NoFutureBuild, FetchesFresh,
    SettledReady, SettledFresh, Settled, Goto, trees
<1>1. CASE Release
  <2>1. latest' = latest + 1 /\ UNCHANGED <<manifest, pc, floor>> BY <1>1 DEF Release
  <2>2. \A r \in Roots : manifest[r] # Absent => manifest[r].build \in Nat /\ manifest[r].target \in Nat
    BY DEF MaybeManifests, Manifests
  <2> QED BY <2>1, <2>2
<1>2. ASSUME NEW p \in Pods, Start(p) PROVE FreshInv' BY <1>2 DEF Start
<1>3. ASSUME NEW p \in Pods, CacheStep(p) PROVE FreshInv' BY <1>3, FreshCacheStep
<1>4. ASSUME NEW p \in Pods, InstallStep(p) PROVE FreshInv' BY <1>4, FreshInstallStep
<1>5. ASSUME NEW p \in Pods, Launch(p) PROVE FreshInv' BY <1>5 DEF Launch
<1>6. ASSUME NEW p \in Pods, Fault(p) PROVE FreshInv' BY <1>6 DEF Fault, Killed
<1>7. CASE UNCHANGED vars BY <1>7 DEF vars
<1> QED BY <1>1, <1>2, <1>3, <1>4, <1>5, <1>6, <1>7 DEF Next, Step

\* Nothing is running yet, and no build is newer than the first.
LEMMA FreshInit == Init => FreshInv
<1> SUFFICES ASSUME Init PROVE FreshInv
  OBVIOUS
<1>1. \A r \in Roots : manifest[r] \in {FirstRelease, Absent} BY DEF Init
<1>2. NoFutureBuild BY <1>1 DEF Init, NoFutureBuild, FirstRelease
<1> QED BY <1>2, TreesAssumption DEF Init, FreshInv, FloorInv, FetchesFresh, SettledReady, SettledFresh, Settled

\* FreshInv holds in every reachable state.
LEMMA FreshHolds == Spec => []FreshInv
<1>1. TypeInv /\ FreshInv /\ [Next]_vars => FreshInv'
  BY FreshNext
<1> QED BY <1>1, FreshInit, TypeInit, TypeNext, PTL DEF Spec

\* With the policy "always", no server runs a build older than the one Valve
\* handed out when its process began, under any fault, lock and copy order.
THEOREM LaunchesAreFresh == Spec => []LaunchesFresh
<1>1. FreshInv => LaunchesFresh BY DEF FreshInv, SettledFresh, Settled, LaunchesFresh
<1> QED BY <1>1, FreshHolds, PTL

-----------------------------------------------------------------------------
(***************************************************************************)
(* A first download survives.  Only a repair drops a manifest and a        *)
(* download, and the manifest of a first install never asks for one.       *)
(***************************************************************************)
RepairInv ==
    /\ \A p \in Pods : pc[p] = "unlink" => ~FirstInstall(p)
    /\ \A p \in Pods : pc[p] = "clear" => manifest[p] = Absent

\* What a step may do to the first download of p.
Kept(p) ==
    \/ ~FirstInstall(p)
    \/ pc[p] = "seed_copy"
    \/ manifest'[p] # Absent /\ staged[p] \subseteq staged'[p]
    \/ ReadyOnDisk(manifest'[p])
    \/ manifest'[p] # Absent /\ manifest'[p].target > manifest[p].target

\* repair_stale_state is never entered with the manifest of a first install, and
\* between its two steps there is no manifest at all.
LEMMA RepairNext ==
    ASSUME TypeInv, RepairInv, [Next]_vars
    PROVE  RepairInv'
<1> USE TreesAssumption DEF TypeInv, TypeOK, RepairInv, FirstInstall, Goto, trees
<1>1. CASE Release BY <1>1 DEF Release
<1>2. ASSUME NEW p \in Pods, Start(p) PROVE RepairInv' BY <1>2 DEF Start
<1>3. ASSUME NEW p \in Pods, CacheStep(p) PROVE RepairInv'
  <2>1. CASE SeedCopy(p)
    <3>1. pc' = pc /\ pc[p] = "seed_copy" BY <2>1 DEF SeedCopy
    <3>2. \A q \in Pods : q # p => manifest'[q] = manifest[q]
      BY <2>1 DEF SeedCopy, CopyEntry, CopyOne
    <3> QED BY <3>1, <3>2
  <2>2. CASE SyncCopy(p)
    <3>1. pc' = pc BY <2>2 DEF SyncCopy
    <3>2. \A q \in Pods : manifest'[q] = manifest[q] BY <2>2 DEF SyncCopy, CopyEntry, CopyOne
    <3> QED BY <3>1, <3>2
  <2>3. CASE PlanSeed(p) \/ LockForSeed(p) \/ ReplanSeed(p) \/ SeedDone(p)
    BY <2>3 DEF PlanSeed, LockForSeed, ReplanSeed, SeedDone
  <2>4. CASE PlanSync(p) \/ LockForSync(p) \/ CompareWithCache(p) \/ SyncFails(p) \/ SyncDone(p)
    BY <2>4 DEF PlanSync, LockForSync, CompareWithCache, SyncFails, SyncDone
  <2> QED BY <1>3, <2>1, <2>2, <2>3, <2>4 DEF CacheStep
<1>4. ASSUME NEW p \in Pods, InstallStep(p) PROVE RepairInv'
  <2>1. CASE PlanUpdate(p) BY <2>1 DEF PlanUpdate, RepairPlanned, NeedsRepair
  <2>2. CASE UnlinkManifest(p) BY <2>2 DEF UnlinkManifest
  <2>3. CASE ClearWorkDirs(p) BY <2>3 DEF ClearWorkDirs
  <2>4. CASE SteamUpToDate(p) \/ SteamBegins(p) BY <2>4 DEF SteamUpToDate, SteamBegins
  <2>5. CASE SteamDownloads(p) \/ SteamInstalls(p) BY <2>5 DEF SteamDownloads, SteamInstalls
  <2>6. CASE SteamFinishes(p) BY <2>6 DEF SteamFinishes
  <2> QED BY <1>4, <2>1, <2>2, <2>3, <2>4, <2>5, <2>6 DEF InstallStep
<1>5. ASSUME NEW p \in Pods, Launch(p) PROVE RepairInv' BY <1>5 DEF Launch
<1>6. ASSUME NEW p \in Pods, Fault(p) PROVE RepairInv' BY <1>6 DEF Fault, Killed
<1>7. CASE UNCHANGED vars BY <1>7 DEF vars
<1> QED BY <1>1, <1>2, <1>3, <1>4, <1>5, <1>6, <1>7 DEF Next, Step

\* SteamCMD resumes the download of its target and drops it only for a newer one.
LEMMA KeptByInstall ==
    ASSUME TypeInv, FreshInv, RepairInv, NEW p \in Pods, InstallStep(p), NEW q \in Pods
    PROVE  Kept(q)
<1>1. ASSUME manifest'[q] = manifest[q], staged[q] \subseteq staged'[q] PROVE Kept(q)
  BY <1>1 DEF Kept, FirstInstall
<1> USE TreesAssumption DEF TypeInv, TypeOK, Goto, trees
<1>2. CASE PlanUpdate(p) \/ SteamUpToDate(p) BY <1>1, <1>2 DEF PlanUpdate, SteamUpToDate
<1>3. CASE UnlinkManifest(p)
  BY <1>1, <1>3 DEF UnlinkManifest, RepairInv, Kept
<1>4. CASE ClearWorkDirs(p)
  <2>1. CASE q = p BY <1>4, <2>1 DEF ClearWorkDirs, RepairInv, Kept, FirstInstall
  <2>2. CASE q # p BY <1>1, <1>4, <2>2 DEF ClearWorkDirs
  <2> QED BY <2>1, <2>2
<1>5. CASE SteamBegins(p)
  <2>1. CASE q # p BY <1>1, <1>5, <2>1 DEF SteamBegins
  <2>2. CASE q = p /\ FirstInstall(p)
    <3>1. manifest'[p].target = latest /\ manifest'[p] # Absent
      <4>1. manifest'[p] = [build |-> IF manifest[p] = Absent THEN 0 ELSE manifest[p].build,
                            target |-> latest, flags |-> 6, result |-> 1]
        BY <1>5 DEF SteamBegins
      <4>2. manifest'[p] \in Manifests
        BY <4>1 DEF MaybeManifests, Manifests, Flags, Results
      <4> QED BY <4>1, <4>2
    <3>2. manifest[p].target <= latest /\ manifest[p].target \in Nat
      BY <2>2 DEF FirstInstall, FreshInv, NoFutureBuild, MaybeManifests, Manifests
    <3>3. manifest[p].target = latest => staged'[p] = staged[p]
      BY <1>5, <2>2 DEF SteamBegins, FirstInstall
    <3>4. manifest[p].target = latest \/ latest > manifest[p].target
      <4>1. latest \in Nat OBVIOUS
      <4> HIDE DEF TypeInv, TypeOK
      <4> QED BY <3>2, <4>1
    <3>5. staged'[p] = staged[p] \/ manifest'[p].target > manifest[p].target BY <3>1, <3>3, <3>4
    <3> HIDE DEF TypeInv, TypeOK
    <3> QED BY <2>2, <3>1, <3>5 DEF Kept
  <2> QED BY <2>1, <2>2 DEF Kept
<1>6. CASE SteamDownloads(p) BY <1>1, <1>6 DEF SteamDownloads
<1>7. CASE SteamInstalls(p) BY <1>1, <1>7 DEF SteamInstalls
<1>8. CASE SteamFinishes(p)
  <2>1. CASE q # p BY <1>1, <1>8, <2>1 DEF SteamFinishes
  <2>2. CASE q = p
    <3>1. FreshInv' BY FreshInstallStep
    <3>2. pc'[p] = "plan_sync" BY <1>8 DEF SteamFinishes
    <3> QED BY <2>2, <3>1, <3>2 DEF FreshInv, SettledReady, Settled, Kept
  <2> QED BY <2>1, <2>2
<1> QED BY <1>2, <1>3, <1>4, <1>5, <1>6, <1>7, <1>8 DEF InstallStep

\* Nothing else but a seed touches a server's manifest and download.
LEMMA KeptNext ==
    ASSUME TypeInv, FreshInv, RepairInv, [Next]_vars, NEW q \in Pods
    PROVE  Kept(q)
<1>1. ASSUME UNCHANGED <<manifest, staged>> PROVE Kept(q) BY <1>1 DEF Kept, FirstInstall
<1> USE DEF trees
<1>2. CASE Release BY <1>1, <1>2 DEF Release
<1>3. ASSUME NEW p \in Pods, Start(p) \/ Launch(p) \/ Fault(p) PROVE Kept(q)
  BY <1>1, <1>3 DEF Start, Launch, Fault, Killed
<1>4. ASSUME NEW p \in Pods, CacheStep(p) PROVE Kept(q)
  <2>1. CASE SeedCopy(p) \/ SyncCopy(p)
    <3>1. \/ p = q /\ pc[q] = "seed_copy"
          \/ manifest'[q] = manifest[q] /\ staged'[q] = staged[q]
      BY <2>1, TreesAssumption DEF SeedCopy, SyncCopy, CopyEntry, CopyOne, TypeInv, TypeOK
    <3> QED BY <3>1 DEF Kept, FirstInstall
  <2>2. CASE PlanSeed(p) \/ LockForSeed(p) \/ ReplanSeed(p) \/ SeedDone(p)
    BY <1>1, <2>2 DEF PlanSeed, LockForSeed, ReplanSeed, SeedDone
  <2>3. CASE PlanSync(p) \/ LockForSync(p) \/ CompareWithCache(p) \/ SyncFails(p) \/ SyncDone(p)
    BY <1>1, <2>3 DEF PlanSync, LockForSync, CompareWithCache, SyncFails, SyncDone
  <2> QED BY <1>4, <2>1, <2>2, <2>3 DEF CacheStep
<1>5. ASSUME NEW p \in Pods, InstallStep(p) PROVE Kept(q) BY <1>5, KeptByInstall
<1>6. CASE UNCHANGED vars BY <1>1, <1>6 DEF vars
<1> QED BY <1>2, <1>3, <1>4, <1>5, <1>6 DEF Next, Step

\* An interrupted first download is resumed and never thrown away, through kills,
\* repairs, releases and the other pods, under any lock and copy order
\* (manifest.py:41, docs/runbooks/crash-loop.md:50).
THEOREM FirstDownloadIsKept == Spec => KeepsFirstDownload
<1>1. Init => RepairInv BY DEF Init, RepairInv
<1>2. TypeInv /\ FreshInv /\ RepairInv /\ [Next]_vars => RepairInv' /\ \A q \in Pods : Kept(q)
  BY RepairNext, KeptNext
<1>3. (\A q \in Pods : Kept(q)) =>
        \A p \in Pods :
            \/ ~FirstInstall(p)
            \/ pc[p] = "seed_copy"
            \/ manifest'[p] # Absent /\ staged[p] \subseteq staged'[p]
            \/ ReadyOnDisk(manifest'[p])
            \/ manifest'[p] # Absent /\ manifest'[p].target > manifest[p].target
  BY DEF Kept
<1> QED
  BY <1>1, <1>2, <1>3, TypeInit, TypeNext, FreshInit, FreshNext, PTL DEF Spec, KeepsFirstDownload

-----------------------------------------------------------------------------
(***************************************************************************)
(* The cache of one pod.  Where only one pod of the node uses the cache,   *)
(* what is in it was that pod's, whose own install never goes back; the    *)
(* other pod of run cache_goes_back is all there is to it.                 *)
(***************************************************************************)
SoleCachePod == \A p, q \in CachePods : p = q

\* Nobody else is on the way into the cache.
OnlyCachePods == \A p \in Pods : pc[p] \in {"seed_lock", "sync_lock"} \cup Holding => p \in CachePods

\* The pod's ready install, and the one it fetches, is not older than the cache.
CacheBehind ==
    \A p \in CachePods : ReadyOnDisk(manifest[Cache]) =>
        /\ ReadyOnDisk(manifest[p]) => manifest[Cache].build <= manifest[p].build
        /\ pc[p] = "fetch" => manifest[Cache].build <= manifest[p].target

ForwardInv == OnlyCachePods /\ CacheBehind

\* The cache's manifest is not replaced by that of an older build.
Forward ==
    ReadyOnDisk(manifest[Cache]) /\ ReadyOnDisk(manifest'[Cache])
        => manifest'[Cache].build >= manifest[Cache].build

\* What is compared are numbers.
LEMMA BuildsCompared ==
    ASSUME TypeInv, NEW r \in Roots, ReadyOnDisk(manifest[r])
    PROVE  manifest[r].build \in Nat
BY DEF TypeInv, TypeOK, ReadyOnDisk, MaybeManifests, Manifests

\* A step that leaves all manifests alone moves nobody back.
LEMMA ForwardFrame ==
    ASSUME TypeInv, CacheBehind, UNCHANGED manifest,
           \A p \in CachePods : pc'[p] = "fetch" => pc[p] = "fetch"
    PROVE  CacheBehind' /\ Forward
<1>1. CacheBehind'
  BY DEF CacheBehind
<1>2. Forward
  BY BuildsCompared DEF Forward
<1> QED BY <1>1, <1>2

\* Only a pod with a cache is ever on the way into it.
LEMMA OnlyCachePodsNext ==
    ASSUME TypeInv, OnlyCachePods, [Next]_vars
    PROVE  OnlyCachePods'
<1> USE DEF TypeInv, TypeOK, OnlyCachePods, Holding, Goto
<1>1. ASSUME NEW p \in Pods, CacheStep(p) PROVE OnlyCachePods'
  <2>1. CASE PlanSeed(p) \/ LockForSeed(p) \/ ReplanSeed(p) \/ SeedCopy(p) \/ SeedDone(p)
    BY <2>1 DEF PlanSeed, SeedPlanned, LockForSeed, ReplanSeed, SeedCopy, SeedDone
  <2>2. CASE PlanSync(p) \/ LockForSync(p) \/ CompareWithCache(p)
    BY <2>2 DEF PlanSync, LockForSync, CompareWithCache
  <2>3. CASE SyncCopy(p) \/ SyncFails(p) \/ SyncDone(p)
    BY <2>3 DEF SyncCopy, SyncFails, SyncDone
  <2> QED BY <1>1, <2>1, <2>2, <2>3 DEF CacheStep
<1>2. ASSUME NEW p \in Pods, InstallStep(p) PROVE OnlyCachePods'
  BY <1>2 DEF InstallStep, PlanUpdate, UnlinkManifest, ClearWorkDirs, SteamUpToDate, SteamBegins,
     SteamDownloads, SteamInstalls, SteamFinishes
<1>3. ASSUME NEW p \in Pods, Start(p) \/ Launch(p) \/ Fault(p) PROVE OnlyCachePods'
  BY <1>3 DEF Start, Launch, Fault, Killed
<1>4. CASE Release \/ UNCHANGED vars BY <1>4 DEF Release, vars
<1> QED BY <1>1, <1>2, <1>3, <1>4 DEF Next, Step

\* Only one pod at a time is between acquiring and releasing the cache: because the
\* lock file is on the cache volume, or because no other pod of the node has the
\* cache.  The pods that the generator renders have a lock file each, so for them
\* the second reason is the only one (run private_lock; SteamCache._lock).
THEOREM CacheIsSerialized ==
    ASSUME LockShared \/ SoleCachePod
    PROVE  Spec => []CacheSerialized
<1>1. LockInv /\ OnlyCachePods => CacheSerialized
  BY DEF LockInv, OnlyCachePods, SoleCachePod, CacheSerialized, LockRoot
<1>2. Init => OnlyCachePods BY DEF Init, OnlyCachePods, Holding
<1>3. TypeInv /\ OnlyCachePods /\ [Next]_vars => OnlyCachePods' BY OnlyCachePodsNext
<1> QED BY <1>1, <1>2, <1>3, LockHolds, PTL DEF Spec

\* The cache keeps to the pod's build.
LEMMA ForwardCacheStep ==
    ASSUME TypeInv, SoleCachePod, ForwardInv, NEW p \in Pods, CacheStep(p)
    PROVE  ForwardInv' /\ Forward
<1>1. OnlyCachePods' BY OnlyCachePodsNext DEF ForwardInv, Next, Step
<1>2. CacheBehind' /\ Forward
  <2>1. CASE SeedCopy(p)
    <3>1. pc[p] = "seed_copy" /\ pc' = pc BY <2>1 DEF SeedCopy
    <3>2. p \in CachePods BY <3>1 DEF ForwardInv, OnlyCachePods, Holding
    <3>3. /\ manifest'[Cache] = manifest[Cache]
          /\ manifest'[p] \in {manifest[p], manifest[Cache]}
      BY <2>1, TreesAssumption DEF SeedCopy, CopyEntry, CopyOne, TypeInv, TypeOK
    <3>4. \A q \in CachePods : q = p BY <3>2 DEF SoleCachePod
    <3>5. ReadyOnDisk(manifest[Cache]) => manifest[Cache].build \in Nat BY BuildsCompared
    <3>6. Forward BY <3>3, <3>5 DEF Forward
    <3>7. CacheBehind' BY <3>1, <3>3, <3>4, <3>5 DEF ForwardInv, CacheBehind
    <3> QED BY <3>6, <3>7
  <2>2. CASE SyncCopy(p)
    <3>1. pc[p] = "sync_copy" /\ pc' = pc BY <2>2 DEF SyncCopy
    <3>2. p \in CachePods BY <3>1 DEF ForwardInv, OnlyCachePods, Holding
    <3>3. /\ manifest'[p] = manifest[p]
          /\ manifest'[Cache] \in {manifest[p], manifest[Cache]}
      BY <2>2, TreesAssumption DEF SyncCopy, CopyEntry, CopyOne, TypeInv, TypeOK
    <3>4. \A q \in CachePods : q = p BY <3>2 DEF SoleCachePod
    <3>5. /\ ReadyOnDisk(manifest[Cache]) => manifest[Cache].build \in Nat
          /\ ReadyOnDisk(manifest[p]) => manifest[p].build \in Nat
      BY BuildsCompared
    <3>6. Forward BY <3>2, <3>3, <3>5 DEF Forward, ForwardInv, CacheBehind
    <3>7. CacheBehind' BY <3>1, <3>3, <3>4, <3>5 DEF ForwardInv, CacheBehind
    <3> QED BY <3>6, <3>7
  <2>3. CASE PlanSeed(p) \/ LockForSeed(p) \/ ReplanSeed(p) \/ SeedDone(p)
    <3>1. UNCHANGED manifest /\ \A q \in Pods : pc'[q] = "fetch" => pc[q] = "fetch"
      BY <2>3 DEF PlanSeed, LockForSeed, ReplanSeed, SeedDone, Goto, trees, TypeInv, TypeOK
    <3> QED BY <3>1, ForwardFrame, TreesAssumption DEF ForwardInv
  <2>4. CASE PlanSync(p) \/ LockForSync(p) \/ CompareWithCache(p) \/ SyncFails(p) \/ SyncDone(p)
    <3>1. UNCHANGED manifest /\ \A q \in Pods : pc'[q] = "fetch" => pc[q] = "fetch"
      BY <2>4 DEF PlanSync, LockForSync, CompareWithCache, SyncFails, SyncDone, Goto, trees, TypeInv, TypeOK
    <3> QED BY <3>1, ForwardFrame, TreesAssumption DEF ForwardInv
  <2> QED BY <2>1, <2>2, <2>3, <2>4 DEF CacheStep
<1> QED BY <1>1, <1>2 DEF ForwardInv

\* SteamCMD fetches the latest build, which no cache is ahead of.
LEMMA ForwardInstallStep ==
    ASSUME TypeInv, FreshInv, ForwardInv, NEW p \in Pods, InstallStep(p)
    PROVE  ForwardInv' /\ Forward
<1>1. OnlyCachePods' BY OnlyCachePodsNext DEF ForwardInv, Next, Step
<1>2. CASE PlanUpdate(p) \/ ClearWorkDirs(p) \/ SteamUpToDate(p) \/ SteamDownloads(p) \/ SteamInstalls(p)
  <2>1. UNCHANGED manifest /\ \A q \in Pods : pc'[q] = "fetch" => pc[q] = "fetch"
    BY <1>2 DEF PlanUpdate, ClearWorkDirs, SteamUpToDate, SteamDownloads, SteamInstalls, Goto, trees,
       TypeInv, TypeOK
  <2>2. CacheBehind' /\ Forward BY <2>1, ForwardFrame, TreesAssumption DEF ForwardInv
  <2> QED BY <1>1, <2>2 DEF ForwardInv
<1>3. ASSUME manifest'[Cache] = manifest[Cache],
             \A q \in Pods : q # p => manifest'[q] = manifest[q] /\ pc'[q] = pc[q],
             p \in CachePods /\ ReadyOnDisk(manifest[Cache]) =>
                /\ ReadyOnDisk(manifest'[p]) => manifest[Cache].build <= manifest'[p].build
                /\ pc'[p] = "fetch" => manifest[Cache].build <= manifest'[p].target
      PROVE  ForwardInv' /\ Forward
  <2>1. CacheBehind' BY <1>3, TreesAssumption DEF ForwardInv, CacheBehind
  <2>2. Forward BY <1>3, BuildsCompared DEF Forward
  <2> QED BY <1>1, <2>1, <2>2 DEF ForwardInv
<1>4. Cache # p /\ p \in Roots /\ DOMAIN manifest = Roots /\ DOMAIN pc = Pods
  BY TreesAssumption DEF TypeInv, TypeOK
<1>5. CASE UnlinkManifest(p)
  BY <1>3, <1>4, <1>5 DEF UnlinkManifest, ReadyOnDisk, Goto
<1>6. CASE SteamBegins(p)
  <2>1. /\ manifest'[p].target = latest /\ manifest'[p].result = 1
        /\ manifest'[Cache] = manifest[Cache]
        /\ \A q \in Pods : q # p => manifest'[q] = manifest[q] /\ pc'[q] = pc[q]
    BY <1>4, <1>6 DEF SteamBegins, Goto
  <2>2. ~ReadyOnDisk(manifest'[p]) BY <2>1 DEF ReadyOnDisk, IsReady
  <2>3. ReadyOnDisk(manifest[Cache]) => manifest[Cache].build <= latest
    BY DEF FreshInv, NoFutureBuild, ReadyOnDisk
  <2> QED BY <1>3, <2>1, <2>2, <2>3
<1>7. CASE SteamFinishes(p)
  <2>1. /\ manifest'[p].build = manifest[p].target /\ pc[p] = "fetch" /\ pc'[p] = "plan_sync"
        /\ manifest'[Cache] = manifest[Cache]
        /\ \A q \in Pods : q # p => manifest'[q] = manifest[q] /\ pc'[q] = pc[q]
    BY <1>4, <1>7 DEF SteamFinishes, Goto
  <2> QED BY <1>3, <2>1 DEF ForwardInv, CacheBehind
<1> QED BY <1>2, <1>5, <1>6, <1>7 DEF InstallStep

\* Every step keeps it, and moves the cache forward or not at all.
LEMMA ForwardNext ==
    ASSUME TypeInv, FreshInv, SoleCachePod, ForwardInv, [Next]_vars
    PROVE  ForwardInv' /\ Forward
<1>1. ASSUME NEW p \in Pods, Start(p) \/ Launch(p) \/ Fault(p) PROVE ForwardInv' /\ Forward
  <2>1. OnlyCachePods' BY OnlyCachePodsNext DEF ForwardInv
  <2>2. UNCHANGED manifest /\ \A q \in Pods : pc'[q] = "fetch" => pc[q] = "fetch"
    BY <1>1 DEF Start, Launch, Fault, Killed, Goto, trees, TypeInv, TypeOK
  <2> QED BY <2>1, <2>2, ForwardFrame, TreesAssumption DEF ForwardInv
<1>2. CASE Release \/ UNCHANGED vars
  <2>1. UNCHANGED <<manifest, pc>> BY <1>2 DEF Release, vars, trees
  <2> QED BY <2>1, ForwardFrame DEF ForwardInv, OnlyCachePods
<1> QED BY <1>1, <1>2, ForwardCacheStep, ForwardInstallStep DEF Next, Step

\* Nobody copies yet, and what is installed is the first build.
LEMMA ForwardInit == Init => ForwardInv
<1> SUFFICES ASSUME Init PROVE ForwardInv
  OBVIOUS
<1>1. OnlyCachePods BY DEF Init, OnlyCachePods, Holding
<1>2. \A r \in Roots : manifest[r] \in {FirstRelease, Absent} BY DEF Init
<1>3. \A r \in Roots : ReadyOnDisk(manifest[r]) => manifest[r].build = 1
  BY <1>2 DEF ReadyOnDisk, FirstRelease
<1>4. \A p \in CachePods : p \in Roots /\ pc[p] # "fetch" BY TreesAssumption DEF Init
<1>5. CacheBehind BY <1>3, <1>4 DEF CacheBehind
<1> QED BY <1>1, <1>5 DEF ForwardInv

\* With one pod using it, the cache never goes back to an older build, whatever
\* the pod's policy and wherever it is killed, and with any lock and copy order
\* (sync_to_cache_if_needed).
THEOREM SoleCacheNeverOlder ==
    ASSUME SoleCachePod
    PROVE  Spec => CacheNeverOlder
<1>1. TypeInv /\ FreshInv /\ ForwardInv /\ [Next]_vars => ForwardInv' /\ Forward
  BY ForwardNext
<1>2. Forward => (ReadyOnDisk(manifest[Cache]) /\ ReadyOnDisk(manifest'[Cache])
                    => manifest'[Cache].build >= manifest[Cache].build)
  BY DEF Forward
<1> QED
  BY <1>1, <1>2, ForwardInit, TypeInit, TypeNext, FreshInit, FreshNext, PTL DEF Spec, CacheNeverOlder

-----------------------------------------------------------------------------
(***************************************************************************)
(* What a torn cache does to a launch.  The cache, and a volume seeded     *)
(* from it, may hold a ready manifest over files of two    *)
(* builds (run torn_cache).  Where one pod of the node uses the cache, or  *)
(* the cache never has room for a whole copy, such a manifest is always    *)
(* of a build before the latest one; a pod with the policy "always" has it *)
(* repaired before the launch.  The lock plays no part in this: it may be  *)
(* as private as in run private_lock, and pods may be killed anywhere.     *)
(***************************************************************************)
OldTears ==
    /\ ManifestLast
    /\ CachePods \subseteq AlwaysPods
    /\ SoleCachePod \/ CacheFull

\* SteamCMD will not take the tree for an install of the latest build.
Behind(r) == ReadyOnDisk(manifest[r]) => manifest[r].build < latest

TornIsOld == \A r \in Roots : Sound(r) \/ Behind(r)

OthersSound == \A p \in Pods \ CachePods : Sound(p)

SettledSound == \A p \in Pods : pc[p] \in Settled => Sound(p)

\* A seed from a cache that another pod is tearing meanwhile copies an old build.
SeedsOld ==
    \A p \in Pods : pc[p] = "seed_copy" =>
        /\ CopiedSoFar(p, Cache, p) \/ Behind(Cache)
        /\ "manifest" \in todo[p] => ~ReadyOnDisk(manifest[p])
        /\ "manifest" \notin todo[p] => todo[p] = {}

\* A sync tears no cache that names the latest build, and is alone with the cache
\* unless it never comes to the manifest.
SyncsOld ==
    \A p \in Pods : pc[p] = "sync_copy" =>
        /\ "manifest" \in todo[p] => Behind(Cache)
        /\ ~CacheFull => CopiedSoFar(p, p, Cache)
        /\ CacheFull => "manifest" \in todo[p]

FullCache == CacheFull => manifest[Cache] \in {Absent, FirstRelease}

TearsInv ==
    /\ OnlyCachePods
    /\ FullCache
    /\ TornIsOld
    /\ OthersSound
    /\ SettledSound
    /\ FetchNotReady
    /\ SeedsOld
    /\ SyncsOld

\* What is behind the latest build stays behind it.
LEMMA BehindFrame ==
    ASSUME TypeInv, NEW r \in Roots, Behind(r), manifest'[r] = manifest[r],
           latest' \in Nat, latest' >= latest
    PROVE  Behind(r)'
<1>1. ReadyOnDisk(manifest[r]) => manifest[r].build \in Nat BY BuildsCompared
<1>2. latest \in Nat BY DEF TypeInv, TypeOK, Builds
<1> QED BY <1>1, <1>2 DEF Behind

\* A step that changes no tree, starts or continues no copy, and settles only
\* sound trees keeps TearsInv.
LEMMA TearsOffTrees ==
    ASSUME TypeInv, TearsInv, OnlyCachePods', UNCHANGED <<files, manifest>>,
           latest' \in Nat, latest' >= latest,
           \A q \in Pods : pc'[q] \in {"seed_copy", "sync_copy", "fetch"} => pc'[q] = pc[q] /\ todo'[q] = todo[q],
           \A q \in Pods : pc'[q] \in Settled => pc[q] \in Settled \/ Sound(q)
    PROVE  TearsInv'
<1> USE DEF TearsInv
<1>1. \A r \in Roots : (Sound(r) => Sound(r)') /\ (Behind(r) => Behind(r)')
  BY SoundFrame, BehindFrame
<1>2. Cache \in Roots /\ Pods \subseteq Roots BY DEF Roots
<1>3. FullCache' BY DEF FullCache
<1>4. TornIsOld' BY <1>1 DEF TornIsOld
<1>5. OthersSound' BY <1>1, <1>2 DEF OthersSound
<1>6. SettledSound' BY <1>1, <1>2 DEF SettledSound
<1>7. FetchNotReady' BY DEF FetchNotReady
<1>8. SeedsOld' BY <1>1, <1>2 DEF SeedsOld, CopiedSoFar
<1>9. SyncsOld' BY <1>1, <1>2 DEF SyncsOld, CopiedSoFar
<1> QED BY <1>3, <1>4, <1>5, <1>6, <1>7, <1>8, <1>9

\* So does a step of the update of p, which leaves a sound tree.
LEMMA TearsOnOwnTree ==
    ASSUME TypeInv, TearsInv, OnlyCachePods', NEW p \in Pods, UNCHANGED <<latest, todo>>,
           pc[p] \notin Holding, pc'[p] \notin Holding,
           \A q \in Pods : q # p => pc'[q] = pc[q],
           \A r \in Roots : r # p => files'[r] = files[r] /\ manifest'[r] = manifest[r],
           Sound(p)', pc'[p] = "fetch" => manifest'[p].result = 1
    PROVE  TearsInv'
<1> USE TreesAssumption DEF TearsInv, Holding
<1>1. \A r \in Roots : r # p => (Sound(r) => Sound(r)') /\ (Behind(r) => Behind(r)')
  BY SoundFrame DEF Behind
<1>2. Cache \in Roots /\ Cache # p /\ Pods \subseteq Roots BY DEF Roots
<1>3. FullCache' BY <1>2 DEF FullCache
<1>4. TornIsOld' BY <1>1 DEF TornIsOld
<1>5. OthersSound' BY <1>1, <1>2 DEF OthersSound
<1>6. SettledSound' BY <1>1, <1>2 DEF SettledSound
<1>7. FetchNotReady' BY <1>2 DEF FetchNotReady
<1>8. SeedsOld'
  <2> SUFFICES ASSUME NEW q \in Pods, pc'[q] = "seed_copy"
      PROVE  /\ CopiedSoFar(q, Cache, q)' \/ Behind(Cache)'
             /\ "manifest" \in todo'[q] => ~ReadyOnDisk(manifest'[q])
             /\ "manifest" \notin todo'[q] => todo'[q] = {}
    BY DEF SeedsOld
  <2>1. q # p /\ pc[q] = "seed_copy" OBVIOUS
  <2>2. CopiedSoFar(q, Cache, q) => CopiedSoFar(q, Cache, q)' BY <1>2, <2>1, CopiedFrame
  <2> QED BY <1>1, <1>2, <2>1, <2>2 DEF SeedsOld
<1>9. SyncsOld'
  <2> SUFFICES ASSUME NEW q \in Pods, pc'[q] = "sync_copy"
      PROVE  /\ "manifest" \in todo'[q] => Behind(Cache)'
             /\ ~CacheFull => CopiedSoFar(q, q, Cache)'
             /\ CacheFull => "manifest" \in todo'[q]
    BY DEF SyncsOld
  <2>1. q # p /\ pc[q] = "sync_copy" OBVIOUS
  <2>2. CopiedSoFar(q, q, Cache) => CopiedSoFar(q, q, Cache)' BY <1>2, <2>1, CopiedFrame
  <2> QED BY <1>1, <1>2, <2>1, <2>2 DEF SyncsOld
<1> QED BY <1>3, <1>4, <1>5, <1>6, <1>7, <1>8, <1>9

\* A pod that finds the cache at another build than its own finds an old one there.
LEMMA CacheOlder ==
    ASSUME TypeInv, FreshInv, OldTears, TearsInv, SoleCachePod => CacheBehind,
           NEW p \in CachePods, ReadyOnDisk(manifest[p]), ~CacheCurrent(p)
    PROVE  Behind(Cache)
<1> SUFFICES ASSUME ReadyOnDisk(manifest[Cache]) PROVE manifest[Cache].build < latest
  BY DEF Behind
<1> DEFINE c == manifest[Cache].build
           b == manifest[p].build
<1>1. p \in Roots /\ Cache \in Roots BY TreesAssumption DEF Roots
<1>2. c \in Nat /\ b \in Nat /\ c # b BY <1>1, BuildsCompared DEF CacheCurrent
<1>3. b <= latest BY <1>1 DEF FreshInv, NoFutureBuild, ReadyOnDisk
<1>4. c <= b
  <2>1. CASE SoleCachePod BY <2>1 DEF CacheBehind
  <2>2. CASE CacheFull
    <3>1. c = 1 BY <2>2 DEF TearsInv, FullCache, FirstRelease, ReadyOnDisk
    <3>2. b # 0 BY DEF ReadyOnDisk, IsReady
    <3> QED BY <1>2, <3>1, <3>2
  <2> QED BY <2>1, <2>2 DEF OldTears
<1>5. latest \in Nat BY DEF TypeInv, TypeOK, Builds
<1> QED BY <1>2, <1>3, <1>4, <1>5

\* A copy begins: of the cache over a tree that is not ready, or over an old cache.
LEMMA TearsCopyStarts ==
    ASSUME TypeInv, TearsInv, OnlyCachePods', NEW p \in Pods, UNCHANGED <<latest, files, manifest>>,
           todo' = [todo EXCEPT ![p] = Entries],
           \/ /\ pc' = [pc EXCEPT ![p] = "seed_copy"]
              /\ pc[p] \notin Settled /\ ~ReadyOnDisk(manifest[p])
           \/ /\ pc' = [pc EXCEPT ![p] = "sync_copy"]
              /\ pc[p] \in Settled /\ Behind(Cache)
    PROVE  TearsInv'
<1> USE DEF TearsInv, TypeInv, TypeOK
<1>1. \A r : (Sound(r) => Sound(r)') /\ (Behind(r) => Behind(r)')
  BY SoundFrame DEF Behind
<1>2. \A q \in Pods : todo'[q] = IF q = p THEN Entries ELSE todo[q] OBVIOUS
<1>3. "manifest" \in Entries /\ Files \subseteq Entries BY DEF Entries
<1>4. FullCache' BY DEF FullCache
<1>5. TornIsOld' BY <1>1 DEF TornIsOld
<1>6. OthersSound' BY <1>1 DEF OthersSound
<1>7. SettledSound' BY <1>1 DEF SettledSound, Settled, Syncing
<1>8. FetchNotReady' BY DEF FetchNotReady
<1>9. SeedsOld'
  <2> SUFFICES ASSUME NEW q \in Pods, pc'[q] = "seed_copy"
      PROVE  /\ CopiedSoFar(q, Cache, q)' \/ Behind(Cache)'
             /\ "manifest" \in todo'[q] => ~ReadyOnDisk(manifest'[q])
             /\ "manifest" \notin todo'[q] => todo'[q] = {}
    BY DEF SeedsOld
  <2>1. CASE q = p BY <1>2, <1>3, <2>1 DEF CopiedSoFar
  <2>2. CASE q # p
    <3>1. pc[q] = "seed_copy" /\ todo'[q] = todo[q] BY <1>2, <2>2
    <3>2. CopiedSoFar(q, Cache, q) => CopiedSoFar(q, Cache, q)' BY <3>1, CopiedFrame
    <3> QED BY <1>1, <3>1, <3>2 DEF SeedsOld
  <2> QED BY <2>1, <2>2
<1>10. SyncsOld'
  <2> SUFFICES ASSUME NEW q \in Pods, pc'[q] = "sync_copy"
      PROVE  /\ "manifest" \in todo'[q] => Behind(Cache)'
             /\ ~CacheFull => CopiedSoFar(q, q, Cache)'
             /\ CacheFull => "manifest" \in todo'[q]
    BY DEF SyncsOld
  <2>1. CASE q = p
    <3>1. Behind(Cache) BY <2>1
    <3> QED BY <1>1, <1>2, <1>3, <2>1, <3>1 DEF CopiedSoFar
  <2>2. CASE q # p
    <3>1. pc[q] = "sync_copy" /\ todo'[q] = todo[q] BY <1>2, <2>2
    <3>2. CopiedSoFar(q, q, Cache) => CopiedSoFar(q, q, Cache)' BY <3>1, CopiedFrame
    <3> QED BY <1>1, <3>1, <3>2 DEF SyncsOld
  <2> QED BY <2>1, <2>2
<1> QED BY <1>4, <1>5, <1>6, <1>7, <1>8, <1>9, <1>10

\* One entry of a seed: what it takes from a torn cache is not of the latest build.
LEMMA TearsSeedCopy ==
    ASSUME TypeInv, OldTears, TearsInv, OnlyCachePods', NEW p \in Pods, SeedCopy(p)
    PROVE  TearsInv'
<1> USE TreesAssumption DEF TearsInv
<1>1. pc[p] = "seed_copy" /\ UNCHANGED <<pc, latest>> BY DEF SeedCopy
<1>2. p \in CachePods BY <1>1 DEF OnlyCachePods, Holding, SeedHolding
<1>3. PICK e \in todo[p] : CopyOne(p, Cache, p, e) BY DEF SeedCopy, CopyEntry
<1>4. \A r \in Roots : r # p => files'[r] = files[r] /\ manifest'[r] = manifest[r]
  BY <1>3 DEF CopyOne, TypeInv, TypeOK
<1>5. /\ todo'[p] = todo[p] \ {e}
      /\ \A q \in Pods : q # p => todo'[q] = todo[q]
  BY <1>3 DEF CopyOne, TypeInv, TypeOK
<1>6. Cache \in Roots /\ Cache # p /\ Pods \subseteq Roots BY DEF Roots
<1>7. "manifest" \in todo[p] /\ ~ReadyOnDisk(manifest[p]) BY <1>1 DEF SeedsOld
<1>8. e = "manifest" => todo[p] = {"manifest"} BY <1>3 DEF CopyOne, OldTears
<1>9. \A r \in Roots : r # p => (Sound(r) => Sound(r)') /\ (Behind(r) => Behind(r)')
  BY <1>1, <1>4, SoundFrame DEF Behind
<1>10. CopiedSoFar(p, Cache, p) => CopiedSoFar(p, Cache, p)'
  BY <1>3, <1>6, CopiedOne DEF OldTears
<1>11. CopiedSoFar(p, Cache, p)' \/ Behind(Cache)' BY <1>1, <1>6, <1>9, <1>10 DEF SeedsOld
<1>12. Sound(p)' \/ Behind(p)'
  <2>1. CASE e # "manifest"
    <3>1. manifest'[p] = manifest[p] BY <1>3, <2>1 DEF CopyOne
    <3> QED BY <1>7, <3>1 DEF Sound
  <2>2. CASE e = "manifest"
    <3>1. todo'[p] = {} /\ manifest'[p] = manifest'[Cache]
      BY <1>3, <1>5, <1>6, <1>8, <2>2 DEF CopyOne, TypeInv, TypeOK
    <3>2. CASE Behind(Cache)' BY <3>1, <3>2 DEF Behind
    <3>3. CASE CopiedSoFar(p, Cache, p)' /\ Sound(Cache)'
      BY <3>1, <3>3 DEF CopiedSoFar, Sound, Whole
    <3>4. Sound(Cache)' \/ Behind(Cache)' BY <1>6, <1>9 DEF TornIsOld
    <3> QED BY <1>11, <3>2, <3>3, <3>4
  <2> QED BY <2>1, <2>2
<1>13. FullCache' BY <1>4, <1>6 DEF FullCache
<1>14. TornIsOld' BY <1>9, <1>12 DEF TornIsOld
<1>15. OthersSound' BY <1>2, <1>6, <1>9 DEF OthersSound
<1>16. SettledSound' BY <1>1, <1>6, <1>9 DEF SettledSound, Settled, Syncing, SyncHolding
<1>17. FetchNotReady'
  <2> SUFFICES ASSUME NEW q \in Pods, pc[q] = "fetch" PROVE manifest'[q].result = 1
    BY <1>1 DEF FetchNotReady
  <2> QED BY <1>1, <1>4, <1>6 DEF FetchNotReady
<1>18. SeedsOld'
  <2> SUFFICES ASSUME NEW q \in Pods, pc[q] = "seed_copy"
      PROVE  /\ CopiedSoFar(q, Cache, q)' \/ Behind(Cache)'
             /\ "manifest" \in todo'[q] => ~ReadyOnDisk(manifest'[q])
             /\ "manifest" \notin todo'[q] => todo'[q] = {}
    BY <1>1 DEF SeedsOld
  <2>1. CASE q = p
    <3>1. "manifest" \notin todo'[p] => todo'[p] = {} BY <1>5, <1>7, <1>8
    <3>2. "manifest" \in todo'[p] => manifest'[p] = manifest[p] BY <1>3, <1>5 DEF CopyOne
    <3> QED BY <1>7, <1>11, <2>1, <3>1, <3>2
  <2>2. CASE q # p
    <3>1. todo'[q] = todo[q] /\ files'[q] = files[q] /\ manifest'[q] = manifest[q]
      BY <1>4, <1>5, <1>6, <2>2
    <3>2. CopiedSoFar(q, Cache, q) => CopiedSoFar(q, Cache, q)'
      BY <1>4, <1>6, <3>1, CopiedFrame
    <3> QED BY <1>6, <1>9, <3>1, <3>2 DEF SeedsOld
  <2> QED BY <2>1, <2>2
<1>19. SyncsOld'
  <2> SUFFICES ASSUME NEW q \in Pods, pc[q] = "sync_copy"
      PROVE  /\ "manifest" \in todo'[q] => Behind(Cache)'
             /\ ~CacheFull => CopiedSoFar(q, q, Cache)'
             /\ CacheFull => "manifest" \in todo'[q]
    BY <1>1 DEF SyncsOld
  <2>1. q # p BY <1>1
  <2>2. todo'[q] = todo[q] /\ files'[q] = files[q] /\ manifest'[q] = manifest[q]
    BY <1>4, <1>5, <1>6, <2>1
  <2>3. CopiedSoFar(q, q, Cache) => CopiedSoFar(q, q, Cache)' BY <1>4, <1>6, <2>2, CopiedFrame
  <2> QED BY <1>6, <1>9, <2>2, <2>3 DEF SyncsOld
<1> QED BY <1>13, <1>14, <1>15, <1>16, <1>17, <1>18, <1>19

\* One entry of a sync: the manifest comes after all else, and out of a sound tree.
LEMMA TearsSyncCopy ==
    ASSUME TypeInv, OldTears, TearsInv, OnlyCachePods', NEW p \in Pods, SyncCopy(p)
    PROVE  TearsInv'
<1> USE TreesAssumption DEF TearsInv
<1>1. pc[p] = "sync_copy" /\ UNCHANGED <<pc, latest>> BY DEF SyncCopy
<1>2. p \in CachePods BY <1>1 DEF OnlyCachePods, Holding, SyncHolding
<1>3. PICK e \in todo[p] : CopyOne(p, p, Cache, e) BY DEF SyncCopy, CopyEntry
<1>4. \A q \in Pods : files'[q] = files[q] /\ manifest'[q] = manifest[q]
  BY <1>3 DEF CopyOne, TypeInv, TypeOK
<1>5. /\ todo'[p] = todo[p] \ {e}
      /\ \A q \in Pods : q # p => todo'[q] = todo[q]
  BY <1>3 DEF CopyOne, TypeInv, TypeOK
<1>6. Cache \in Roots /\ Cache # p /\ p \in Roots /\ Pods \subseteq Roots BY DEF Roots
<1>7. "manifest" \in todo[p]
  BY <1>1 DEF SyncsOld, CopiedSoFar
<1>8. e = "manifest" => todo[p] = {"manifest"} /\ ~CacheFull
  <2>1. e = "manifest" => todo[p] = {"manifest"} BY <1>3 DEF CopyOne, OldTears
  <2>2. CacheFull => \E a, b \in todo[p] : a # b BY DEF SyncCopy
  <2> QED BY <2>1, <2>2
<1>9. \A q \in Pods : q # p /\ pc[q] \in {"seed_copy", "sync_copy"} => CacheFull
  BY <1>2 DEF OnlyCachePods, Holding, SeedHolding, SyncHolding, OldTears, SoleCachePod
<1>10. \A q \in Pods : (Sound(q) => Sound(q)') /\ (Behind(q) => Behind(q)')
  BY <1>1, <1>4, SoundFrame DEF Behind
<1>11. ~CacheFull => CopiedSoFar(p, p, Cache)'
  BY <1>1, <1>3, <1>6, CopiedOne DEF SyncsOld, OldTears
<1>12. e # "manifest" => manifest'[Cache] = manifest[Cache] /\ Behind(Cache)'
  <2>1. Behind(Cache) BY <1>1, <1>7 DEF SyncsOld
  <2>2. e # "manifest" => manifest'[Cache] = manifest[Cache] BY <1>3 DEF CopyOne
  <2> QED BY <1>1, <2>1, <2>2 DEF Behind
<1>13. e = "manifest" => Sound(Cache)'
  <2> SUFFICES ASSUME e = "manifest" PROVE Sound(Cache)'
    OBVIOUS
  <2>1. todo'[p] = {} /\ CopiedSoFar(p, p, Cache)' BY <1>5, <1>8, <1>11
  <2>2. Sound(p)' BY <1>1, <1>10 DEF SettledSound, Settled, Syncing, SyncHolding
  <2> QED BY <2>1, <2>2 DEF CopiedSoFar, Sound, Whole
<1>14. FullCache' BY <1>8, <1>12 DEF FullCache
<1>15. TornIsOld'
  <2> SUFFICES ASSUME NEW r \in Roots PROVE Sound(r)' \/ Behind(r)'
    BY DEF TornIsOld
  <2>1. CASE r = Cache BY <1>12, <1>13, <2>1
  <2>2. CASE r \in Pods BY <1>6, <1>10, <2>2 DEF TornIsOld
  <2> QED BY <2>1, <2>2 DEF Roots
<1>16. OthersSound' BY <1>10 DEF OthersSound
<1>17. SettledSound' BY <1>1, <1>10 DEF SettledSound
<1>18. FetchNotReady' BY <1>1, <1>4 DEF FetchNotReady
<1>19. SeedsOld'
  <2> SUFFICES ASSUME NEW q \in Pods, pc[q] = "seed_copy"
      PROVE  /\ CopiedSoFar(q, Cache, q)' \/ Behind(Cache)'
             /\ "manifest" \in todo'[q] => ~ReadyOnDisk(manifest'[q])
             /\ "manifest" \notin todo'[q] => todo'[q] = {}
    BY <1>1 DEF SeedsOld
  <2>1. q # p /\ CacheFull BY <1>1, <1>9
  <2>2. Behind(Cache)' BY <1>8, <1>12, <2>1
  <2>3. todo'[q] = todo[q] /\ manifest'[q] = manifest[q] BY <1>4, <1>5, <2>1
  <2> QED BY <2>2, <2>3 DEF SeedsOld
<1>20. SyncsOld'
  <2> SUFFICES ASSUME NEW q \in Pods, pc[q] = "sync_copy"
      PROVE  /\ "manifest" \in todo'[q] => Behind(Cache)'
             /\ ~CacheFull => CopiedSoFar(q, q, Cache)'
             /\ CacheFull => "manifest" \in todo'[q]
    BY <1>1 DEF SyncsOld
  <2>1. CASE q = p
    <3>1. "manifest" \in todo'[p] => e # "manifest" BY <1>5
    <3>2. CacheFull => "manifest" \in todo'[p] BY <1>5, <1>7, <1>8
    <3> QED BY <1>11, <1>12, <2>1, <3>1, <3>2
  <2>2. CASE q # p
    <3>1. CacheFull BY <1>9, <2>2
    <3>2. Behind(Cache)' BY <1>8, <1>12, <3>1
    <3> QED BY <1>5, <2>2, <3>1, <3>2 DEF SyncsOld
  <2> QED BY <2>1, <2>2
<1> QED BY <1>14, <1>15, <1>16, <1>17, <1>18, <1>19, <1>20

\* A step of the cache keeps TearsInv.
LEMMA TearsCacheStep ==
    ASSUME TypeInv, FreshInv, OldTears, SoleCachePod => CacheBehind, TearsInv, OnlyCachePods',
           NEW p \in Pods, CacheStep(p)
    PROVE  TearsInv'
<1> USE DEF TypeInv, TypeOK, Goto, trees
<1>0. /\ latest \in Nat /\ latest >= latest
      /\ Settled = {"plan_sync", "sync_lock", "sync_plan", "sync_copy", "prepare", "running"}
  BY DEF Builds, Settled, Syncing, SyncHolding
<1>1. CASE PlanSeed(p) BY <1>0, <1>1, TearsOffTrees DEF PlanSeed
<1>2. CASE LockForSeed(p) BY <1>0, <1>2, TearsOffTrees DEF LockForSeed
<1>3. CASE ReplanSeed(p)
  <2>1. CASE SeedPlanned(p)
    <3>1. pc' = [pc EXCEPT ![p] = "seed_copy"] /\ todo' = [todo EXCEPT ![p] = Entries]
      BY <1>3, <2>1 DEF ReplanSeed
    <3>2. ~ReadyOnDisk(manifest[p]) /\ pc[p] \notin Settled BY <1>0, <1>3, <2>1 DEF SeedPlanned, ReplanSeed
    <3> QED BY <1>3, <3>1, <3>2, TearsCopyStarts DEF ReplanSeed
  <2>2. CASE ~SeedPlanned(p) BY <1>0, <1>3, <2>2, TearsOffTrees DEF ReplanSeed
  <2> QED BY <2>1, <2>2
<1>4. CASE SeedCopy(p) BY <1>4, TearsSeedCopy
<1>5. CASE SeedDone(p) BY <1>0, <1>5, TearsOffTrees DEF SeedDone
<1>6. CASE PlanSync(p) BY <1>0, <1>6, TearsOffTrees DEF PlanSync
<1>7. CASE LockForSync(p) BY <1>0, <1>7, TearsOffTrees DEF LockForSync
<1>8. CASE CompareWithCache(p)
  <2>0. pc[p] = "sync_plan" /\ UNCHANGED <<latest, files, manifest>> BY <1>8 DEF CompareWithCache
  <2>1. CASE CacheCurrent(p)
    <3>1. pc' = [pc EXCEPT ![p] = "prepare"] /\ todo' = todo BY <1>8, <2>1 DEF CompareWithCache
    <3> QED BY <1>0, <2>0, <3>1, TearsOffTrees
  <2>2. CASE ~CacheCurrent(p)
    <3>1. pc' = [pc EXCEPT ![p] = "sync_copy"] /\ todo' = [todo EXCEPT ![p] = Entries]
      BY <1>8, <2>2 DEF CompareWithCache
    <3>2. p \in CachePods BY <2>0 DEF TearsInv, OnlyCachePods, Holding, SyncHolding
    <3>3. pc[p] \in Settled BY <1>0, <2>0
    <3>4. ReadyOnDisk(manifest[p]) BY <3>3 DEF FreshInv, SettledReady
    <3>5. Behind(Cache) BY <2>2, <3>2, <3>4, CacheOlder
    <3> QED BY <2>0, <3>1, <3>3, <3>5, TearsCopyStarts
  <2> QED BY <2>1, <2>2
<1>9. CASE SyncCopy(p) BY <1>9, TearsSyncCopy
<1>10. CASE SyncFails(p) BY <1>0, <1>10, TearsOffTrees DEF SyncFails
<1>11. CASE SyncDone(p) BY <1>0, <1>11, TearsOffTrees DEF SyncDone
<1> QED BY <1>1, <1>2, <1>3, <1>4, <1>5, <1>6, <1>7, <1>8, <1>9, <1>10, <1>11 DEF CacheStep

\* A step of the update keeps TearsInv: what SteamCMD takes for up to date is at the
\* latest build and so not torn, and what it finishes is complete.
LEMMA TearsInstallStep ==
    ASSUME TypeInv, OldTears, TearsInv, OnlyCachePods', NEW p \in Pods, InstallStep(p)
    PROVE  TearsInv'
<1> USE DEF TypeInv, TypeOK, Goto, trees
<1>0. /\ latest \in Nat /\ latest >= latest /\ p \in Roots
      /\ Settled = {"plan_sync", "sync_lock", "sync_plan", "sync_copy", "prepare", "running"}
  BY DEF Builds, Settled, Syncing, SyncHolding, Roots
<1>1. CASE PlanUpdate(p)
  <2>1. NothingPlanned(p) => Sound(p)
    BY TreesAssumption DEF NothingPlanned, OldTears, TearsInv, OthersSound
  <2>2. /\ pc'[p] = "plan_sync" => NothingPlanned(p)
        /\ pc'[p] \in {"plan_sync", "unlink", "steamcmd"}
        /\ \A q \in Pods : q # p => pc'[q] = pc[q]
        /\ UNCHANGED <<latest, files, manifest, todo>>
    BY <1>1 DEF PlanUpdate
  <2> QED BY <1>0, <2>1, <2>2, TearsOffTrees
<1>2. CASE UnlinkManifest(p)
  <2>1. manifest'[p] = Absent BY <1>2 DEF UnlinkManifest
  <2>2. Sound(p)' BY <2>1 DEF Sound, ReadyOnDisk
  <2> QED BY <1>2, <2>2, TearsOnOwnTree DEF UnlinkManifest, Holding
<1>3. CASE ClearWorkDirs(p) BY <1>0, <1>3, TearsOffTrees DEF ClearWorkDirs
<1>4. CASE SteamUpToDate(p)
  <2>1. Sound(p)
    BY <1>0, <1>4 DEF SteamUpToDate, UpToDate, Behind, TearsInv, TornIsOld
  <2>2. /\ pc' = [pc EXCEPT ![p] = "plan_sync"]
        /\ UNCHANGED <<latest, files, manifest, todo>>
    BY <1>4 DEF SteamUpToDate
  <2> QED BY <1>0, <2>1, <2>2, TearsOffTrees
<1>5. CASE SteamBegins(p)
  <2>1. manifest'[p].result = 1 BY <1>5 DEF SteamBegins
  <2>2. Sound(p)' BY <2>1 DEF Sound, ReadyOnDisk, IsReady
  <2> QED BY <1>5, <2>1, <2>2, TearsOnOwnTree DEF SteamBegins, Holding
<1>6. CASE SteamDownloads(p) BY <1>0, <1>6, TearsOffTrees DEF SteamDownloads
<1>7. CASE SteamInstalls(p)
  <2>1. manifest' = manifest /\ manifest[p].result = 1
    BY <1>7 DEF SteamInstalls, TearsInv, FetchNotReady
  <2>2. Sound(p)' BY <2>1 DEF Sound, ReadyOnDisk, IsReady
  <2> QED BY <1>7, <2>1, <2>2, TearsOnOwnTree DEF SteamInstalls, Holding
<1>8. CASE SteamFinishes(p)
  <2>1. manifest'[p].build = manifest[p].target BY <1>8 DEF SteamFinishes
  <2>2. Sound(p)' BY <1>8, <2>1 DEF SteamFinishes, Sound, Whole
  <2> QED BY <1>8, <2>2, TearsOnOwnTree DEF SteamFinishes, Holding
<1> QED BY <1>1, <1>2, <1>3, <1>4, <1>5, <1>6, <1>7, <1>8 DEF InstallStep

\* Every step keeps TearsInv, a kill in the middle of any copy included.
LEMMA TearsNext ==
    ASSUME TypeInv, FreshInv, OldTears, SoleCachePod => CacheBehind, TearsInv, [Next]_vars
    PROVE  TearsInv'
<1> USE DEF TypeInv, TypeOK, Goto, trees
<1>0. /\ latest \in Nat /\ latest >= latest
      /\ Settled = {"plan_sync", "sync_lock", "sync_plan", "sync_copy", "prepare", "running"}
      /\ OnlyCachePods'
  BY OnlyCachePodsNext DEF Builds, Settled, Syncing, SyncHolding, TearsInv
<1>1. CASE Release
  <2>1. latest' = latest + 1 /\ UNCHANGED <<files, manifest, pc, todo>> BY <1>1 DEF Release
  <2>2. latest' \in Nat /\ latest' >= latest BY <1>0, <2>1
  <2> QED BY <1>0, <2>1, <2>2, TearsOffTrees
<1>2. ASSUME NEW p \in Pods, Start(p) PROVE TearsInv' BY <1>0, <1>2, TearsOffTrees DEF Start
<1>3. ASSUME NEW p \in Pods, CacheStep(p) PROVE TearsInv' BY <1>0, <1>3, TearsCacheStep
<1>4. ASSUME NEW p \in Pods, InstallStep(p) PROVE TearsInv' BY <1>0, <1>4, TearsInstallStep
<1>5. ASSUME NEW p \in Pods, Launch(p) PROVE TearsInv' BY <1>0, <1>5, TearsOffTrees DEF Launch
<1>6. ASSUME NEW p \in Pods, Fault(p) PROVE TearsInv' BY <1>0, <1>6, TearsOffTrees DEF Fault, Killed
<1>7. CASE UNCHANGED vars BY <1>0, <1>7, TearsOffTrees DEF vars
<1> QED BY <1>1, <1>2, <1>3, <1>4, <1>5, <1>6, <1>7 DEF Next, Step

\* New and complete trees are sound, and nobody copies yet.
LEMMA TearsInit == Init => TearsInv
<1> SUFFICES ASSUME Init PROVE TearsInv
  OBVIOUS
<1>1. PICK installed \in SUBSET Roots :
        /\ files = [q \in Roots |-> [f \in Files |-> IF q \in installed THEN 1 ELSE 0]]
        /\ manifest = [q \in Roots |-> IF q \in installed THEN FirstRelease ELSE Absent]
  BY DEF Init
<1>2. \A r \in Roots : Sound(r)
  <2> SUFFICES ASSUME NEW r \in Roots, ReadyOnDisk(manifest[r]) PROVE Whole(r, manifest[r].build)
    BY DEF Sound
  <2>1. r \in installed BY <1>1 DEF ReadyOnDisk
  <2>2. manifest[r].build = 1 BY <1>1, <2>1 DEF FirstRelease
  <2> QED BY <1>1, <2>1, <2>2 DEF Whole
<1>3. \A p \in Pods : pc[p] = "down" BY DEF Init
<1>4. OnlyCachePods BY <1>3 DEF OnlyCachePods, Holding, SeedHolding, SyncHolding
<1>5. FullCache BY <1>1 DEF FullCache, Roots
<1>6. TornIsOld /\ OthersSound BY <1>2 DEF TornIsOld, OthersSound, Roots
<1>7. SettledSound BY <1>3 DEF SettledSound, Settled, Syncing, SyncHolding
<1>8. FetchNotReady /\ SeedsOld /\ SyncsOld BY <1>3 DEF FetchNotReady, SeedsOld, SyncsOld
<1> QED BY <1>4, <1>5, <1>6, <1>7, <1>8 DEF TearsInv

\* What a sole pod's cache needs: nothing of it where the cache never has room.
SoleForward == SoleCachePod => ForwardInv

TearsHold == TypeInv /\ FreshInv /\ SoleForward /\ TearsInv

\* TearsHold is inductive.
LEMMA TearsAlways ==
    ASSUME OldTears
    PROVE  Spec => []TearsHold
<1>1. Init => TearsHold BY TypeInit, FreshInit, ForwardInit, TearsInit DEF TearsHold, SoleForward
<1>2. TearsHold /\ [Next]_vars => TearsHold'
  <2> SUFFICES ASSUME TearsHold, [Next]_vars PROVE TearsHold'
    OBVIOUS
  <2> USE DEF TearsHold
  <2>1. TypeInv' /\ FreshInv' BY TypeNext, FreshNext
  <2>2. SoleForward' BY ForwardNext DEF SoleForward, SoleCachePod
  <2>3. SoleCachePod => CacheBehind BY DEF SoleForward, ForwardInv
  <2>4. TearsInv' BY <2>3, TearsNext
  <2> QED BY <2>1, <2>2, <2>4
<1> QED BY <1>1, <1>2, PTL DEF Spec

\* No server is launched on files of two builds although pods are killed in the
\* middle of a sync, or its copy fails, as long as the pods that use the cache have
\* the policy "always" and there is only one of them or no room for a whole copy:
\* the next update repairs what was torn (main: seed, ensure_updated, sync).
THEOREM TornIsRepaired ==
    ASSUME OldTears
    PROVE  Spec => []LaunchesWhole
<1>1. TearsHold => LaunchesWhole
  BY DEF TearsHold, FreshInv, SettledReady, TearsInv, SettledSound, Settled, Sound, LaunchesWhole
<1> QED BY <1>1, TearsAlways, PTL

\* Under the same conditions no kill, seed or sync leaves a ready manifest of the
\* latest build over other files, on a server's volume or in the cache: the one
\* lie that SteamCMD would not look behind (steam.py:31-41).
THEOREM LatestIsTrusted ==
    ASSUME OldTears
    PROVE  Spec => []LatestIsWhole
<1>1. TearsHold => LatestIsWhole
  <2> SUFFICES ASSUME TearsHold, NEW r \in Roots, ReadyOnDisk(manifest[r]), manifest[r].build = latest
      PROVE  Whole(r, latest)
    BY DEF LatestIsWhole
  <2>1. latest \in Nat BY DEF TearsHold, TypeInv, TypeOK
  <2>2. ~Behind(r) BY <2>1 DEF Behind
  <2> QED BY <2>2 DEF TearsHold, TearsInv, TornIsOld, Sound
<1> QED BY <1>1, TearsAlways, PTL

-----------------------------------------------------------------------------
(***************************************************************************)
(* Startup implements the launch contract.  The steps before the launch    *)
(* are invisible to the contract, Start is its Begin, Launch its Launch,   *)
(* Fault its End (or nothing, when no server ran) and Release its Publish. *)
(***************************************************************************)
\* A step that leaves the tree of a running server alone leaves the build it shows.
LEMMA BuildFrame ==
    ASSUME NEW q, pc'[q] = "running" <=> pc[q] = "running",
           pc[q] = "running" => files'[q] = files[q] /\ manifest'[q] = manifest[q]
    PROVE  LaunchedBuild(q)' = LaunchedBuild(q)
BY DEF LaunchedBuild, Whole

\* Nothing that the cache or the update does shows in the contract.
LEMMA HiddenStep ==
    ASSUME TypeInv, NEW p \in Pods, CacheStep(p) \/ InstallStep(p)
    PROVE  /\ UNCHANGED <<latest, floor>>
           /\ \A q \in Pods : LaunchedBuild(q)' = LaunchedBuild(q)
<1> USE TreesAssumption DEF TypeInv, TypeOK, Goto, trees
<1>1. UNCHANGED <<latest, floor>>
  BY DEF CacheStep, PlanSeed, LockForSeed, ReplanSeed, SeedCopy, SeedDone, PlanSync, LockForSync,
     CompareWithCache, SyncCopy, SyncFails, SyncDone, InstallStep, PlanUpdate, UnlinkManifest,
     ClearWorkDirs, SteamUpToDate, SteamBegins, SteamDownloads, SteamInstalls, SteamFinishes
<1>2. pc[p] # "running" /\ pc'[p] # "running" /\ \A q \in Pods : q # p => pc'[q] = pc[q]
  BY DEF CacheStep, PlanSeed, LockForSeed, ReplanSeed, SeedCopy, SeedDone, PlanSync, LockForSync,
     CompareWithCache, SyncCopy, SyncFails, SyncDone, InstallStep, PlanUpdate, UnlinkManifest,
     ClearWorkDirs, SteamUpToDate, SteamBegins, SteamDownloads, SteamInstalls, SteamFinishes
<1>3. \A q \in Pods : q # p => files'[q] = files[q] /\ manifest'[q] = manifest[q]
  <2>1. CASE SeedCopy(p) BY <2>1 DEF SeedCopy, CopyEntry, CopyOne
  <2>2. CASE SyncCopy(p) BY <2>2 DEF SyncCopy, CopyEntry, CopyOne
  <2>3. CASE CacheStep(p) /\ ~SeedCopy(p) /\ ~SyncCopy(p)
    BY <2>3 DEF CacheStep, PlanSeed, LockForSeed, ReplanSeed, SeedDone, PlanSync, LockForSync,
       CompareWithCache, SyncFails, SyncDone
  <2>4. CASE InstallStep(p)
    BY <2>4 DEF InstallStep, PlanUpdate, UnlinkManifest,
       ClearWorkDirs, SteamUpToDate, SteamBegins, SteamDownloads, SteamInstalls, SteamFinishes
  <2> QED BY <2>1, <2>2, <2>3, <2>4
<1> QED BY <1>1, <1>2, <1>3, BuildFrame

\* Every step is a step of the contract, or none.
LEMMA ContractStep ==
    ASSUME TypeInv, FreshInv, LaunchesWhole, LaunchesWhole', [Next]_vars
    PROVE  [Contract!Next]_(Contract!contractVars)
<1> USE DEF TypeInv, TypeOK, Goto, trees, Contract!contractVars
<1>0. SUFFICES ASSUME Next PROVE [Contract!Next]_(Contract!contractVars)
  <2>1. CASE UNCHANGED vars BY <2>1 DEF vars, LaunchedBuild, Whole
  <2> QED BY <1>0, <2>1
<1>1. CASE Release
  <2>1. \A q \in Pods : LaunchedBuild(q)' = LaunchedBuild(q) BY <1>1, BuildFrame DEF Release
  <2> QED BY <1>1, <2>1 DEF Release, Contract!Next, Contract!Publish
<1>2. ASSUME NEW p \in Pods, Start(p) PROVE Contract!Begin(p)
  <2>1. \A q \in Pods : LaunchedBuild(q)' = LaunchedBuild(q) BY <1>2, BuildFrame DEF Start
  <2>2. LaunchedBuild(p) = 0 BY <1>2 DEF Start, LaunchedBuild
  <2> QED BY <1>2, <2>1, <2>2 DEF Start, Contract!Begin
<1>3. ASSUME NEW p \in Pods, CacheStep(p) \/ InstallStep(p) PROVE UNCHANGED Contract!contractVars
  BY <1>3, HiddenStep
<1>4. ASSUME NEW p \in Pods, Launch(p) PROVE Contract!Launch(p)
  <2>1. \A q \in Pods : q # p => LaunchedBuild(q)' = LaunchedBuild(q)
    BY <1>4, BuildFrame DEF Launch
  <2>2. LaunchedBuild(p) = 0 BY <1>4 DEF Launch, LaunchedBuild
  <2>3. pc'[p] = "running" /\ pc[p] = "prepare" /\ UNCHANGED <<latest, floor, manifest>>
    BY <1>4 DEF Launch
  <2>4. LaunchedBuild(p)' = manifest[p].build
    BY <2>3 DEF LaunchesWhole, LaunchedBuild
  <2>5. manifest[p] \in Manifests /\ IsReady(manifest[p])
    BY <2>3 DEF FreshInv, SettledReady, Settled, ReadyOnDisk, MaybeManifests
  <2>6. manifest[p].build \in Contract!Admissible(p)
    <3>1. manifest[p].build \in Nat /\ manifest[p].build # 0 BY <2>5 DEF Manifests, IsReady
    <3>2. manifest[p].build <= latest BY <2>5, AbsentAssumption DEF FreshInv, NoFutureBuild
    <3>3. p \in AlwaysPods => manifest[p].build >= floor[p] BY <2>3 DEF FreshInv, SettledFresh, Settled
    <3> QED BY <3>1, <3>2, <3>3 DEF Contract!Admissible
  <2>7. floor[p] # 0 BY <2>3 DEF FreshInv, FloorInv
  <2> QED BY <2>1, <2>2, <2>3, <2>4, <2>6, <2>7 DEF Contract!Launch
<1>5. ASSUME NEW p \in Pods, Fault(p) PROVE Contract!End(p)
  <2>1. \A q \in Pods : q # p => LaunchedBuild(q)' = LaunchedBuild(q)
    BY <1>5, BuildFrame DEF Fault, Killed
  <2>2. LaunchedBuild(p)' = 0 BY <1>5 DEF Fault, Killed, LaunchedBuild
  <2> QED BY <1>5, <2>1, <2>2 DEF Fault, Killed, Contract!End
<1> QED BY <1>0, <1>1, <1>2, <1>3, <1>4, <1>5 DEF Next, Step, Contract!Next

\* main() of every pod keeps the launch contract, with the lock that the generator
\* renders and pods killed anywhere, under the conditions of TornIsRepaired.
THEOREM StartupImplementsContract ==
    ASSUME OldTears
    PROVE  Spec => KeepsContract
<1>1. Init => Contract!Init
  BY DEF Init, Contract!Init, LaunchedBuild
<1>2. TypeInv /\ FreshInv /\ LaunchesWhole /\ LaunchesWhole' /\ [Next]_vars
        => [Contract!Next]_(Contract!contractVars)
  BY ContractStep
<1> QED
  BY <1>1, <1>2, TornIsRepaired, FreshHolds, TypeInit, TypeNext, PTL DEF Spec, KeepsContract, Contract!Spec
=============================================================================
