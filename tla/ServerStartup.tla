---------------------------- MODULE ServerStartup ----------------------------
(***************************************************************************)
(* src/cs2_server/__main__.py: main() of every server pod on a node, from  *)
(* the start of the process to the running game server, composed of the    *)
(* cache (SteamCache) and the Steam install (SteamInstall).  Pods share    *)
(* the cache volume and nothing else.  A pod can be killed at any place in *)
(* FaultPoints; the kernel then drops its flock and the volumes keep what  *)
(* was written.                                                            *)
(***************************************************************************)
EXTENDS SteamCache, SteamInstall

(* A tree with the whole of build 1, or an empty volume.                   *)
FirstRelease == [build |-> 1, target |-> 1, flags |-> 4, result |-> 0]

\* Every volume is either new or holds a complete install of the first build.
Init ==
    /\ latest = 1
    /\ \E installed \in SUBSET Roots :
        /\ files = [r \in Roots |-> [f \in Files |-> IF r \in installed THEN 1 ELSE 0]]
        /\ manifest = [r \in Roots |-> IF r \in installed THEN FirstRelease ELSE Absent]
    /\ staged = [r \in Roots |-> {}]
    /\ lock = [r \in Roots |-> Free]
    /\ pc = [p \in Pods |-> "down"]
    /\ todo = [p \in Pods |-> {}]
    /\ floor = [p \in Pods |-> 0]

-----------------------------------------------------------------------------
\* The kubelet starts the container; ServerConfig.from_env succeeds.
Start(p) ==
    /\ pc[p] \in Stopped
    /\ Goto(p, "plan_seed")
    /\ floor' = [floor EXCEPT ![p] = latest]
    /\ UNCHANGED <<latest, trees, lock, todo>>

\* The preparation steps after the sync, and Popen of the game server.
Launch(p) ==
    /\ pc[p] = "prepare"
    /\ Goto(p, "running")
    /\ UNCHANGED <<latest, trees, lock, todo, floor>>

Step(p) == Start(p) \/ CacheStep(p) \/ InstallStep(p) \/ Launch(p)

\* The end of a pod's process: its flock goes, its volume stays.
Killed(p) ==
    /\ Goto(p, "down")
    /\ todo' = [todo EXCEPT ![p] = {}]
    /\ lock' = [r \in Roots |-> IF lock[r] = p THEN Free ELSE lock[r]]
    /\ UNCHANGED <<latest, trees, floor>>

\* The container is killed, or a subprocess run with check=True fails.
Fault(p) ==
    /\ pc[p] \in FaultPoints
    /\ Killed(p)

\* Valve publishes the next build.
Release ==
    /\ latest < MaxBuild
    /\ latest' = latest + 1
    /\ UNCHANGED <<trees, lock, pc, todo, floor>>

Next == Release \/ \E p \in Pods : Step(p) \/ Fault(p)

(* Nothing but the end of the container stops main() between two steps:    *)
(* the subprocesses and flock are waited for without a timeout, and the    *)
(* kubelet restarts what ended (restartPolicy Always).  A pod waiting for  *)
(* the lock gets it once it stays free (weak fairness).                    *)
Fairness == \A p \in Pods : WF_vars(Step(p))

Spec == Init /\ [][Next]_vars /\ Fairness

-----------------------------------------------------------------------------
(* Safety *)

\* The lock serializes the use of the cache: at no time are two pods between
\* acquiring and releasing it (docs/runbooks/download-cache.md:22).
CacheSerialized ==
    \A p, q \in Pods : pc[p] \in Holding /\ pc[q] \in Holding => p = q

\* What a ready manifest promises of a tree: all files are of its build.
Sound(r) == ReadyOnDisk(manifest[r]) => Whole(r, manifest[r].build)

\* A server volume never holds a ready manifest over files of another build,
\* wherever seeding, repairing or updating it was interrupted: is_ready is
\* what every later start trusts (docs/runbooks/crash-loop.md:49).
ServersSound == \A p \in Pods : Sound(p)

\* The cache is sound whenever no pod is copying into it: whoever seeds from
\* it under the lock gets a complete build.
CacheSound == Sound(Cache) \/ \E p \in Pods : pc[p] = "sync_copy"

\* A ready manifest of the latest build is the truth: SteamCMD, and a seed that
\* needs no update behind it, trust it without looking at the files
\* (steam.py:31-41).  A copy into the cache that is killed over an older ready
\* manifest leaves one that lies, but never about the latest build, as long as
\* one pod uses the cache or no copy is ever completed.
LatestIsWhole ==
    \A r \in Roots : ReadyOnDisk(manifest[r]) /\ manifest[r].build = latest => Whole(r, latest)

\* The game server is only launched on a complete install, described by a
\* ready manifest.
LaunchesWhole ==
    \A p \in Pods : pc[p] = "running" =>
        ReadyOnDisk(manifest[p]) /\ Whole(p, manifest[p].build)

\* A server with the policy "always" runs a build at least as new as the one
\* Valve handed out when its process began, however the start went: seeding an
\* older cache never survives the update step.
LaunchesFresh ==
    \A p \in AlwaysPods : pc[p] = "running" => manifest[p].build >= floor[p]

\* A first install (buildid 0) that was interrupted is resumed: its download,
\* and the manifest SteamCMD resumes it by, survive restarts and repairs until
\* it is complete, a newer target replaces it, or a ready cache makes it
\* unnecessary (docs/runbooks/crash-loop.md:50, "do not delete partial state").
FirstInstall(p) == manifest[p] # Absent /\ manifest[p].build = 0
KeepsFirstDownload ==
    [][\A p \in Pods :
        \/ ~FirstInstall(p)
        \/ pc[p] = "seed_copy"
        \/ manifest'[p] # Absent /\ staged[p] \subseteq staged'[p]
        \/ ReadyOnDisk(manifest'[p])
        \/ manifest'[p] # Absent /\ manifest'[p].target > manifest[p].target]_vars

\* The build that the cache's ready manifest names never goes back: a sync
\* replaces a cache that is missing or stale (docs/runbooks/download-cache.md:19).
CacheNeverOlder ==
    [][ReadyOnDisk(manifest[Cache]) /\ ReadyOnDisk(manifest'[Cache])
        => manifest'[Cache].build >= manifest[Cache].build]_vars

-----------------------------------------------------------------------------
(* Refinement *)

\* The build p runs, as the contract sees it.  A running server whose files
\* are not one complete build shows as a build that is never published.
LaunchedBuild(p) ==
    IF pc[p] # "running" THEN 0
    ELSE IF ReadyOnDisk(manifest[p]) /\ Whole(p, manifest[p].build)
         THEN manifest[p].build
         ELSE MaxBuild + 1

Contract == INSTANCE LaunchContract WITH
    build <- [p \in Pods |-> LaunchedBuild(p)]

\* Startup keeps the contract: whatever volumes, cache, lock and restarts do,
\* a pod is seen to begin, to launch one admissible build, and to end.
KeepsContract == Contract!Spec

-----------------------------------------------------------------------------
(* Liveness *)

\* Once the pods are no longer killed, each of them gets its server running
\* and keeps it running: no pod waits for the lock forever, and no state that
\* an interrupted start leaves behind stops the next one.
EveryServerRuns ==
    (\A q \in Pods : <>[](pc[q] # "down")) => \A p \in Pods : <>[](pc[p] = "running")
=============================================================================
