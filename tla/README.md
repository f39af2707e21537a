# cs2-platform: a TLA+ verification project

cs2-platform runs Counter-Strike 2 servers on a Kubernetes homelab. Each server
is a pod whose Python entrypoint (`src/cs2_server`) brings the install on the
pod's volume up to date, prepares it and starts the game server; a CronJob
(`k8s/base/update-checker.yaml`) restarts a server when Valve publishes a new
version. The manifests it runs from are generated from profiles and mode files
(`src/cs2_tools`), and a change passes a series of gates on its way to the players:
validation, a production check, a disruption guard, the deployment, a smoke test.
This directory models those programs in TLA+, checks small instances with TLC and
proves the main properties for all instances with TLAPS.

Paths below are relative to the repository.

## 1. Inventory

| part | state it keeps | operations | modelled |
|---|---|---|---|
| Steam appmanifest, `src/cs2_server/manifest.py` | none; reads `steamapps/appmanifest_730.acf` | `read`, `is_ready`, `needs_repair` | `SteamManifest` |
| Steam install, `steam.py` | the install tree on the pod's volume | `plan_update`, `repair_stale_state`, SteamCMD | `SteamInstall` |
| node cache, `steam_cache.py` | the install tree on the node's cache volume, the lock file | `seed_from_cache_if_available`, `sync_to_cache_if_needed`, `_lock`, `_rsync_tree` | `SteamCache` |
| entrypoint, `__main__.py` | where the process is | `main` | `ServerStartup` up to the preparation, `Preparation` from there, `ServerProcess` from `Popen` to the end, signals included |
| update checker, `k8s/base/update-checker.yaml` | ConfigMap `cs2-version-tracker`, shell variables | the script, line by line | `UpdateChecker` |
| deployment controller, kubelet, SteamCMD, Valve | the rollout, the container, the latest build | from how the code above uses them | external, in the modules that use them |
| plugin runtime, `plugin_runtime.py` | plugin files, `gameinfo.gi`, admin file in the tree | `apply` | `Preparation` |
| config overlay, `overlay.py` | `game/csgo/cfg` in the tree | `from_roots`, `apply` | `Preparation` |
| runtime libraries, `runtime_files.py` | copies of `.so` files | bootstrap, two copies | `Preparation` |
| configuration, launch command, `config.py`, `launcher.py` | none | `from_env`, `build_launch_command` | `ServerManifests` |
| modes and plugin catalog, `mode_settings.py`, `validate_mode.py`, `plugin_manifest.py` | `configs/modes/*/mode.yaml`, `plugins/plugins.yaml` | load, validate | `ModeProfile` |
| server generator, `server_generator.py` | the profile, four manifests per server | load, validate, render, write | `ServerManifests`, `Repository` |
| production check, `production_check.py` | none; reads the manifests and the mode | `run_production_checks` | `ProductionCheck` |
| server query, `query_server.py` | one socket | `query_a2s_info` | `ServerQuery` |
| disruption guard, `disruption_guard.py` | none | one query and a verdict | `ServerQuery`, `Rollout` |
| smoke test, `smoke.py` | what it has read so far | query, three reads of the cluster, verdict | `Rollout` |
| people, deploy workflow, kubelet, game server, players | the commit, the cluster, who is connected | from how the code above uses them | external, in the modules that use them |
| image, configs, RBAC | | | not modelled: data |

How the parts meet. The pods of a node share one thing, the cache volume, and
a lock file beside it. Within a pod, everything between two starts lives on its
volume, and the one thing a later start trusts is the manifest: `is_ready`
decides whether the cache seeds the volume, whether SteamCMD runs, whether the
volume is synced into the cache, and (in its own stricter form) whether the
checker records a version as handled. The checker acts on the pod through
`rollout restart` and on the tracker through `patch`, and a job made by hand
may run beside the scheduled one. The tools meet through files and the
environment: a mode and a profile become four manifests, a manifest's environment
becomes a `ServerConfig`, that becomes the command line, and the validators, the
production check, the guard and the smoke test each look at another part of it, at
another moment.

What is hard: a pod may be killed at any point of a copy of 69 GB; several pods
plan without the lock what they do under it; a new build may be published at any
moment; the checker looks at a volume another process is about to change; jobs
overlap; manifests are edited by hand or half written; players join while a
verdict is on its way; the smoke test puts together what it read of different
processes. What makes each part correct:

* manifest, install: a ready manifest describes a complete install; a first
  download is never thrown away; no interrupted repair blocks the next start.
* cache: one pod at a time; what is seeded is complete; the cache only moves
  forward; it never stands in the way of a launch.
* entrypoint: a launch runs one complete build, with the policy `always` none
  older than the one published when the process began; every pod ends up running.
* preparation: the server launches on what its present settings declare, whatever
  earlier starts, images and other servers left in the tree.
* checker: what is recorded as handled is what runs; the newest version is
  handled in the end and not rolled out again and again.
* modes, generator, production check: what is declared is what `from_env` reads;
  the check accepts exactly the generated manifests it is meant to; whatever runs
  has the containment its mode declares.
* process: the game server is asked to stop before it is killed.
* query and guard: a query ends; nobody who was there when the guard asked and has
  stayed is thrown out.
* smoke test: what is promoted starts up with the map, map group and name of its
  mode, the ports of its service and the slots that the test was told to expect, and
  was not restarted between answer and inspection. Exec cfg, game type and game mode
  are compared by no tool, so nothing is claimed of them.

## 2. Modules

    SteamManifest        pure: the manifest and its two verdicts
      SteamTrees         state of all startups on one node: trees, lock, places
        SteamCache       seed and sync            \
        SteamInstall     plan, repair, SteamCMD    } actions on that state
          ServerStartup  main(): composition, faults, properties, refinement
            UpdateChecker  the CronJob, composed with the startup it restarts
    Preparation          libraries, plugins and overlay on trees that survive
    ModeProfile          pure: mode files, plugin catalog, their validators
      ServerManifests    pure: profile to manifests to ServerConfig to command line
        ProductionCheck  pure: what the manifests must satisfy
          Repository     modes, profile, manifests; edits and generation
            ServerProcess  one pod: launcher, game server, signals, players, kubelet
              ServerQuery  an A2S_INFO query over a lossy network, the guard's verdict
                Rollout    the gates from edit to promotion, composed with all of it
    LaunchContract       abstract: begin, launch an admissible build, end
    MC*                  small instances for TLC
    *_proofs             theorems, checked by TLAPS

**SteamTrees.** A tree (one per pod, and one named `Cache`) is, for every game
file, the build whose content it has (`files[r][f]`, 0 for no file), the manifest
and the files waiting in `steamapps/downloading/730` (`staged`). `pc[p]` is the
place of pod p in `main()`; the places of the critical sections (`SeedHolding`,
`SyncHolding`) are those between `flock` and its release. `lock[r]` is the holder
of the lock file on volume r: `LockRoot(p)` is `Cache` when the path of the lock
file lies on the mounted cache volume, and p's own filesystem otherwise. A tree
copy (`_rsync_tree`) is a set `todo[p]` of entries copied one by one; rsync
replaces a file by a rename, so an entry is atomic, and walks in sorted order,
`game/` before `steamapps/`, which `ManifestLast` states. `floor[p]` is a
history variable: the latest build when p's process began.

**SteamCache.** One action per step between which another pod may move: plan
without the lock, lock, plan again, each entry, unlock; likewise for the sync,
with the failing copy (`SyncFails`, which ends the interpreter). The branch of
`ReplanSeed` that returns is the code's; with these other actions it is never
taken (a cache that is ready stays ready, and a pod's own volume is its own).

**SteamInstall.** `plan_update`'s four answers, the repair in its two steps
(manifest, then work directories), and SteamCMD. SteamCMD is external and is
modelled from what the runtime and its runbooks rely on: without `validate` it
trusts a ready manifest at the latest build; otherwise it announces the target in
the manifest, downloads every file into `downloading/730`, installs file by file
and writes the final manifest last. It repairs files of any mixed tree whose
manifest is not ready at the latest build.

**ServerStartup.** `Start`, the steps above, `Launch`, `Fault` (a kill at a
place in `FaultPoints`: the kernel drops the flock, volumes stay) and `Release`
(Valve publishes the next build, up to `MaxBuild`).

**UpdateChecker.** One action per command of the script, for every job in
`{Cron} \cup Manual`. `rollout` is the deployment's state under strategy
Recreate without a readiness probe: the old pod ends, the new one is created and
is available as soon as its container runs. A job ends in one of four ways: at the
end of the script; `"failed"`, by `set -e` when it meets a container that is down;
`"late"`, when the rollout times out (`RolloutTimesOut`) or the 120 attempts are used
up (`AttemptsUsedUp`); `"aborted"`, by a cause outside the script (`Abort`: network,
API server). A version of
`UpToDateCheck` is identified with its build, and Valve announces and delivers it
in one step.

**Preparation.** The second half of `main()` on a tree reduced to what it writes:
`tree[r][i]` is the content of item `i` (a file of a plugin folder by the image it came
from, a cfg file by its layer, the copied libraries by their build, `gameinfo.gi`
by whether MetaMod is hooked in). `PluginRuntime.apply` and `OverlayPlan.apply`
are straight-line code that looks at the tree only to skip a write of what is
there, so they are sequences of writes (`PluginWrites`, `OverlayWrites`) built from
the settings in the code's order and executed one by one, a kill between any
two. The Steam steps are one step each here, which a kill may cut: a copy after
any prefix of rsync's walk, an update before its manifest is ready. Each `Start`
takes any of the settings the pod is ever deployed with. `_copy_tree` merges: the files
of a plugin that only an earlier image has stay in its folder, until the folder is
removed as that of a disabled plugin. A file changes as a whole, but for `gameinfo.gi`, whose `write_text` is two writes (`PatchGameinfo`):
a start killed between them leaves the file empty, and as an empty file has no line
to put the hook behind, every later start leaves it alone (`SkipPatch`) until an
update replaces it. `PluginsAsDeclared` states that exception.

**ModeProfile, ServerManifests, ProductionCheck.** Operators, one per function of
the code. A YAML map is a function from the keys it has, so a missing key is a
missing element of its domain. Text is abstracted to what the code compares: an item
of a plugin list is the sequence of the names between its commas (`",".join` is
concatenation, a blank item is `<<>>`), a display name is a sequence of words, an
image is `[repository, pinned]`, a public address `[host, port]`, a number is the
same value as its text, and `NotInt` is a text that `int()` refuses. `Unset` is a
variable that is not there. An item of the administrators' lists is one name: one with a
comma in it, which no check of a profile excludes, would come back as two (`config.py:72-73`)
and is outside the model. The verdicts "safe name", "DNS label", "absolute path" are
sets given as constants.

**Repository.** `modes`, `profile`, `files`: the working tree. A change is one of
`EditMode`, `EditProfile`, `EditManifest` (by hand) or `Generate`, of at most
`MaxEdits` after a commit; `pending` is what the generator has rendered and not yet
written, so that `GenerationCut` can leave any prefix of the four files.
`SourceValid` is the first gate: the modes, the catalog, `--validate-only` and the
production check. `At(commit)` gives the manifests and modes of the commit before the
change and of the change.

**ServerProcess.** One pod at a time (Recreate). `launcher` says where `main()` is:
`"preparing"`, `"spawned"` (the game server runs, the handlers are not installed) or
`"waiting"`; before the handlers are there SIGTERM ends the launcher, and with it the
container and all that runs in it. `Spawn` needs `StartsUp` of the environment the
pod was created with; `MainRaises` stands for `ConfigError` and for a preparation that
fails.

**ServerQuery.** `wire` is the set of datagrams of the one open socket; any of them
may be received late, twice or never. The game server's answer names its release (and,
as history, its pod and container); the answer to a request may be a challenge, which
the query answers once. `QueryFails` are the two exceptions, a timeout and an answer
that is not an info.

**Rollout.** `gate` is where the operator and the workflow are. The repository is
frozen once the first gate has passed; `GiveUp` returns there, so that the same commit
can be deployed again. `stayed` is a history variable: who has been connected ever
since the guard asked. The smoke test is one action per read, and `smoke` what it
has found; the fatal terms in the logs are an arbitrary verdict. Its command line is any of
`CommandLines`: each of slots, name and map as the deployed mode has it, or left out, which
means 24 slots and no comparison of name and map (`smoke.py:28-37`, `129-132`).

## 3. What the runs show

| run | instance | result |
|---|---|---|
| `startup` | the deployed layout: 2 pods, one with the cache and policy always, one with neither; a lock file each; 2 files, 3 builds, kills anywhere | 2.6 M states; all hold |
| `shared_lock` | 2 pods with the cache (policies always, manifest), the lock file on its volume, 2 files, 2 builds, kills anywhere but in a sync | 222 k states; all hold |
| `cache_full_launches` | 2 pods with the cache (both always), a lock file each, 2 files, 3 builds, no room in the cache, kills anywhere | 5.8 M states; both hold: the torn cache names a build older than the latest, so SteamCMD repairs what is seeded |
| `checker` | 1 pod, 1 file, 2 builds, scheduled and manual job, kills, aborts and late jobs anywhere | 1.7 M states; both hold |
| `checker_cron` | 1 pod, 1 file, 3 builds, scheduled job | 146 k states; holds, on the premises `Undisturbed` and `UpdatesInTime` |
| `preparation` | 1 server, 3 settings over 2 images, 2 plugins of 3 files, 2 modes over a base, 2 builds, kills anywhere | 6.8 M states; all hold |
| `rollout` | 1 production server, 2 modes (3 versions of one, unsafe names among them), 4 profiles, 6 edits by hand, 2 changes, 3 pods of 2 containers, 1 player, 1 bot, 2 datagrams under way, the smoke test with and without each argument | 406 k states; all hold |
| `torn_cache` | 2 pods with the cache, the lock file on its volume, kills anywhere, also in a sync | `ServersSound` violated |
| `cache_goes_back` | only running servers are restarted | `CacheNeverOlder` violated |
| `private_lock` | volume mounted at the cache root | `CacheSerialized` violated |
| `handled_early` | no faults at all, scheduled job | `HandledOnlyWhenUpdated` violated |
| `plugins_spread` | 2 servers, one with plugins | `NeverEnabledIsPluginFree` violated |

Where the lock lies. The generator mounts the cache volume at `CS2_CACHE_ROOT`
(`MountAtRoot`), so the lock file, in the parent directory, is each container's own:
that is the layout of `startup`, `cache_full_launches` and `private_lock`. `shared_lock`,
`torn_cache` and `cache_goes_back` mount it one level higher (`MountAtParent`), which
nothing in this repository renders: `shared_lock` shows what the code's own locking is good
for once the lock is one file, and the two others that even then a kill inside a copy
tears the cache and a slower pod takes it back to an older build.
What holds of the deployment is what `startup` says, and there it holds because one
server of the node has the cache, not because of the lock.

Why the bounds are enough. Two pods are needed for the lock and for one pod to
seed what another left; a third adds no new pair of roles, because the cache
relates pods only two at a time through the lock. Two files are the least that
lets a tree hold two builds; three builds let a cache, a server and Valve all
differ. The checker is one server, as deployed, so its instance has one pod and
one file (the mixed trees are the other runs' business) and no cache.
A server's preparation depends on its own
settings and its tree only, so one server with changing settings (its cache holds its
own past) is enough there; a second is needed for what spreads. `MaxBuild` bounds
the releases; nothing else is bounded in those runs. In `rollout`, two changes are
enough to change a mode and generate, or to generate and edit by hand, before the
gate; the profiles and edits between them break every kind of condition the check or
the parser has. Three pods are the one before the deployment, the one of it, and one
more replacement; two containers of a pod are a crash. Two datagrams under way let a
stale one be there beside a new one. One person is enough to stay, leave and join;
`NobodyWhoStayedIsThrownOut` holds for any number. Symmetry (`OnlyFiles`)
is used where only safety is checked.

The five violations, each quoted against its document in `PROJECT.json`:

1. `torn_cache`: a sync over an older ready cache rewrites game files first. Killed
   in between, it leaves the old ready manifest above mixed files; the next pod
   with an empty volume seeds it, and its volume now "is ready" with a torn
   install. SteamCMD mends it only when the build it names is no longer the latest.
2. `cache_goes_back`: the sync compares builds for equality; a slower pod with an
   older build overwrites the newer cache.
3. `private_lock`: the lock file is in the parent of `CS2_CACHE_ROOT`; the
   generator mounts the volume at `CS2_CACHE_ROOT`. Each container locks a file of
   its own.
4. `handled_early`: the new pod is available before its process has touched the
   manifest, and the manifest the previous process left is ready.
5. `plugins_spread`: the sync carries the plugins and the `gameinfo.gi` hook of one
   server's earlier start into the cache, the seed into the volume of a server that
   never enabled the plugin runtime, and a disabled runtime removes nothing.

What the first three cannot do is the business of `cache_full_launches` and of the
theorem `TornIsRepaired`: where one pod of a node uses the
cache, as in the manifests of this repository, or a full volume stops every copy, a torn
cache always names a build before the latest, and a pod with the policy `always`
has it repaired before it launches (`startup`, and `LatestIsTrusted`: no ready manifest
at the latest build is ever such a lie).

## 4. Fairness

`ServerStartup!Fairness` is weak fairness of `Step(p)` for each pod: subprocesses
and `flock` are waited for without a timeout, and a container that ended is
started again (restartPolicy Always). Weak fairness is enough for the lock because
every holder releases it and a pod uses the lock at most twice per start.
`EveryServerRuns` assumes, as part of the property, that kills stop.

`CheckerFairness` adds the deployment controller, the schedule (the job is
triggered again whenever it has ended) and the script's own steps; nothing is
assumed about manual jobs being started. `NewestGetsHandled` assumes inside the
property that crashes, outside failures and manual jobs stop (`Undisturbed`) and that
from some point on no job is late (`UpdatesInTime`). The second is a premise that the
code does not secure: the job gives up after 120 attempts, the next one finds the
manifest not ready and restarts the pod in the middle of its update, and TLC finds
`NewestGetsHandled` violated when the premise is dropped. An update that always takes
longer than the script waits is restarted for ever.

`Rollout!Fairness` is weak fairness of `GuardFails` and of `SmokeFails`, and of nothing
else: a socket with a timeout returns from `recvfrom`, and the tool goes on to the
exception. Nothing is assumed of the network, the server, the players or the operator,
so `QueriesEnd` says that a query ends even when nobody ever answers.

## 5. What is proved

For every number of pods, files and builds, with the constants' assumptions
(`MaxBuildAssumption`, `AbsentAssumption`, `TreesAssumption`, `CheckerAssumption`),
and for every number of servers, images, plugins, modes, layers and settings in
`Preparation`, every profile, mode and edit in `Rollout`:

| theorem | further assumption |
|---|---|
| `TypeCorrect`, `LaunchesAreFresh` | none |
| `CacheIsSerialized` | `LockShared \/ SoleCachePod` |
| `CheckerTypeCorrect`, `CheckerReadyIsReady` | none |
| `HandledIsNewer` | the server's policy is always |
| `FirstDownloadIsKept` | none |
| `SoleCacheNeverOlder` | `SoleCachePod`: one pod of the node uses the cache |
| `TornIsRepaired`, `LatestIsTrusted`, `StartupImplementsContract` | `OldTears` |
| `RolloutTypeCorrect` | `RepositoryAssumption`, `ServerAssumption` |
| `RunsContained`, `PromotionAsExpected` | `RepositoryAssumption` |
| `ChecksAcceptExactly`, `GeneratedIsReadBack` | `RepositoryAssumption`, `MarkersAssumption` |
| `NobodyWhoStayedIsThrownOut` | `ServerAssumption` |
| `PromotionIsOfOneProcess`, `AskedBeforeKilled` | none |
| `PreparationTypeCorrect`, `LibrariesAreOfTheBuild`, `PluginsAreAsDeclared`, `CfgIsMostSpecific` | `PreparationAssumption` |
| `PluginFreeWithoutRuntime` | no setting ever deployed enables the runtime |

`RepositoryAssumption` says that the commit deployed so far has passed the first gate
itself, `ServerAssumption` that people and bounds are finite, `MarkersAssumption` that
`Unset` and `NotInt` are no values a file spells: a key that is there has a value, but
for `cache_root`, which may be null. `PreparationAssumption` says that plugins, cfg
files and the files the runtime manages are different items, and that a deployment's
settings name images and modes that exist.

`OldTears` asks that a copy takes the manifest last (rsync's order), that every pod that
uses the cache has the policy `always` (the generator's default, which
`production_check.py:42` insists on), and that it is the only one of its node or the cache
never has room. The server of this repository satisfies it: it is the one with the
cache. Neither a shared lock nor the absence of kills is asked for. Two pods with a
cache that has room are outside it, and there the claims fail: `torn_cache` and
`cache_goes_back`.

The argument. `LockInv`: whoever is in a critical section owns the lock file it
opened; with one lock file, or one pod in the cache (`OnlyCachePods`), this gives
`CacheSerialized`. `FreshInv` says of each place
after the update that the manifest is ready and, under `always`, at least at
`floor`; it mentions the cache nowhere, because the update step re-establishes it
from any manifest. `StartupImplementsContract` maps each action to the contract:
`Start` to `Begin`, `Launch` to `Launch`, a kill to `End`, `Release` to
`Publish`, all else to a stutter, and needs `TornIsRepaired` for the launched build to
be one. `HandledIsNewer` follows a job's version: from `curl` on it is at most
`latest`, from the restart on a pending rollout guarantees that the next process
begins with `floor` at least that, and the tracker is at most the `floor` of the
process that is running. `FirstDownloadIsKept` needs only that a repair is never
entered with the manifest of a first install (`RepairInv`).

`RunsContained` carries through every step that the deployed commit, and the change
once it has left the first gate, satisfy `Passed` (the checks and the validation of
the modes); from `Passed`, the csv the check compares is the one `from_env` splits, and
the names that the validator lets through are those that `_remove_disabled_plugins`
does not skip. `PromotionAsExpected` adds what is known after the deployment
(`DeployedInv`: the pod that answers is of the change, and its environment has been
accepted by `from_env`) and what the answer has shown (`ShownInv`). The slots come from
the smoke test, which alone asks for them and may be told to expect 24; map, map group,
name and ports come from the check and need no argument of the smoke test.
`PromotionIsOfOneProcess` is about
histories: whatever the wire or the smoke test has seen was there (`Seen`: an earlier
pod, or an earlier or the same container of this one), so a first container inspected
after the answer is the one that answered. `NobodyWhoStayedIsThrownOut` (`PlayersInv`)
says of every info on the guard's wire that it counts at least everyone in `stayed`
above the bots. `AskedBeforeKilled` (`StopInv`) ties the game to the launcher's place.
`ChecksAcceptExactly` is an equivalence over all profiles and modes, from lemmas on what
the generator renders.

`SoleCacheNeverOlder` rests on `CacheBehind`: the pod's own ready install, and the
build it fetches, are never older than the cache's, because nobody else writes either.
`TornIsRepaired` (`TearsInv`) follows a torn tree: whatever is ready but not of one build
is of a build before `latest` (`TornIsOld`), because a sync only starts over a cache of
another, so older, build, and `latest` never goes back; SteamCMD takes only a manifest at
`latest` for up to date, so what settles after the update is whole (`SettledSound`). A
second pod that syncs an older build over a cache at the latest one is exactly what
breaks it (`cache_goes_back`).

`Preparation`. The writes of a start are a sequence, so `PreparationInv` says of every
write that its plan leaves in place (`Final`: no later write of the same item differs)
that it is still among those left and final there, or done and not undone by those left
(`Will`). One lemma per part of the plan says what it writes to which items, `Final` and
`Keeps` go through concatenation, and at the launch nothing is left.
`gameinfo.gi` stands apart, since its patch looks at the file: either the hook is still to
be written or the file is no longer as Steam ships it, and its two writes always follow
each other (`Paired`), so none is skipped without the other.
The copies of a set in rsync's order are `SetToSeq`, of which `SetToSeqOf` gives what the
proofs need. For `PluginFreeWithoutRuntime`, `OriginInv` says that every plugin file and
hook, in a tree or still to be written, has an origin in some deployment; copies and
updates only move it.

`GeneratedIsReadBack` goes field by field: what the generator spells is not blank where
`from_env` has a default, a number is read as itself, a csv splits into what was joined.
The exception is in the property: no admin flags become the default ones.

Every safety and action property of the passing runs is a theorem, but for `ServersSound`
and `CacheSound`, which need the lock of run `shared_lock` and no kill in a sync.
`SoleCacheNeverOlder` and `PluginFreeWithoutRuntime` prove, under a condition on the
deployment, the properties that `cache_goes_back` and `plugins_spread` violate. Only
model-checked are the liveness properties (`EveryServerRuns`, `NewestGetsHandled`,
`QueriesEnd`), which need fairness and ENABLED and are out of the prover's reach, and of
course the violations.

## 6. Not modelled

The text of files (manifest grammar, JSON, VDF, cfg), half-written files other than
`gameinfo.gi`, the bytes of a datagram, the Docker image and RBAC objects. Of the tools:
blanks inside comma-separated names and leading zeros in ports (both are texts the
check compares literally), the words of the logs, the workflow's dry run, the fields
of the manifests that no other program reads (labels, volumes other than data and
cache), and changes of the repository between the first gate and the commit, which no
tool of the repository watches. The production check knows one server; what it
does not read of other servers is not claimed of them.

A cache volume without room ends every start at the sync, since nothing catches
rsync's error: run `cache_full_launches` models the failing copy, and what it claims
is that no server launches on what the copy leaves.

## 7. Plan

1. What the production check does not read: two servers of one repository in `Rollout`,
   and which of its theorems survive for the second.
2. An abstract specification of the rollout (a version is wanted, deployed, approved)
   that `Rollout` refines, as `LaunchContract` is of the startup.
3. The condition under which several pods share a cache that has room: with the
   shared lock, no pod begins to copy a build older than the cache's. `CacheNeverOlder`
   alone is not enough, since a copy killed before its manifest tears the cache without
   replacing that.
