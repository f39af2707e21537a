------------------------ MODULE UpdateChecker_proofs ------------------------
(***************************************************************************)
(* Theorems about UpdateChecker, for every number of jobs, files and       *)
(* builds.  They build on the invariants of the startup: every step of the *)
(* composition is a step of ServerStartup, leaves its variables alone, or  *)
(* ends the old pod of a rollout, which Killed describes.                  *)
(***************************************************************************)
EXTENDS UpdateChecker, ServerStartup_proofs

USE MaxBuildAssumption, AbsentAssumption DEF Roots, Entries, Places, Stopped, Seeding, SeedHolding,
    Updating, Syncing, SyncHolding, Builds, BuildIds

\* Ending a pod's process keeps the invariants of the startup.
LEMMA KilledKeeps ==
    ASSUME TypeInv, FreshInv, NEW p \in Pods, Killed(p)
    PROVE  TypeInv' /\ FreshInv'
BY TreesAssumption DEF Killed, TypeInv, TypeOK, FetchesWithManifest, FreshInv, FloorInv, NoFutureBuild,
   FetchesFresh, SettledReady, SettledFresh, Settled, Goto, trees

\* What a checker step does to the startup's variables.
LEMMA CheckerStepKinds ==
    ASSUME [CheckerNext]_allVars
    PROVE  [Next]_vars \/ (Killed(Server) /\ EndOldPod)
BY CheckerAssumption DEF CheckerNext, allVars, Elsewhere, EndOldPod, PodStep, ScriptStep, Abort,
   RolloutTimesOut, AttemptsUsedUp, Trigger,
   Curl, EnsureTracker, ReadTracker, Decide, Inspect, Restart, Status, Verify, Patch, Next

\* The invariants of the startup hold in the composition.
LEMMA StartupInChecker == CheckerSpec => [](TypeInv /\ FreshInv)
<1>1. CheckerInit => TypeInv /\ FreshInv
  <2>1. Init => FreshInv BY FreshInit
  <2> QED BY <2>1, TypeInit DEF CheckerInit
<1>2. TypeInv /\ FreshInv /\ [CheckerNext]_allVars => (TypeInv /\ FreshInv)'
  BY CheckerStepKinds, TypeNext, FreshNext, KilledKeeps, CheckerAssumption
<1> QED BY <1>1, <1>2, PTL DEF CheckerSpec

-----------------------------------------------------------------------------
(***************************************************************************)
(* Types                                                                   *)
(***************************************************************************)
JobsTypeOK ==
    /\ tracker \in BuildIds \cup {Absent}
    /\ rollout \in {"terminate", "create", "complete"}
    /\ at \in [Jobs -> Ended \cup Script]
    /\ required \in [Jobs -> BuildIds]
    /\ last \in [Jobs -> BuildIds]

\* A job only reads the tracker after making sure that it exists.
TrackerExists == \A j \in Jobs : at[j] = "read" => tracker # Absent

CheckerTypeInv == JobsTypeOK /\ TrackerExists

\* Every step of the composition keeps the checker's types.
LEMMA CheckerTypeNext ==
    ASSUME TypeInv, CheckerTypeInv, [CheckerNext]_allVars
    PROVE  CheckerTypeInv'
<1> USE DEF CheckerTypeInv, JobsTypeOK, TrackerExists, Ended, Script, GotoLine, checkerVars, jobVars
<1>1. CASE Elsewhere BY <1>1 DEF Elsewhere
<1>2. CASE EndOldPod BY <1>2 DEF EndOldPod
<1>3. ASSUME NEW p \in Pods, PodStep(p) PROVE CheckerTypeInv' BY <1>3 DEF PodStep
<1>4. ASSUME NEW j \in Jobs, Trigger(j) \/ ScriptStep(j) PROVE CheckerTypeInv'
  <2>1. CASE Trigger(j) BY <2>1 DEF Trigger
  <2>2. CASE Curl(j) BY <2>2 DEF Curl, TypeInv, TypeOK
  <2>3. CASE EnsureTracker(j) BY <2>3 DEF EnsureTracker
  <2>4. CASE ReadTracker(j) BY <2>4 DEF ReadTracker
  <2>5. CASE Decide(j) BY <2>5 DEF Decide
  <2>6. CASE Inspect(j) BY <2>6 DEF Inspect
  <2>7. CASE Restart(j) BY <2>7 DEF Restart
  <2>8. CASE Status(j) BY <2>8 DEF Status
  <2>9. CASE Verify(j) BY <2>9 DEF Verify
  <2>10. CASE Patch(j) BY <2>10 DEF Patch
  <2> QED BY <1>4, <2>1, <2>2, <2>3, <2>4, <2>5, <2>6, <2>7, <2>8, <2>9, <2>10 DEF ScriptStep
<1>5. ASSUME NEW j \in Jobs, RolloutTimesOut(j) \/ AttemptsUsedUp(j) \/ Abort(j)
      PROVE  CheckerTypeInv'
  BY <1>5 DEF RolloutTimesOut, AttemptsUsedUp, Abort
<1>6. CASE UNCHANGED allVars BY <1>6 DEF allVars
<1> QED BY <1>1, <1>2, <1>3, <1>4, <1>5, <1>6 DEF CheckerNext

\* Every variable of the composition keeps its type.
THEOREM CheckerTypeCorrect == CheckerSpec => []CheckerTypeOK
<1>1. CheckerInit => CheckerTypeInv
  BY DEF CheckerInit, CheckerTypeInv, JobsTypeOK, TrackerExists, Ended
<1>2. TypeInv /\ CheckerTypeInv /\ [CheckerNext]_allVars => CheckerTypeInv'
  BY CheckerTypeNext
<1>3. TypeInv /\ CheckerTypeInv => CheckerTypeOK
  BY DEF TypeInv, CheckerTypeInv, JobsTypeOK, CheckerTypeOK
<1> QED BY <1>1, <1>2, <1>3, StartupInChecker, PTL DEF CheckerSpec

-----------------------------------------------------------------------------
(***************************************************************************)
(* A handled version is one the server's process began after.  The script  *)
(* reads the version, then restarts, and records it only behind a rollout  *)
(* that is complete: so the recorded version never exceeds floor[Server],  *)
(* and LaunchesFresh gives the rest.                                       *)
(***************************************************************************)
AfterCurl == Script \ {"curl"}
Rolled == {"verify", "patch"}

HandledInv ==
    /\ tracker # Absent => tracker <= floor[Server]
    /\ \A j \in Jobs :
        /\ at[j] \in AfterCurl => required[j] <= latest
        /\ at[j] \in Rolled => required[j] <= floor[Server]
        /\ at[j] = "status" /\ rollout = "complete" => required[j] <= floor[Server]

\* Every step of the composition keeps HandledInv.
LEMMA HandledNext ==
    ASSUME TypeInv, FreshInv, CheckerTypeInv, HandledInv, [CheckerNext]_allVars
    PROVE  HandledInv'
<1> USE CheckerAssumption DEF HandledInv, AfterCurl, Rolled, CheckerTypeInv, JobsTypeOK, TrackerExists,
    Ended, Script, GotoLine, checkerVars, jobVars, FreshInv, FloorInv, TypeInv, TypeOK
<1>0. latest \in Nat /\ floor[Server] \in Nat /\ \A j \in Jobs : required[j] \in Nat
  OBVIOUS
<1>1. CASE Elsewhere
  <2>1. UNCHANGED <<floor, checkerVars>> /\ latest' \in {latest, latest + 1}
    BY <1>1 DEF Elsewhere, Release, Fault, Killed
  <2> QED BY <1>0, <2>1
<1>2. CASE EndOldPod
  <2>1. UNCHANGED <<latest, floor>> BY <1>2 DEF EndOldPod, Killed, vars
  <2> QED BY <1>2, <2>1 DEF EndOldPod
<1>3. ASSUME NEW p \in Pods, PodStep(p) PROVE HandledInv'
  <2>1. CASE Start(p)
    <3>1. latest' = latest /\ floor' = [floor EXCEPT ![p] = latest] BY <2>1 DEF Start
    <3>2. floor'[Server] \in {floor[Server], latest} /\ floor[Server] <= latest BY <3>1
    <3>3. p = Server => floor'[Server] = latest BY <3>1
    <3>4. rollout' = "complete" => rollout = "complete" \/ p = Server BY <1>3 DEF PodStep
    <3> QED BY <1>0, <1>3, <3>1, <3>2, <3>3, <3>4 DEF PodStep
  <2>2. CASE ~Start(p)
    <3>1. UNCHANGED <<latest, floor>>
      <4>1. CASE Launch(p) BY <4>1 DEF Launch
      <4>2. CASE CacheStep(p) \/ InstallStep(p) BY <4>2, HiddenStep
      <4> QED BY <1>3, <2>2, <4>1, <4>2 DEF PodStep, Step
    <3> QED BY <1>3, <2>2, <3>1 DEF PodStep
  <2> QED BY <2>1, <2>2
<1>4. ASSUME NEW j \in Jobs, Trigger(j) \/ ScriptStep(j) PROVE HandledInv'
  <2>1. CASE Trigger(j) BY <2>1 DEF Trigger, vars
  <2>2. CASE Curl(j) BY <1>0, <2>2 DEF Curl, vars
  <2>3. CASE EnsureTracker(j) BY <1>0, <2>3 DEF EnsureTracker, vars
  <2>4. CASE ReadTracker(j) BY <2>4 DEF ReadTracker, vars
  <2>5. CASE Decide(j) BY <2>5 DEF Decide, vars
  <2>6. CASE Inspect(j) BY <2>6 DEF Inspect, vars
  <2>7. CASE Restart(j) BY <2>7 DEF Restart, vars
  <2>8. CASE Status(j) BY <2>8 DEF Status, vars
  <2>9. CASE Verify(j) BY <2>9 DEF Verify, vars
  <2>10. CASE Patch(j) BY <2>10 DEF Patch, vars
  <2> QED BY <1>4, <2>1, <2>2, <2>3, <2>4, <2>5, <2>6, <2>7, <2>8, <2>9, <2>10 DEF ScriptStep
<1>5. ASSUME NEW j \in Jobs, RolloutTimesOut(j) \/ AttemptsUsedUp(j) \/ Abort(j)
      PROVE  HandledInv'
  BY <1>5 DEF RolloutTimesOut, AttemptsUsedUp, Abort, vars
<1>6. CASE UNCHANGED allVars BY <1>6 DEF allVars, vars
<1> QED BY <1>1, <1>2, <1>3, <1>4, <1>5, <1>6 DEF CheckerNext

\* With the policy "always", a version on record as handled is one that a
\* running server has reached, however jobs overlap and pods crash.
THEOREM HandledIsNewer ==
    ASSUME Server \in AlwaysPods
    PROVE  CheckerSpec => []HandledMeansNewer
<1>1. CheckerInit => CheckerTypeInv /\ HandledInv
  BY DEF CheckerInit, CheckerTypeInv, JobsTypeOK, TrackerExists, HandledInv, AfterCurl, Rolled, Ended, Script
<1>2. TypeInv /\ FreshInv /\ CheckerTypeInv /\ HandledInv /\ [CheckerNext]_allVars
        => CheckerTypeInv' /\ HandledInv'
  BY CheckerTypeNext, HandledNext
<1>3. TypeInv /\ FreshInv /\ CheckerTypeInv /\ HandledInv => HandledMeansNewer
  <2> SUFFICES ASSUME TypeInv, FreshInv, CheckerTypeInv, HandledInv, tracker # Absent, pc[Server] = "running"
      PROVE  manifest[Server].build >= tracker
    BY DEF HandledMeansNewer
  <2>1. tracker <= floor[Server] BY DEF HandledInv
  <2>2. manifest[Server].build >= floor[Server] BY DEF FreshInv, SettledFresh, Settled
  <2>3. manifest[Server] \in Manifests
    BY CheckerAssumption DEF TypeInv, TypeOK, MaybeManifests, FreshInv, SettledReady, Settled, ReadyOnDisk
  <2>4. manifest[Server].build \in Nat /\ floor[Server] \in Nat /\ tracker \in Nat
    BY <2>3, CheckerAssumption DEF Manifests, TypeInv, TypeOK, CheckerTypeInv, JobsTypeOK
  <2> QED BY <2>1, <2>2, <2>4
<1> QED BY <1>1, <1>2, <1>3, StartupInChecker, PTL DEF CheckerSpec

\* What the checker accepts as a healthy manifest, the server's own startup
\* accepts as ready: no handled manifest is one the next start would repair.
THEOREM CheckerReadyIsReady ==
    ASSUME NEW m, ManifestReadyState(m)
    PROVE  ReadyOnDisk(m) /\ ~NeedsRepair(m)
BY DEF ManifestReadyState, ReadyOnDisk, IsReady, NeedsRepair
=============================================================================
