---------------------------- MODULE UpdateChecker ----------------------------
(***************************************************************************)
(* k8s/base/update-checker.yaml: the CronJob that polls Valve, restarts    *)
(* the deployment of one server, waits for the rollout, verifies the       *)
(* appmanifest in the pod and then records the version as handled.  It is  *)
(* composed with ServerStartup, whose pod Server it restarts and whose     *)
(* volume it reads.                                                        *)
(*                                                                         *)
(* A required_version of UpToDateCheck is identified with the build that   *)
(* introduced it; Valve announces and delivers a build in one step.        *)
(*                                                                         *)
(* External: kubectl, and the deployment controller with strategy Recreate *)
(* and no readiness probe (k8s/servers/staging-mirage-multicfg-01-         *)
(* deployment.yaml): the old pod ends before the new one is created, and a *)
(* pod counts as available as soon as its container runs.                  *)
(***************************************************************************)
EXTENDS ServerStartup

CONSTANTS
    Server,     \* the pod of the deployment the checker restarts
    Cron,       \* the scheduled job, at most one at a time (Forbid)
    Manual      \* the jobs an operator makes from it, which may run beside it

ASSUME CheckerAssumption == Server \in Pods

Jobs == {Cron} \cup Manual

VARIABLES
    tracker,    \* required_version in the ConfigMap, Absent before it exists
    rollout,    \* "terminate", "create" or "complete": the last restart's state
    at,         \* at[j]: where job j is in its script
    required,   \* required[j]: REQUIRED_VERSION of job j
    last        \* last[j]: LAST_VERSION of job j

jobVars == <<at, required, last>>
checkerVars == <<tracker, rollout, at, required, last>>
allVars == <<vars, checkerVars>>

\* "failed" is an exit of the script by its own checks and set -e, "late" one by
\* its own time limits, "aborted" one that the network or the API server caused.
Ended == {"idle", "failed", "late", "aborted"}
Script == {"curl", "ensure", "read", "decide", "inspect", "restart", "status", "verify", "patch"}

CheckerTypeOK ==
    /\ TypeOK
    /\ tracker \in BuildIds \cup {Absent}
    /\ rollout \in {"terminate", "create", "complete"}
    /\ at \in [Jobs -> Ended \cup Script]
    /\ required \in [Jobs -> BuildIds]
    /\ last \in [Jobs -> BuildIds]

CheckerInit ==
    /\ Init
    /\ tracker = Absent
    /\ rollout = "create"
    /\ at = [j \in Jobs |-> "idle"]
    /\ required = [j \in Jobs |-> 0]
    /\ last = [j \in Jobs |-> 0]

GotoLine(j, line) == at' = [at EXCEPT ![j] = line]

\* kubectl exec needs a container that runs.
ContainerRuns == pc[Server] \notin Stopped

(* manifest_ready_state, of what manifest_state prints *)
ManifestReadyState(m) ==
    /\ m # Absent
    /\ {m.build, m.target} \cap {Absent, 0} = {}
    /\ m.build = m.target
    /\ m.flags = 4
    /\ m.result = 0

-----------------------------------------------------------------------------
(* The script *)

\* The cron schedule, or kubectl create job --from=cronjob/cs2-update-checker.
Trigger(j) ==
    /\ at[j] \in Ended
    /\ GotoLine(j, "curl")
    /\ UNCHANGED <<vars, tracker, rollout, required, last>>

Curl(j) ==
    /\ at[j] = "curl"
    /\ required' = [required EXCEPT ![j] = latest]
    /\ GotoLine(j, "ensure")
    /\ UNCHANGED <<vars, tracker, rollout, last>>

\* Mutant: the tracker is not created when it is missing.
EnsureTracker_Skipped(j) ==
    /\ at[j] = "ensure"
    /\ GotoLine(j, "read")
    /\ UNCHANGED <<vars, tracker, rollout, required, last>>

\* kubectl get configmap || kubectl create configmap
EnsureTracker(j) ==
    /\ at[j] = "ensure"
    /\ tracker' = IF tracker = Absent THEN 0 ELSE tracker
    /\ GotoLine(j, "read")
    /\ UNCHANGED <<vars, rollout, required, last>>

ReadTracker(j) ==
    /\ at[j] = "read"
    /\ last' = [last EXCEPT ![j] = tracker]
    /\ GotoLine(j, "decide")
    /\ UNCHANGED <<vars, tracker, rollout, required>>

Decide(j) ==
    /\ at[j] = "decide"
    /\ GotoLine(j, IF required[j] # last[j] THEN "restart" ELSE "inspect")
    /\ UNCHANGED <<vars, tracker, rollout, required, last>>

\* A handled version whose manifest is not ready is rolled out again.
Inspect(j) ==
    /\ at[j] = "inspect"
    /\ GotoLine(j, IF ~ContainerRuns THEN "failed"
                   ELSE IF ManifestReadyState(manifest[Server]) THEN "idle"
                   ELSE "restart")
    /\ UNCHANGED <<vars, tracker, rollout, required, last>>

\* kubectl rollout restart returns when the new pod template is stored.
Restart(j) ==
    /\ at[j] = "restart"
    /\ rollout' = "terminate"
    /\ GotoLine(j, "status")
    /\ UNCHANGED <<vars, tracker, required, last>>

\* Mutant: the script does not wait for the rollout.
Status_NoWait(j) ==
    /\ at[j] = "status"
    /\ ContainerRuns
    /\ GotoLine(j, "verify")
    /\ UNCHANGED <<vars, tracker, rollout, required, last>>

\* kubectl rollout status waits until the new pod is available.
Status(j) ==
    /\ at[j] = "status"
    /\ rollout = "complete"
    /\ ContainerRuns
    /\ GotoLine(j, "verify")
    /\ UNCHANGED <<vars, tracker, rollout, required, last>>

\* Mutant: a single attempt, and an exit when it finds no ready manifest.
Verify_Once(j) ==
    /\ at[j] = "verify"
    /\ GotoLine(j, IF ContainerRuns /\ ManifestReadyState(manifest[Server]) THEN "patch" ELSE "failed")
    /\ UNCHANGED <<vars, tracker, rollout, required, last>>

\* One attempt of verify_manifest_ready; one that is not ready only sleeps.
Verify(j) ==
    /\ at[j] = "verify"
    /\ \/ ~ContainerRuns /\ GotoLine(j, "failed")
       \/ ContainerRuns /\ ManifestReadyState(manifest[Server]) /\ GotoLine(j, "patch")
    /\ UNCHANGED <<vars, tracker, rollout, required, last>>

Patch(j) ==
    /\ at[j] = "patch"
    /\ tracker' = required[j]
    /\ GotoLine(j, "idle")
    /\ UNCHANGED <<vars, rollout, required, last>>

\* rollout status --timeout=180m
RolloutTimesOut(j) ==
    /\ at[j] = "status"
    /\ GotoLine(j, "late")
    /\ UNCHANGED <<vars, tracker, rollout, required, last>>

\* The last of the 120 attempts, 10 s apart, was not ready either.  The pod goes
\* on with its update, which the next job may restart in the middle.
AttemptsUsedUp(j) ==
    /\ at[j] = "verify"
    /\ GotoLine(j, "late")
    /\ UNCHANGED <<vars, tracker, rollout, required, last>>

\* curl or kubectl fails for a cause outside the script.
Abort(j) ==
    /\ at[j] \in Script \ {"decide"}
    /\ GotoLine(j, "aborted")
    /\ UNCHANGED <<vars, tracker, rollout, required, last>>

ScriptStep(j) ==
    \/ Curl(j) \/ EnsureTracker(j) \/ ReadTracker(j) \/ Decide(j)
    \/ Inspect(j) \/ Restart(j) \/ Status(j) \/ Verify(j) \/ Patch(j)

-----------------------------------------------------------------------------
(* The deployment and its pod *)

\* Recreate: the old pod goes first, wherever its startup is.
EndOldPod ==
    /\ rollout = "terminate"
    /\ rollout' = "create"
    /\ \/ ContainerRuns /\ Killed(Server)
       \/ ~ContainerRuns /\ UNCHANGED vars
    /\ UNCHANGED <<tracker, jobVars>>

\* A start is that of the new pod, or the kubelet's restart of the same pod.
PodStep(p) ==
    /\ Step(p)
    /\ rollout' = IF p = Server /\ Start(p) /\ rollout = "create" THEN "complete" ELSE rollout
    /\ UNCHANGED <<tracker, jobVars>>

Elsewhere ==
    /\ Release \/ \E p \in Pods : Fault(p)
    /\ UNCHANGED checkerVars

CheckerNext ==
    \/ Elsewhere
    \/ EndOldPod
    \/ \E p \in Pods : PodStep(p)
    \/ \E j \in Jobs : Trigger(j) \/ ScriptStep(j)
                       \/ RolloutTimesOut(j) \/ AttemptsUsedUp(j) \/ Abort(j)

(* The cron schedule fires for ever; an operator need not.  A script goes  *)
(* on as long as none of its commands fails; the deployment controller and *)
(* the pods likewise.                                                      *)
CheckerFairness ==
    /\ WF_allVars(EndOldPod)
    /\ \A p \in Pods : WF_allVars(PodStep(p))
    /\ WF_allVars(Trigger(Cron))
    /\ \A j \in Jobs : WF_allVars(ScriptStep(j))

CheckerSpec == CheckerInit /\ [][CheckerNext]_allVars /\ CheckerFairness

-----------------------------------------------------------------------------
(* Properties *)

\* Once a version is recorded as handled, a running server is at least at
\* that build, whatever crashes and overlapping jobs came between: the record
\* is only made behind a restart that began after the version was read.
HandledMeansNewer ==
    tracker # Absent /\ pc[Server] = "running" => manifest[Server].build >= tracker

\* A version is marked handled only while the live appmanifest is healthy, at
\* that version (docs/runbooks/production-rollout.md:143, and the last line of
\* the script: "rollout completed for required_version").
HandledOnlyWhenUpdated ==
    [][\A j \in Jobs : Patch(j) =>
        ManifestReadyState(manifest[Server]) /\ manifest[Server].build >= required[j]]_allVars

\* From some point on the pod ends only for a rollout, no command fails for a
\* cause outside the script and nobody starts manual jobs.
Undisturbed ==
    /\ <>[](pc[Server] = "down" => rollout = "create")
    /\ \A j \in Jobs : <>[](at[j] # "aborted")
    /\ \A j \in Manual : <>[](at[j] \in Ended)

\* From some point on no update takes longer than the script waits for it.  The
\* code does not see to that: an update that always does is restarted for ever.
UpdatesInTime == \A j \in Jobs : <>[](at[j] # "late")

\* When nothing disturbs the jobs any more and updates are fast enough for them,
\* the newest version ends up handled and run, and is not restarted any more: no
\* crash, lost or late job or premature record on the way, and no job that set -e
\* ends, leaves the checker waiting or rolling for ever.
NewestGetsHandled ==
    Undisturbed /\ UpdatesInTime
        => <>[](tracker = latest /\ pc[Server] = "running" /\ manifest[Server].build = latest)
=============================================================================
