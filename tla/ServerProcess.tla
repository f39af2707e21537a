---------------------------- MODULE ServerProcess ----------------------------
(***************************************************************************)
(* One server's pod from its creation to its end: tini, the launcher       *)
(* (src/cs2_server/__main__.py) and the game server it spawns, against the *)
(* signals of a deletion, crashes, and the deployment controller with      *)
(* strategy Recreate.                                                      *)
(*                                                                         *)
(* tini is the first process of the container and passes SIGTERM on to the *)
(* launcher only.  When the launcher ends, tini ends, and with the         *)
(* container every process in it.                                          *)
(***************************************************************************)
EXTENDS Repository, FiniteSets

CONSTANTS
    People,         \* those who may play
    MaxBots,        \* bots there are at most (bounds the model)
    Secrets,        \* the keys of cs2-secrets that are not blank
    MaxPods,        \* pods created at most (bounds the model)
    MaxStarts       \* containers of one pod at most (bounds the model)

VARIABLES
    applied,        \* the commit whose manifests are in the cluster
    pod,            \* the number of the present pod, or of the last one
    release,        \* applied when this pod was created
    termination,    \* of the pod: "no", "asked", "signalled", or the pod is "gone"
    starts,         \* containers this pod has had
    launcher,       \* where main() is
    game,           \* the game server
    humans, bots    \* who is connected

podVars == <<pod, release, termination, starts>>
processVars == <<launcher, game, humans, bots>>
serverVars == <<applied, podVars, processVars>>

Up == {"loading", "serving"}

\* "spawned": the game server runs and the handlers are not installed yet.
Launchers == {"absent", "preparing", "spawned", "waiting"}
Games == {"none", "ended", "stopping"} \cup Up

ServerInit ==
    /\ applied = "last"
    /\ pod = 1
    /\ release = "last"
    /\ termination = "no"
    /\ starts = 0
    /\ launcher = "absent"
    /\ game = "none"
    /\ humans = {}
    /\ bots = 0

ContainerEnds ==
    /\ launcher' = "absent"
    /\ game' = "none"
    /\ humans' = {}
    /\ bots' = 0

-----------------------------------------------------------------------------
(* main() *)

ContainerStarts ==
    /\ termination = "no" /\ launcher = "absent"
    /\ starts < MaxStarts
    /\ starts' = starts + 1
    /\ launcher' = "preparing"
    /\ UNCHANGED <<applied, pod, release, termination, game, humans, bots>>

\* An exception: from_env refuses the environment, or a preparation fails.
MainRaises ==
    /\ launcher = "preparing"
    /\ ContainerEnds
    /\ UNCHANGED <<applied, podVars>>

\* subprocess.Popen
Spawn ==
    /\ launcher = "preparing"
    /\ StartsUp(At(release).files.deployment.env, Secrets)
    /\ launcher' = "spawned"
    /\ game' = "loading"
    /\ UNCHANGED <<applied, podVars, humans, bots>>

InstallHandlers ==
    /\ launcher = "spawned"
    /\ launcher' = "waiting"
    /\ UNCHANGED <<applied, podVars, game, humans, bots>>

\* Mutant: the handler only writes its log line.
Stop_OnlyLogs == UNCHANGED <<launcher, game, humans, bots>>

\* The handler: process.terminate(), which leaves a process that has ended alone.
Stop ==
    /\ game' = IF game \in Up THEN "stopping" ELSE game
    /\ UNCHANGED <<launcher, humans, bots>>

\* SIGTERM.  Before the handlers are installed it ends the launcher.
Signalled ==
    /\ termination = "asked" /\ launcher # "absent"
    /\ termination' = "signalled"
    /\ \/ launcher = "waiting" /\ Stop
       \/ launcher # "waiting" /\ ContainerEnds
    /\ UNCHANGED <<applied, pod, release, starts>>

\* process.wait() returns, and so does main().
MainReturns ==
    /\ launcher = "waiting" /\ game = "ended"
    /\ ContainerEnds
    /\ UNCHANGED <<applied, podVars>>

LauncherStep ==
    MainRaises \/ Spawn \/ InstallHandlers \/ Signalled \/ MainReturns

-----------------------------------------------------------------------------
(* The game server and those who play on it *)

GameServes ==
    /\ game = "loading"
    /\ game' = "serving"
    /\ UNCHANGED <<applied, podVars, launcher, humans, bots>>

\* It crashes, or has done what SIGTERM asks for.
GameEnds ==
    /\ game \in Up \cup {"stopping"}
    /\ game' = "ended"
    /\ humans' = {}
    /\ bots' = 0
    /\ UNCHANGED <<applied, podVars, launcher>>

Join(h) ==
    /\ game = "serving"
    /\ humans' = humans \cup {h}
    /\ UNCHANGED <<applied, podVars, launcher, game, bots>>

Leave(h) ==
    /\ humans' = humans \ {h}
    /\ UNCHANGED <<applied, podVars, launcher, game, bots>>

BotsChange ==
    /\ game = "serving"
    /\ bots' \in 0 .. MaxBots
    /\ UNCHANGED <<applied, podVars, launcher, game, humans>>

-----------------------------------------------------------------------------
(* The kubelet and the deployment controller *)

\* The grace period is over: SIGKILL.
GraceOver ==
    /\ termination = "signalled" /\ launcher # "absent"
    /\ ContainerEnds
    /\ UNCHANGED <<applied, podVars>>

PodGone ==
    /\ termination \in {"asked", "signalled"} /\ launcher = "absent"
    /\ termination' = "gone"
    /\ UNCHANGED <<applied, pod, release, starts, processVars>>

\* Recreate: the new pod is created when the old one is gone.
PodCreated ==
    /\ termination = "gone"
    /\ pod' = pod + 1
    /\ release' = applied
    /\ termination' = "no"
    /\ starts' = 0
    /\ UNCHANGED <<applied, processVars>>

\* A change of the pod template.
Replace ==
    /\ pod < MaxPods
    /\ termination' = IF termination = "no" THEN "asked" ELSE termination
    /\ UNCHANGED <<pod, release, starts, processVars>>

KubernetesStep == ContainerStarts \/ GraceOver \/ PodGone \/ PodCreated

-----------------------------------------------------------------------------
(* Properties *)

\* A game server that loads or serves is asked to stop before it is killed, and
\* not killed with its container before, unless the signal meets the launcher
\* between Popen and signal.signal (__main__.py:69-75), the only such window.
OnlyTheWindowKills ==
    [][(game \in Up /\ game' = "none") => launcher = "spawned"]_game
=============================================================================
