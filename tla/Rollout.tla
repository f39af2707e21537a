-------------------------------- MODULE Rollout --------------------------------
(***************************************************************************)
(* The gates a change passes on its way to the players                     *)
(* (docs/runbooks/production-rollout.md): validation of the repository,    *)
(* disruption guard, build and deploy, rollout, smoke test, composed with  *)
(* the repository, the server and its players.                             *)
(***************************************************************************)
EXTENDS ServerQuery

VARIABLES
    gate,       \* where the operator and the deploy workflow are
    override,   \* --allow-active-players
    stayed,     \* history: who has been connected since the guard asked
    smoke       \* what the smoke test has found so far

workflowVars == <<gate, override, stayed, smoke>>
vars == <<repositoryVars, serverVars, queryVars, workflowVars>>

Gates == {"edit", "checked", "guard", "build", "rolling", "ready", "smoke_query",
          "smoke_pod", "smoke_deployment", "smoke_logs", "promoted"}

Nothing == [pod |-> 0, starts |-> 0]

\* The arguments of smoke.py that are not given.
Bare == [max_players |-> 24, bots |-> 0, name_contains |-> Unset, map |-> Unset]

NoSmoke == [ok |-> TRUE, slots |-> Bare.max_players, answered |-> Nothing, inspected |-> Nothing]

Slots == {Bare.max_players, ModeAt(applied).maxPlayers}

\* The operator gives each argument as the deployed mode has it (production-rollout.md:123)
\* or leaves it out (README.md:38).
CommandLines ==
    LET mode == ModeAt(applied)
    IN  [max_players : Slots, bots : {Bare.bots},
         name_contains : {Bare.name_contains, mode.displayName},
         map : {Bare.map, mode.defaultMap}]

Container == [pod |-> pod, starts |-> starts]
Containers == [pod : 0 .. MaxPods, starts : 0 .. MaxStarts]

RolloutTypeOK ==
    /\ DOMAIN modes = DOMAIN Committed.modes
    /\ profile \in ProfileVersions
    /\ DOMAIN files = DOMAIN Committed.files
    /\ edits \in 0 .. MaxEdits
    /\ {applied, release} \subseteq Commits
    /\ pod \in 1 .. MaxPods /\ starts \in 0 .. MaxStarts
    /\ termination \in {"no", "asked", "signalled", "gone"}
    /\ launcher \in Launchers /\ game \in Games
    /\ launcher \in {"absent", "preparing"} <=> game = "none"
    /\ termination = "gone" => launcher = "absent"
    /\ humans \subseteq People /\ bots \in 0 .. MaxBots
    /\ humans # {} \/ bots # 0 => game \in {"serving", "stopping"}
    /\ query = NoQuery \/ query \in [by : {"guard", "smoke"}, stage : {"request", "answer"}]
    /\ query.by = "guard" <=> gate = "guard"
    /\ query.by = "smoke" <=> gate = "smoke_query"
    /\ gate \in Gates /\ override \in BOOLEAN
    /\ stayed \subseteq humans
    /\ smoke \in [ok : BOOLEAN, slots : Slots,
                  answered : Containers, inspected : Containers]

Init ==
    /\ RepositoryInit
    /\ ServerInit
    /\ QueryInit
    /\ gate = "edit"
    /\ override = FALSE
    /\ stayed = {}
    /\ smoke = NoSmoke

GoOn(from, to) == gate = from /\ gate' = to

-----------------------------------------------------------------------------
(* The steps of the parts *)

Work ==
    /\ gate = "edit"
    /\ RepositoryStep
    /\ UNCHANGED <<serverVars, queryVars, workflowVars>>

Serve ==
    /\ \/ LauncherStep \/ KubernetesStep
       \/ GameServes \/ GameEnds \/ BotsChange
       \/ \E h \in People : Join(h) \/ Leave(h)
    /\ stayed' = stayed \cap humans'
    /\ UNCHANGED <<repositoryVars, queryVars, gate, override, smoke>>

Network ==
    /\ AnswerChallenge \/ Replies
    /\ UNCHANGED <<repositoryVars, serverVars, workflowVars>>

\* rollout restart by the update checker, or by hand.
RestartElsewhere ==
    /\ Replace
    /\ UNCHANGED <<applied, repositoryVars, queryVars, workflowVars>>

-----------------------------------------------------------------------------
(* Gates 1 to 4 *)

Gate1 ==
    /\ GoOn("edit", "checked")
    /\ SourceValid
    /\ edits' = 0
    /\ UNCHANGED <<modes, profile, files, pending>>
    /\ UNCHANGED <<serverVars, queryVars, override, stayed, smoke>>

GuardAsks ==
    /\ GoOn("checked", "guard")
    /\ override' \in BOOLEAN
    /\ stayed' = humans
    /\ Ask("guard")
    /\ UNCHANGED <<repositoryVars, serverVars, smoke>>

\* main() of the guard returns 0, and the workflow builds.
GuardAllows ==
    /\ GoOn("guard", "build")
    /\ \E info \in wire : Receives(info) /\ DisruptionAllowed(info, override)
    /\ UNCHANGED <<repositoryVars, serverVars, override, stayed, smoke>>

\* It returns 1.
GuardRefuses ==
    /\ GoOn("guard", "checked")
    /\ \E info \in wire : Receives(info) /\ ~DisruptionAllowed(info, override)
    /\ stayed' = {}
    /\ UNCHANGED <<repositoryVars, serverVars, override, smoke>>

\* Mutant: a server that does not answer has no players to protect.
GuardFails_Allows ==
    /\ GoOn("guard", "build")
    /\ QueryFails
    /\ UNCHANGED <<repositoryVars, serverVars, override, stayed, smoke>>

\* The query raises, with the override as without it.
GuardFails ==
    /\ GoOn("guard", "checked")
    /\ QueryFails
    /\ stayed' = {}
    /\ UNCHANGED <<repositoryVars, serverVars, override, smoke>>

\* The image is built from the commit, modes included, and the cluster synced.
\* A new digest is a new pod template.
Deploy ==
    /\ GoOn("build", "rolling")
    /\ applied' = "next"
    /\ Replace
    /\ UNCHANGED <<repositoryVars, processVars, queryVars, override, stayed, smoke>>

\* rollout status, without a readiness probe.
RolloutDone ==
    /\ GoOn("rolling", "ready")
    /\ release = applied /\ termination = "no" /\ launcher # "absent"
    /\ UNCHANGED <<repositoryVars, serverVars, queryVars, override, stayed, smoke>>

\* The workflow fails, rollout status --timeout among the causes, or it has
\* done its work; the same commit may be deployed again.
GiveUp ==
    /\ gate \in {"build", "rolling", "ready", "promoted"}
    /\ gate' = "checked"
    /\ override' = FALSE
    /\ stayed' = {}
    /\ smoke' = NoSmoke
    /\ UNCHANGED <<repositoryVars, serverVars, queryVars>>

-----------------------------------------------------------------------------
(* Gate 5: smoke.py, whose reads are of different moments *)

SmokeAsks ==
    /\ GoOn("ready", "smoke_query")
    /\ smoke' = NoSmoke
    /\ Ask("smoke")
    /\ UNCHANGED <<repositoryVars, serverVars, override, stayed>>

\* The name and the map are compared when they are given.
NameAndMapOk(info, args) ==
    /\ args.name_contains # Unset =>
            Contains(At(info.shows).files.configmap, args.name_contains)
    /\ args.map # Unset => LaunchCommand(ConfigAt(info.shows)).map = args.map

\* Mutant: the number of slots is not compared.
ServerInfoOk_AnySlots(info, args) == NameAndMapOk(info, args) /\ info.bots = args.bots

\* evaluate_server_info
ServerInfoOk(info, args) ==
    /\ NameAndMapOk(info, args)
    /\ LaunchCommand(ConfigAt(info.shows)).sv_visiblemaxplayers = args.max_players
    /\ info.bots = args.bots

\* The arguments are those of the start; they are used now.
SmokeAnswered ==
    /\ GoOn("smoke_query", "smoke_pod")
    /\ \E info \in wire, args \in CommandLines :
        /\ Receives(info)
        /\ smoke' = [smoke EXCEPT !.ok = ServerInfoOk(info, args),
                                  !.slots = args.max_players,
                                  !.answered = [pod |-> info.pod, starts |-> info.starts]]
    /\ UNCHANGED <<repositoryVars, serverVars, override, stayed>>

\* Mutant: restarts are not counted.
PodOk_AnyRestarts == launcher # "absent"

\* pod_ready and pod_restarts
PodOk == launcher # "absent" /\ starts = 1

\* kubectl get pod.  Without a pod the other reads are left out.
SmokeInspectsPod ==
    /\ gate = "smoke_pod"
    /\ gate' = IF termination = "gone" THEN "ready" ELSE "smoke_deployment"
    /\ smoke' = IF termination = "gone" THEN NoSmoke
                ELSE [smoke EXCEPT !.ok = @ /\ PodOk, !.inspected = Container]
    /\ UNCHANGED <<repositoryVars, serverVars, queryVars, override, stayed>>

Available == termination # "gone" /\ launcher # "absent"

\* kubectl get deploy
SmokeInspectsDeployment ==
    /\ GoOn("smoke_deployment", "smoke_logs")
    /\ smoke' = [smoke EXCEPT !.ok =
            @ /\ Available /\ SecurityContextHardened(At(applied).files.deployment)]
    /\ UNCHANGED <<repositoryVars, serverVars, queryVars, override, stayed>>

\* kubectl logs of the pod seen before, which raises when that pod is gone.
SmokeEnds ==
    /\ gate = "smoke_logs"
    /\ \/ /\ smoke.ok /\ smoke.inspected.pod = pod /\ termination # "gone"
          /\ gate' = "promoted"
          /\ UNCHANGED smoke
       \/ gate' = "ready" /\ smoke' = NoSmoke
    /\ UNCHANGED <<repositoryVars, serverVars, queryVars, override, stayed>>

\* query_a2s_info raises in main().
SmokeFails ==
    /\ GoOn("smoke_query", "ready")
    /\ QueryFails
    /\ smoke' = NoSmoke
    /\ UNCHANGED <<repositoryVars, serverVars, override, stayed>>

-----------------------------------------------------------------------------
Guard == GuardAsks \/ GuardAllows \/ GuardRefuses \/ GuardFails

Smoke ==
    SmokeAsks \/ SmokeAnswered \/ SmokeFails \/ SmokeInspectsPod
    \/ SmokeInspectsDeployment \/ SmokeEnds

Next ==
    \/ Work \/ Serve \/ Network \/ RestartElsewhere
    \/ Gate1 \/ Guard \/ Deploy \/ RolloutDone \/ GiveUp \/ Smoke

\* recvfrom returns, with an answer or with the timeout; the tools go on.
Fairness == WF_gate(GuardFails) /\ WF_gate(SmokeFails)

Spec == Init /\ [][Next]_vars /\ Fairness

-----------------------------------------------------------------------------
(* Properties *)

\* "Refuse disruptive CS2 operations while human players are connected"
\* (disruption_guard.py:27).  What the guard can promise, given that people join
\* between its query and the restart: whoever was there when it asked and has
\* stayed is not interrupted by this deployment, unless the operator overrides.
\* Datagrams late, lost or doubled and servers that come and go do not matter.
NoOneWhoStayed == gate \in {"build", "rolling"} /\ ~override => stayed = {}

\* A pod of any deployment runs with the containment its mode declares: the
\* plugin runtime is on and removes every plugin of disabledRuntime, each by a
\* name that is one folder (docs/runbooks/server-generator.md:126), and a restart
\* updates the game (production_check.py:42).  It takes the validation of the mode,
\* the production check, the environment and its parsing together.
ContainedAsDeclared ==
    game # "none" =>
        /\ ConfigAt(release).steam_update_policy = "always"
        /\ Removed(ConfigAt(release)) = ToSet(Csv(PluginList(ModeAt(release))))

\* What a promotion says about the server (production-rollout.md, gates 1 to 5):
\* it starts up with the map, the map group and the name of the deployed mode and
\* the ports of its service, whatever the smoke test was asked to compare, and
\* with the slots that the smoke test was told to expect: the mode's if the
\* operator gave them, 24 if not.  The manifests may be edited by hand, or cut
\* off in generation, between the mode and the check.
PromotedAsExpected ==
    gate = "promoted" =>
        LET deployed == At(applied).files
            mode == ModeAt(applied)
            command == LaunchCommand(ConfigAt(applied))
        IN  /\ StartsUp(deployed.deployment.env, Secrets)
            /\ command.sv_visiblemaxplayers = smoke.slots
            /\ Get(mode, "defaultMap", "") # "" => command.map = mode.defaultMap
            /\ Get(mode, "mapGroup", "") # "" => command.mapgroup = mode.mapGroup
            /\ Contains(deployed.configmap, mode.displayName)
            /\ {command.port} = {deployed.service.tcp, deployed.service.udp}

\* A promotion is about one process: if the pod that was inspected is the one
\* that answered the query, no crash lies between the two.
PromotedIsOneProcess ==
    gate = "promoted" /\ smoke.answered.pod = smoke.inspected.pod
        => smoke.answered = smoke.inspected

\* A query ends, whatever is lost: no tool waits for an answer for ever.
QueriesEnd == query # NoQuery ~> query = NoQuery
=============================================================================
