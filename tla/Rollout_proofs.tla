--------------------------- MODULE Rollout_proofs ---------------------------
(***************************************************************************)
(* Theorems about Rollout, for every repository, any number of players,    *)
(* bots, pods, containers and datagrams, with machine-checked proofs.      *)
(***************************************************************************)
EXTENDS Rollout, FiniteSetTheorems, TLAPS

(***************************************************************************)
(* Every step belongs to the server, replaces its pod, or leaves it alone. *)
(***************************************************************************)
LEMMA StepKinds ==
    ASSUME [Next]_vars
    PROVE  \/ Serve
           \/ RestartElsewhere \/ Deploy
           \/ UNCHANGED serverVars
<1> USE DEF vars
<1>1. CASE Work BY <1>1 DEF Work
<1>2. CASE Network BY <1>2 DEF Network
<1>3. CASE Gate1 \/ RolloutDone \/ GiveUp BY <1>3 DEF Gate1, RolloutDone, GiveUp
<1>4. CASE Guard BY <1>4 DEF Guard, GuardAsks, GuardAllows, GuardRefuses, GuardFails
<1>5. CASE Smoke
  BY <1>5 DEF Smoke, SmokeAsks, SmokeAnswered, SmokeFails, SmokeInspectsPod,
     SmokeInspectsDeployment, SmokeEnds
<1> QED BY <1>1, <1>2, <1>3, <1>4, <1>5 DEF Next

-----------------------------------------------------------------------------
(***************************************************************************)
(* Signals.  Once the handler has run, nothing that is up is left to kill. *)
(***************************************************************************)
StopInv ==
    /\ launcher \in {"absent", "preparing"} => game = "none"
    /\ launcher \in Launchers
    /\ termination = "signalled" /\ launcher # "absent" =>
            launcher = "waiting" /\ game \notin Up

\* A game server that is killed while it is up is killed in the window.
KilledInWindow == game \in Up /\ game' = "none" => launcher = "spawned"

\* A step of the launcher, the game server or the kubelet keeps the order of
\* signal and kill.
LEMMA StopServe == ASSUME StopInv, Serve PROVE StopInv' /\ KilledInWindow
<1> USE DEF StopInv, KilledInWindow, Launchers, Up, podVars, serverVars, processVars
<1>1. CASE LauncherStep
  BY <1>1 DEF LauncherStep, MainRaises, Spawn, InstallHandlers, Signalled, Stop, MainReturns,
     ContainerEnds
<1>2. CASE KubernetesStep
  BY <1>2 DEF KubernetesStep, ContainerStarts, GraceOver, PodGone, PodCreated, ContainerEnds
<1>3. CASE GameServes \/ GameEnds \/ BotsChange BY <1>3 DEF GameServes, GameEnds, BotsChange
<1>4. ASSUME NEW h \in People, Join(h) \/ Leave(h) PROVE StopInv' /\ KilledInWindow
  BY <1>4 DEF Join, Leave
<1> QED BY <1>1, <1>2, <1>3, <1>4 DEF Serve

\* So does every step.
LEMMA StopNext == ASSUME StopInv, [Next]_vars PROVE StopInv' /\ KilledInWindow
<1> USE DEF StopInv, KilledInWindow, podVars, serverVars, processVars
<1>1. CASE RestartElsewhere \/ Deploy BY <1>1 DEF RestartElsewhere, Deploy, Replace, Up
<1>2. CASE UNCHANGED serverVars BY <1>2 DEF Up
<1> QED BY <1>1, <1>2, StopServe, StepKinds

\* The handler installed by __main__.py:71-76 is enough: a game server that is up
\* is asked to stop before it is killed, except between Popen and signal.signal.
THEOREM AskedBeforeKilled == Spec => OnlyTheWindowKills
<1>1. Init => StopInv BY DEF Init, ServerInit, StopInv, Launchers
<1>2. StopInv /\ [Next]_vars => StopInv' /\ [KilledInWindow]_game
  BY StopNext
<1>3. KilledInWindow => ((game \in Up /\ game' = "none") => launcher = "spawned")
  BY DEF KilledInWindow
<1> QED BY <1>1, <1>2, <1>3, PTL DEF Spec, OnlyTheWindowKills

-----------------------------------------------------------------------------
(***************************************************************************)
(* One process.  The numbers of pod and container only grow, so what has   *)
(* been seen of them orders the moments at which the smoke test looked.    *)
(***************************************************************************)
PodInv ==
    /\ pod \in Nat /\ starts \in Nat
    /\ launcher \in {"absent", "preparing"} => game = "none"
    /\ launcher # "absent" => starts # 0
    /\ termination = "gone" => launcher = "absent"

\* c is the present container or an earlier one.
Seen(c) ==
    /\ c.pod \in Nat /\ c.starts \in Nat \ {0}
    /\ c.pod <= pod
    /\ c.pod = pod => c.starts <= starts

WireInv == \A info \in Infos : Seen(info)

\* The gates behind the answer, and behind the inspection of the pod.
Inspected == {"smoke_deployment", "smoke_logs", "promoted"}
Answered == {"smoke_pod"} \cup Inspected

SmokeInv ==
    /\ DOMAIN smoke = {"ok", "slots", "answered", "inspected"}
    /\ {smoke.answered, smoke.inspected} \subseteq [pod : Nat, starts : Nat]
    /\ gate \in Answered => Seen(smoke.answered)
    /\ gate \in Inspected /\ smoke.ok =>
            /\ smoke.inspected.starts = 1
            /\ smoke.answered.pod = smoke.inspected.pod => smoke.answered.starts = 1
    /\ gate = "promoted" => smoke.ok

\* Time as the smoke test sees it: no pod and no container comes back.
Forward == pod' \in Nat /\ starts' \in Nat /\ pod <= pod' /\ (pod = pod' => starts <= starts')

\* Every step keeps the numbers, and goes forward.
LEMMA PodNext == ASSUME PodInv, [Next]_vars PROVE PodInv' /\ Forward
<1> USE DEF PodInv, Forward, serverVars, podVars, processVars
<1>1. CASE LauncherStep
  BY <1>1 DEF LauncherStep, MainRaises, Spawn, InstallHandlers, Signalled, Stop, MainReturns,
     ContainerEnds
<1>2. CASE KubernetesStep
  BY <1>2 DEF KubernetesStep, ContainerStarts, GraceOver, PodGone, PodCreated, ContainerEnds
<1>3. CASE GameServes \/ GameEnds \/ BotsChange
  BY <1>3 DEF GameServes, GameEnds, BotsChange, Up
<1>4. ASSUME NEW h \in People, Join(h) \/ Leave(h) PROVE PodInv' /\ Forward BY <1>4 DEF Join, Leave
<1>5. CASE RestartElsewhere \/ Deploy BY <1>5 DEF RestartElsewhere, Deploy, Replace
<1>6. CASE UNCHANGED serverVars BY <1>6
<1> QED BY <1>1, <1>2, <1>3, <1>4, <1>5, <1>6, StepKinds DEF Serve

\* What was seen stays seen.
LEMMA SeenForward == ASSUME PodInv, Forward, NEW c, Seen(c) PROVE Seen(c)'
BY DEF PodInv, Forward, Seen

\* Whoever answers is the present container; a datagram comes from nowhere else.
LEMMA WireNext == ASSUME PodInv, WireInv, [Next]_vars PROVE WireInv'
<1>1. Forward BY PodNext
<1>2. ASSUME Infos' \subseteq Infos PROVE WireInv'
  BY <1>1, <1>2, SeenForward DEF WireInv, Infos
<1>3. ASSUME UNCHANGED queryVars PROVE WireInv' BY <1>2, <1>3 DEF Infos, queryVars
<1> USE DEF vars, Close, Infos
<1>4. CASE Work \/ Serve \/ RestartElsewhere \/ Gate1 \/ Deploy \/ RolloutDone \/ GiveUp
  BY <1>3, <1>4 DEF Work, Serve, RestartElsewhere, Gate1, Deploy, RolloutDone, GiveUp
<1>5. CASE GuardAsks \/ SmokeAsks BY <1>2, <1>5 DEF GuardAsks, SmokeAsks, Ask, Packet
<1>6. CASE GuardAllows \/ GuardRefuses \/ GuardFails
  BY <1>2, <1>6 DEF GuardAllows, GuardRefuses, GuardFails, Receives, QueryFails, MeetsChallenge, TimesOut
<1>7. CASE SmokeAnswered \/ SmokeFails
  BY <1>2, <1>7 DEF SmokeAnswered, SmokeFails, Receives, QueryFails, MeetsChallenge, TimesOut
<1>8. CASE SmokeInspectsPod \/ SmokeInspectsDeployment \/ SmokeEnds
  BY <1>3, <1>8 DEF SmokeInspectsPod, SmokeInspectsDeployment, SmokeEnds
<1>9. CASE AnswerChallenge BY <1>2, <1>9 DEF AnswerChallenge, Packet
<1>10. CASE Network /\ Replies
  <2>1. PICK reply \in {Packet("challenge"), Info} : wire' \subseteq wire \cup {reply}
    BY <1>10 DEF Replies
  <2>2. Seen(Info) BY <1>10 DEF Replies, Info, Seen, PodInv
  <2>3. \A info \in Infos' : Seen(info) BY <2>1, <2>2 DEF WireInv, Packet
  <2> QED BY <1>1, <2>3, SeenForward DEF WireInv
<1>11. CASE UNCHANGED vars BY <1>3, <1>11
<1> QED
  BY <1>4, <1>5, <1>6, <1>7, <1>8, <1>9, <1>10, <1>11 DEF Next, Network, Guard, Smoke

\* What the smoke test has seen stays in order.
LEMMA SmokeNext == ASSUME PodInv, WireInv, SmokeInv, [Next]_vars PROVE SmokeInv'
<1>1. Forward BY PodNext
<1>2. smoke'.answered = smoke.answered /\ Seen(smoke.answered) => Seen(smoke.answered)'
  BY <1>1 DEF PodInv, Forward, Seen
<1> USE DEF SmokeInv, Inspected, Answered, vars, GoOn
<1>3. CASE Work \/ Serve \/ Network \/ RestartElsewhere
  BY <1>2, <1>3 DEF Work, Serve, Network, RestartElsewhere, workflowVars
<1>4. CASE Gate1 \/ Guard \/ Deploy \/ RolloutDone
  BY <1>4 DEF Gate1, Guard, GuardAsks, GuardAllows, GuardRefuses, GuardFails, Deploy, RolloutDone
<1>5. CASE GiveUp \/ SmokeAsks \/ SmokeFails
  BY <1>5 DEF GiveUp, SmokeAsks, SmokeFails, NoSmoke, Nothing
<1>6. CASE SmokeAnswered
  <2>1. PICK info \in Infos, args \in CommandLines :
          smoke' = [smoke EXCEPT !.ok = ServerInfoOk(info, args), !.slots = args.max_players,
                !.answered = [pod |-> info.pod, starts |-> info.starts]]
    BY <1>6 DEF SmokeAnswered, Receives
  <2>2. /\ smoke'.answered = [pod |-> info.pod, starts |-> info.starts]
        /\ smoke'.inspected = smoke.inspected
        /\ DOMAIN smoke' = DOMAIN smoke
    BY <2>1
  <2>3. Seen(info)' BY <1>1, SeenForward DEF WireInv
  <2>4. info.pod \in Nat /\ info.starts \in Nat BY DEF WireInv, Seen
  <2>5. Seen(smoke.answered)' BY <2>2, <2>3 DEF Seen
  <2>6. gate' = "smoke_pod" BY <1>6 DEF SmokeAnswered
  <2> QED BY <2>2, <2>4, <2>5, <2>6
<1>7. CASE SmokeInspectsPod
  <2>1. CASE termination = "gone" BY <1>7, <2>1 DEF SmokeInspectsPod, NoSmoke, Nothing
  <2>2. CASE termination # "gone"
    <3>1. smoke' = [smoke EXCEPT !.ok = @ /\ PodOk, !.inspected = Container]
      BY <1>7, <2>2 DEF SmokeInspectsPod
    <3>2. /\ smoke'.answered = smoke.answered
          /\ smoke'.inspected = Container
          /\ smoke'.ok => PodOk
          /\ DOMAIN smoke' = DOMAIN smoke
      BY <3>1
    <3>3. Container \in [pod : Nat, starts : Nat] BY DEF Container, PodInv
    <3>4. Seen(smoke.answered) /\ gate' = "smoke_deployment"
      BY <1>7, <2>2 DEF SmokeInspectsPod
    <3>5. smoke'.ok => Container.starts = 1 BY <3>2 DEF PodOk, Container
    <3>6. smoke'.ok /\ smoke.answered.pod = Container.pod => smoke.answered.starts = 1
      BY <3>4, <3>5 DEF Seen, Container
    <3> QED BY <1>2, <3>2, <3>3, <3>4, <3>5, <3>6
  <2> QED BY <2>1, <2>2
<1>8. CASE SmokeInspectsDeployment
  <2>1. /\ smoke'.answered = smoke.answered
        /\ smoke'.inspected = smoke.inspected
        /\ smoke'.ok => smoke.ok
        /\ DOMAIN smoke' = DOMAIN smoke
    BY <1>8 DEF SmokeInspectsDeployment
  <2> QED BY <1>2, <1>8, <2>1 DEF SmokeInspectsDeployment
<1>9. CASE SmokeEnds BY <1>2, <1>9 DEF SmokeEnds, NoSmoke, Nothing
<1>10. CASE UNCHANGED vars BY <1>2, <1>10 DEF workflowVars
<1> QED BY <1>3, <1>4, <1>5, <1>6, <1>7, <1>8, <1>9, <1>10 DEF Next, Smoke

\* The four reads of smoke.py are of different moments; a promotion is still about
\* one process: between the answer and the inspection of its pod lies no crash.
THEOREM PromotionIsOfOneProcess == Spec => []PromotedIsOneProcess
<1> DEFINE Inv == PodInv /\ WireInv /\ SmokeInv
<1>1. Init => Inv
  BY DEF Init, ServerInit, QueryInit, PodInv, WireInv, Infos, SmokeInv, NoSmoke, Nothing,
     Inspected, Answered
<1>2. Inv /\ [Next]_vars => Inv' BY PodNext, WireNext, SmokeNext
<1>3. Inv => PromotedIsOneProcess
  <2> SUFFICES ASSUME SmokeInv, gate = "promoted", smoke.answered.pod = smoke.inspected.pod
               PROVE  smoke.answered = smoke.inspected
    BY DEF PromotedIsOneProcess
  <2>1. smoke.answered.starts = smoke.inspected.starts BY DEF SmokeInv, Inspected
  <2> QED BY <2>1 DEF SmokeInv
<1> QED BY <1>1, <1>2, <1>3, PTL DEF Spec

-----------------------------------------------------------------------------
(***************************************************************************)
(* The guard.  As long as somebody who was there when it asked is still    *)
(* there, every datagram it may receive says so.                           *)
(***************************************************************************)
PlayersInv ==
    /\ humans \subseteq People /\ bots \in Nat
    /\ stayed \subseteq humans
    /\ \A info \in Infos : info.players \in Nat /\ info.bots \in Nat
    /\ gate = "guard" /\ stayed # {} => \A info \in Infos : info.players > info.bots
    /\ gate \in {"build", "rolling"} /\ ~override => stayed = {}

\* Whoever plays makes the players more than the bots.
LEMMA SomebodyCounts ==
    ASSUME ServerAssumption, PlayersInv
    PROVE  /\ Info.players \in Nat /\ Info.bots \in Nat
           /\ humans # {} => Info.players > Info.bots
<1>1. IsFiniteSet(humans) BY FS_Subset DEF ServerAssumption, PlayersInv
<1>2. Cardinality(humans) \in Nat BY <1>1, FS_CardinalityType
<1>3. humans # {} => Cardinality(humans) # 0 BY <1>1, FS_EmptySet
<1> QED BY <1>2, <1>3 DEF Info, PlayersInv

\* Players come, go and are thrown out.
LEMMA PlayersServe == ASSUME ServerAssumption, PlayersInv, Serve PROVE PlayersInv'
<1>1. humans' \subseteq People /\ bots' \in Nat
  <2> USE DEF PlayersInv, podVars, processVars
  <2>1. CASE LauncherStep
    BY <2>1 DEF LauncherStep, MainRaises, Spawn, InstallHandlers, Signalled, Stop, MainReturns,
       ContainerEnds
  <2>2. CASE KubernetesStep
    BY <2>2 DEF KubernetesStep, ContainerStarts, GraceOver, PodGone, PodCreated, ContainerEnds
  <2>3. CASE GameServes \/ GameEnds BY <2>3 DEF GameServes, GameEnds
  <2>4. CASE BotsChange BY <2>4 DEF BotsChange, ServerAssumption
  <2>5. ASSUME NEW h \in People, Join(h) \/ Leave(h) PROVE humans' \subseteq People /\ bots' \in Nat
    BY <2>5 DEF Join, Leave
  <2> QED BY <2>1, <2>2, <2>3, <2>4, <2>5 DEF Serve
<1>2. stayed' = stayed \cap humans' /\ Infos' = Infos /\ UNCHANGED <<gate, override>>
  BY DEF Serve, queryVars, Infos
<1> QED BY <1>1, <1>2 DEF PlayersInv

\* So does every step: the guard goes on only if it has seen nobody stay.
LEMMA PlayersNext == ASSUME ServerAssumption, PlayersInv, [Next]_vars PROVE PlayersInv'
<1> USE DEF PlayersInv, vars, serverVars, processVars, GoOn
<1>1. ASSUME UNCHANGED <<humans, bots, stayed, wire, gate, override>> PROVE PlayersInv'
  BY <1>1 DEF Infos
<1>2. CASE Work \/ RestartElsewhere \/ UNCHANGED vars
  BY <1>1, <1>2 DEF Work, RestartElsewhere, Replace, queryVars, workflowVars
<1>3. CASE Serve BY <1>3, PlayersServe
<1>4. CASE Gate1 \/ Deploy \/ RolloutDone \/ GiveUp
  BY <1>4 DEF Gate1, Deploy, RolloutDone, GiveUp, queryVars, Infos
<1>5. CASE Network /\ AnswerChallenge
  <2>1. Infos' \subseteq Infos BY <1>5 DEF AnswerChallenge, Infos, Packet
  <2> QED BY <1>5, <2>1 DEF Network, workflowVars
<1>6. CASE Network /\ Replies
  <2>1. PICK reply \in {Packet("challenge"), Info} : wire' \subseteq wire \cup {reply}
    BY <1>6 DEF Replies
  <2>2. Infos' \subseteq Infos \cup {Info} BY <2>1 DEF Infos, Packet
  <2> QED BY <1>6, <2>2, SomebodyCounts DEF Network, workflowVars
<1>7. CASE GuardAsks \/ SmokeAsks BY <1>7 DEF GuardAsks, SmokeAsks, Ask, Infos, Packet
<1>8. CASE GuardAllows
  <2>1. PICK info \in Infos : DisruptionAllowed(info, override) /\ Infos' = {}
    BY <1>8 DEF GuardAllows, Receives, Close, Infos
  <2>2. ~override => ~(info.players > info.bots) BY <2>1 DEF DisruptionAllowed, HumanPlayers
  <2>3. ~override => stayed = {} BY <1>8, <2>2 DEF GuardAllows
  <2> QED BY <1>8, <2>1, <2>3 DEF GuardAllows
<1>9. CASE GuardRefuses \/ GuardFails \/ SmokeAnswered \/ SmokeFails
  <2>1. Infos' = {}
    BY <1>9 DEF GuardRefuses, GuardFails, SmokeAnswered, SmokeFails, Receives, QueryFails,
       MeetsChallenge, TimesOut, Close, Infos
  <2> QED BY <1>9, <2>1 DEF GuardRefuses, GuardFails, SmokeAnswered, SmokeFails
<1>10. CASE SmokeInspectsPod \/ SmokeInspectsDeployment \/ SmokeEnds
  BY <1>10 DEF SmokeInspectsPod, SmokeInspectsDeployment, SmokeEnds, queryVars, Infos
<1> QED
  BY <1>2, <1>3, <1>4, <1>5, <1>6, <1>7, <1>8, <1>9, <1>10 DEF Next, Network, Guard, Smoke

\* Whoever was connected when the guard asked and has stayed is not interrupted,
\* whatever becomes of its datagrams, for any number of players and bots.
THEOREM NobodyWhoStayedIsThrownOut ==
    ASSUME ServerAssumption PROVE Spec => []NoOneWhoStayed
<1>1. Init => PlayersInv
  BY DEF Init, ServerInit, QueryInit, PlayersInv, Infos
<1>2. PlayersInv /\ [Next]_vars => PlayersInv' BY PlayersNext
<1>3. PlayersInv => NoOneWhoStayed BY DEF PlayersInv, NoOneWhoStayed
<1> QED BY <1>1, <1>2, <1>3, PTL DEF Spec

-----------------------------------------------------------------------------
(***************************************************************************)
(* Containment.  What runs was deployed from a commit that passed Gate 1,  *)
(* and what has passed it contains its plugins.                            *)
(***************************************************************************)
Passed(manifests, profiles) ==
    /\ ProductionChecks(manifests, profiles)
    /\ \A name \in DOMAIN profiles : SafeDisabled(profiles[name])

ContainedAt(commit) ==
    /\ ConfigAt(commit).steam_update_policy = "always"
    /\ Removed(ConfigAt(commit)) = ToSet(Csv(PluginList(ModeAt(commit))))

\* From the profile's text to the folders that are removed: the production check
\* compares the joined list with the environment, the validation keeps out the
\* names that the plugin runtime would skip (plugin_runtime.py:226).
LEMMA PassedIsContained ==
    ASSUME Unset # "true", NEW commit, Passed(At(commit).files, At(commit).modes)
    PROVE  ContainedAt(commit)
<1> DEFINE deployment == At(commit).files.deployment
           env == deployment.env
           mode == At(commit).modes[env.CS2_MODE]
           listed == Csv(PluginList(mode))
           config == ServerConfig(env)
<1>1. /\ env.STEAM_UPDATE_POLICY = "always"
      /\ env.ENABLE_PLUGIN_RUNTIME = "true"
      /\ env.CS2_MODE \in DOMAIN At(commit).modes
      /\ EnvText(env.CS2_DISABLED_PLUGINS, <<>>) = listed
  BY DEF Passed, ProductionChecks, ModeChecks, DisabledPluginsMatch
<1>2. config.steam_update_policy = "always" BY <1>1 DEF ServerConfig, Or
<1>3. config.plugin_runtime_enabled
  <2>1. Truthy(Or(env.ENABLE_PLUGIN_RUNTIME, "false")) BY <1>1 DEF Or, Truthy
  <2>2. config.plugin_runtime_enabled = Truthy(Or(env.ENABLE_PLUGIN_RUNTIME, "false"))
    BY DEF ServerConfig
  <2> QED BY <2>1, <2>2
<1>4. config.disabled_plugins = listed BY <1>1 DEF ServerConfig, Or, EnvText
<1>5. ToSet(listed) \cap Slashed = {} BY <1>1 DEF Passed, SafeDisabled
<1>6. Removed(config) = ToSet(listed) BY <1>3, <1>4, <1>5 DEF Removed
<1> QED BY <1>2, <1>6 DEF ContainedAt, ConfigAt, ModeAt

ContainInv ==
    /\ {applied, release} \subseteq Commits
    /\ gate = "edit" => applied = "last" /\ release = "last"
    /\ gate # "edit" => Passed(files, modes)

\* Only a commit that has passed the gate is deployed, and nothing edits it behind
\* the gate.
LEMMA ContainNext == ASSUME ContainInv, [Next]_vars PROVE ContainInv'
<1> USE DEF ContainInv, vars, repositoryVars, serverVars, podVars, workflowVars, GoOn, Commits
<1>1. CASE Work BY <1>1 DEF Work
<1>2. CASE Gate1
  <2>1. Passed(files, modes) BY <1>2 DEF Gate1, SourceValid, ValidMode, Passed
  <2>2. Passed(files, modes)' BY <1>2, <2>1 DEF Gate1
  <2> QED BY <1>2, <2>2 DEF Gate1
<1>3. ASSUME UNCHANGED <<files, modes>>, gate = "edit" <=> gate' = "edit",
             {applied', release'} \subseteq {applied, release}
      PROVE  ContainInv'
  <2>1. gate # "edit" => Passed(files, modes)' BY <1>3
  <2> QED BY <1>3, <2>1
<1>4. CASE Serve
  <2>1. {applied', release'} \subseteq {applied, release}
    <3>1. CASE LauncherStep
      BY <3>1 DEF LauncherStep, MainRaises, Spawn, InstallHandlers, Signalled, MainReturns
    <3>2. CASE KubernetesStep
      BY <3>2 DEF KubernetesStep, ContainerStarts, GraceOver, PodGone, PodCreated
    <3>3. CASE GameServes \/ GameEnds \/ BotsChange
      BY <3>3 DEF GameServes, GameEnds, BotsChange
    <3>4. ASSUME NEW h \in People, Join(h) \/ Leave(h)
          PROVE  {applied', release'} \subseteq {applied, release}
      BY <3>4 DEF Join, Leave
    <3> QED BY <1>4, <3>1, <3>2, <3>3, <3>4 DEF Serve
  <2> QED BY <1>3, <1>4, <2>1 DEF Serve
<1>5. CASE Deploy
  <2>1. Passed(files, modes)' BY <1>5 DEF Deploy
  <2> QED BY <1>5, <2>1 DEF Deploy, Replace
<1>6. CASE Network \/ RestartElsewhere \/ RolloutDone \/ GiveUp \/ UNCHANGED vars
  BY <1>3, <1>6 DEF Network, RestartElsewhere, Replace, RolloutDone, GiveUp
<1>7. CASE Guard BY <1>3, <1>7 DEF Guard, GuardAsks, GuardAllows, GuardRefuses, GuardFails
<1>8. CASE Smoke
  BY <1>3, <1>8 DEF Smoke, SmokeAsks, SmokeAnswered, SmokeFails, SmokeInspectsPod,
     SmokeInspectsDeployment, SmokeEnds
<1> QED BY <1>1, <1>2, <1>4, <1>5, <1>6, <1>7, <1>8 DEF Next

\* Every server that runs removes the plugins its mode declares as disabled, for
\* any modes, profiles, edits by hand and interrupted generations.
THEOREM RunsContained == ASSUME RepositoryAssumption PROVE Spec => []ContainedAsDeclared
<1>1. Init => ContainInv
  BY DEF Init, ServerInit, ContainInv, Commits
<1>2. ContainInv /\ [Next]_vars => ContainInv' BY ContainNext
<1>3. ContainInv => ContainedAsDeclared
  <2> SUFFICES ASSUME ContainInv PROVE ContainedAt(release)
    BY DEF ContainedAsDeclared, ContainedAt
  <2>1. CASE release = "last"
    <3>1. Passed(Committed.files, Committed.modes) BY DEF RepositoryAssumption, Passed, ValidMode
    <3>2. At(release) = Committed BY <2>1 DEF At
    <3> QED BY <3>1, <3>2, PassedIsContained DEF RepositoryAssumption
  <2>2. CASE release = "next"
    <3>1. At(release).files = files /\ At(release).modes = modes BY <2>2 DEF At
    <3>2. Passed(files, modes) BY <2>2 DEF ContainInv
    <3> QED BY <3>1, <3>2, PassedIsContained DEF RepositoryAssumption
  <2> QED BY <2>1, <2>2 DEF ContainInv, Commits
<1> QED BY <1>1, <1>2, <1>3, PTL DEF Spec

-----------------------------------------------------------------------------
(***************************************************************************)
(* The generator and the production check, for every profile and mode.     *)
(***************************************************************************)
ModesInv ==
    /\ DOMAIN modes = DOMAIN Committed.modes
    /\ \A name \in DOMAIN modes : modes[name] \in Versions(name)

\* Only EditMode changes a mode.
LEMMA ModesNext == ASSUME ModesInv, [Next]_vars PROVE ModesInv'
<1> USE DEF vars, repositoryVars, ModesInv
<1>1. CASE UNCHANGED modes BY <1>1
<1>2. CASE Work
  <2>1. CASE EditMode BY <2>1 DEF EditMode, Versions
  <2>2. CASE EditProfile \/ EditManifest BY <1>1, <2>2 DEF EditProfile, EditManifest
  <2>3. CASE Generate \/ WriteManifest \/ GenerationCut
    BY <1>1, <2>3 DEF Generate, WriteManifest, GenerationCut
  <2> QED BY <1>2, <2>1, <2>2, <2>3 DEF Work, RepositoryStep
<1>3. CASE Serve \/ Network \/ RestartElsewhere
  BY <1>1, <1>3 DEF Serve, Network, RestartElsewhere
<1>4. CASE Gate1 \/ Guard \/ Deploy
  BY <1>1, <1>4 DEF Gate1, Guard, GuardAsks, GuardAllows, GuardRefuses, GuardFails, Deploy
<1>5. CASE RolloutDone \/ GiveUp BY <1>1, <1>5 DEF RolloutDone, GiveUp
<1>6. CASE Smoke
  BY <1>1, <1>6 DEF Smoke, SmokeAsks, SmokeAnswered, SmokeFails, SmokeInspectsPod,
     SmokeInspectsDeployment, SmokeEnds
<1> QED BY <1>1, <1>2, <1>3, <1>4, <1>5, <1>6 DEF Next

\* The places of the kinds in the list render_server_manifests returns.
LEMMA KindsNamed ==
    /\ 1 \in DOMAIN Kinds /\ Kinds[1] = "configmap"
    /\ 3 \in DOMAIN Kinds /\ Kinds[3] = "deployment"
    /\ 4 \in DOMAIN Kinds /\ Kinds[4] = "service"
<1>1. DOMAIN Kinds = 1 .. 4 BY DEF Kinds
<1>2. Kinds[1] = "configmap" /\ Kinds[3] = "deployment" /\ Kinds[4] = "service" BY DEF Kinds
<1> QED BY <1>1, <1>2

\* What the production check reads of a generated deployment.
LEMMA GeneratedFields ==
    ASSUME NEW p, NEW m
    PROVE  LET deployment == Deployment(p, m)
           IN  /\ deployment.image = p.image
               /\ deployment.annotations.map = p.map
               /\ deployment.annotations.public_address = p.public_address
               /\ deployment.env.CS2_MODE = p.mode
               /\ deployment.env.PORT = p.port
               /\ deployment.env.MAP = StartMap(p, m)
               /\ deployment.env.MAP_GROUP = m.map_group
               /\ deployment.env.STEAM_UPDATE_POLICY = p.steam_update_policy
               /\ deployment.env.ENABLE_PLUGIN_RUNTIME = Lowered(p.plugin_runtime_enabled)
               /\ deployment.env.CS2_DISABLED_PLUGINS = OrUnset(Csv(m.disabled_plugins), <<>>)
BY DEF Deployment, Annotations, Environment

\* It is hardened, repairs its data and declares its resources, whatever the profile.
LEMMA GeneratedIsHardened ==
    ASSUME NEW p, NEW m
    PROVE  /\ ResourcesDeclared(Deployment(p, m))
           /\ SecurityContextHardened(Deployment(p, m))
           /\ DataPermissionRepairPresent(Deployment(p, m))
<1>1. ResourcesDeclared(Deployment(p, m)) BY DEF ResourcesDeclared, Deployment
<1>2. Deployment(p, m).security = HardenedContext BY DEF Deployment
<1>3. SecurityContextHardened(Deployment(p, m)) BY <1>2 DEF SecurityContextHardened, HardenedContext
<1>4. DataPermissionRepairPresent(Deployment(p, m)) BY DEF DataPermissionRepairPresent, Deployment
<1> QED BY <1>1, <1>3, <1>4

\* The deployment the generator writes for a mode, against that mode.
LEMMA GeneratedForMode ==
    ASSUME NEW p, NEW mode, NEW deployment, deployment = Deployment(p, ModeSettings(mode)),
           LoadsMode(mode), Unset # "mg_active", Get(mode, "defaultMap", "") # Unset,
           Get(mode, "mapGroup", "") # Unset, Csv(PluginList(mode)) # Unset
    PROVE  /\ MapGroupMatches(deployment, mode) <=> "mapGroup" \in DOMAIN mode
           /\ MapMatchesDefault(deployment, mode) <=> p.map = mode.defaultMap
           /\ DisabledPluginsMatch(deployment, mode)
<1>1. /\ deployment.annotations.map = p.map
      /\ deployment.env.MAP = StartMap(p, ModeSettings(mode))
      /\ deployment.env.MAP_GROUP = ModeSettings(mode).map_group
      /\ deployment.env.CS2_DISABLED_PLUGINS = OrUnset(Csv(ModeSettings(mode).disabled_plugins), <<>>)
  BY GeneratedFields
<1>2. /\ ModeSettings(mode).map_group = Get(mode, "mapGroup", "mg_active")
      /\ ModeSettings(mode).default_map = mode.defaultMap
      /\ ModeSettings(mode).disabled_plugins = PluginList(mode)
  BY DEF ModeSettings
<1>3. MapGroupMatches(deployment, mode) <=> "mapGroup" \in DOMAIN mode
  BY <1>1, <1>2 DEF MapGroupMatches, EnvText, Get
<1>4. Get(mode, "defaultMap", "") = mode.defaultMap BY DEF Get, LoadsMode, ModeKeys
<1>5. MapMatchesDefault(deployment, mode) <=> p.map = mode.defaultMap
  BY <1>1, <1>2, <1>4 DEF MapMatchesDefault, EnvText, StartMap
<1>6. DisabledPluginsMatch(deployment, mode)
  BY <1>1, <1>2 DEF DisabledPluginsMatch, EnvText, OrUnset
<1> QED BY <1>3, <1>5, <1>6

\* Conversely the check is only about what GeneratedIsAccepted names.
LEMMA AcceptedExactly ==
    ASSUME MarkersAssumption, ModesInv, Generated
    PROVE  GeneratedIsAccepted
<1>1. PICK p : p = Profile(profile) OBVIOUS
<1>2. PICK mode : mode = modes[profile.mode] OBVIOUS
<1>3. PICK deployment : deployment = Deployment(p, ModeSettings(mode)) OBVIOUS
<1>4. /\ files.deployment = deployment
      /\ files.configmap = p.display_name
      /\ files.service.tcp = p.port /\ files.service.udp = p.port
  <2>1. /\ Rendered["configmap"] = p.display_name
        /\ Rendered["deployment"] = deployment
        /\ Rendered["service"].tcp = p.port /\ Rendered["service"].udp = p.port
    BY <1>1, <1>2, <1>3 DEF Rendered, Render
  <2>2. \A i \in DOMAIN Kinds : files[Kinds[i]] = Rendered[Kinds[i]] BY DEF Generated
  <2> QED BY <2>1, <2>2, KindsNamed
<1>5. profile.mode \in DOMAIN modes /\ ValidProfile(p) /\ LoadsMode(mode)
  BY <1>1, <1>2 DEF Generated, ProfileAccepted
<1>6. p.mode = profile.mode
  <2>1. "mode" \in DOMAIN profile BY DEF Generated, ProfileAccepted, LoadsProfile, RequiredFields
  <2> QED BY <1>1, <2>1 DEF Profile
<1>7. /\ MapGroupMatches(deployment, mode) <=> "mapGroup" \in DOMAIN mode
      /\ MapMatchesDefault(deployment, mode) <=> p.map = mode.defaultMap
      /\ DisabledPluginsMatch(deployment, mode)
  <2>1. mode \in Versions(profile.mode) /\ profile.mode \in DOMAIN Committed.modes
    BY <1>2, <1>5 DEF ModesInv
  <2>2. /\ Get(mode, "defaultMap", "") # Unset /\ Get(mode, "mapGroup", "") # Unset
        /\ Unset # "mg_active" /\ Csv(PluginList(mode)) # Unset
    BY <2>1 DEF MarkersAssumption, Get
  <2> QED BY <1>3, <1>5, <2>2, GeneratedForMode
<1>8. /\ deployment.image = p.image
      /\ deployment.env.PORT = p.port
      /\ deployment.annotations.public_address = p.public_address
      /\ deployment.env.CS2_MODE = p.mode
      /\ deployment.env.STEAM_UPDATE_POLICY = p.steam_update_policy
      /\ deployment.env.ENABLE_PLUGIN_RUNTIME = Lowered(p.plugin_runtime_enabled)
  BY <1>3, GeneratedFields
<1>9. ImagePinned(deployment) <=> p.image.repository = "zizobg/cs2-server"
  <2>1. p.image.pinned BY <1>5 DEF ValidProfile
  <2> QED BY <1>8, <2>1 DEF ImagePinned
<1>10. ServicePortMatches(files)
  <2>1. p.port \in Ports /\ p.public_address.port = p.port BY <1>5 DEF ValidProfile
  <2>2. p.port \notin {Unset, NotInt} BY <2>1 DEF MarkersAssumption
  <2> QED BY <1>4, <1>8, <2>1, <2>2 DEF ServicePortMatches
<1>11. Get(mode, "displayName", "") = mode.displayName BY <1>5 DEF Get, LoadsMode, ModeKeys
<1>12. ModeChecks(files, modes) <=>
         /\ "mapGroup" \in DOMAIN mode
         /\ p.map = mode.defaultMap
         /\ mode.displayName # "" /\ Contains(p.display_name, mode.displayName)
  BY <1>2, <1>4, <1>5, <1>6, <1>7, <1>8, <1>11 DEF ModeChecks, HostnameContainsDisplay
<1>13. deployment.env.ENABLE_PLUGIN_RUNTIME = "true" <=> p.plugin_runtime_enabled
  BY <1>8 DEF Lowered
<1>14. /\ ResourcesDeclared(deployment)
       /\ SecurityContextHardened(deployment)
       /\ DataPermissionRepairPresent(deployment)
  BY <1>3, GeneratedIsHardened
<1>15. ProductionChecks(files, modes) <=>
         /\ UpdateCheckerChecks(files.checker)
         /\ p.image.repository = "zizobg/cs2-server"
         /\ p.steam_update_policy = "always"
         /\ p.plugin_runtime_enabled
         /\ p.map = mode.defaultMap
         /\ "mapGroup" \in DOMAIN mode
         /\ mode.displayName # "" /\ Contains(p.display_name, mode.displayName)
  BY <1>4, <1>8, <1>9, <1>10, <1>12, <1>13, <1>14 DEF ProductionChecks
<1> QED BY <1>1, <1>2, <1>15 DEF GeneratedIsAccepted

\* The production check accepts exactly the generated manifests of profiles that
\* are contained, up to date, of the platform's image and of their mode.
THEOREM ChecksAcceptExactly ==
    ASSUME RepositoryAssumption, MarkersAssumption PROVE Spec => []GeneratedIsAccepted
<1>1. Init => ModesInv BY DEF Init, RepositoryInit, ModesInv, Versions
<1>2. ModesInv /\ [Next]_vars => ModesInv' BY ModesNext
<1>3. ModesInv => GeneratedIsAccepted
  <2>1. ~Generated => GeneratedIsAccepted BY DEF GeneratedIsAccepted
  <2> QED BY <2>1, AcceptedExactly
<1> QED BY <1>1, <1>2, <1>3, PTL DEF Spec

-----------------------------------------------------------------------------
(***************************************************************************)
(* Types, part by part.                                                    *)
(***************************************************************************)
RepositoryTypes ==
    /\ DOMAIN modes = DOMAIN Committed.modes
    /\ profile \in ProfileVersions
    /\ DOMAIN files = DOMAIN Committed.files
    /\ edits \in 0 .. MaxEdits

\* A pod that goes leaves a number for the next.
ServerTypes ==
    /\ {applied, release} \subseteq Commits
    /\ pod \in 1 .. MaxPods /\ starts \in 0 .. MaxStarts
    /\ termination \in {"no", "asked", "signalled", "gone"}
    /\ launcher \in Launchers /\ game \in Games
    /\ launcher \in {"absent", "preparing"} <=> game = "none"
    /\ termination = "gone" => launcher = "absent"
    /\ termination # "no" => pod < MaxPods
    /\ humans \subseteq People /\ bots \in 0 .. MaxBots
    /\ humans # {} \/ bots # 0 => game \in {"serving", "stopping"}

GateTypes ==
    /\ query = NoQuery \/ query \in [by : {"guard", "smoke"}, stage : {"request", "answer"}]
    /\ query.by = "guard" <=> gate = "guard"
    /\ query.by = "smoke" <=> gate = "smoke_query"
    /\ gate \in Gates /\ override \in BOOLEAN

SmokeRecords == [ok : BOOLEAN, slots : Slots, answered : Containers, inspected : Containers]

SmokeTypes ==
    /\ smoke \in SmokeRecords
    /\ gate \notin Answered => smoke.slots = Bare.max_players
    /\ \A info \in Infos : [pod |-> info.pod, starts |-> info.starts] \in Containers

\* A change of the repository keeps its types; nothing else touches it.
LEMMA RepositoryTypesNext ==
    ASSUME RepositoryAssumption, RepositoryTypes, [Next]_vars PROVE RepositoryTypes'
<1> USE DEF vars, repositoryVars, RepositoryTypes
<1>1. CASE UNCHANGED <<modes, profile, files, edits>> BY <1>1
<1>2. CASE Work
  <2>1. edits < MaxEdits /\ edits' = edits + 1 => edits' \in 0 .. MaxEdits
    BY DEF RepositoryAssumption
  <2>2. CASE EditMode BY <2>1, <2>2 DEF EditMode, Edit
  <2>3. CASE EditProfile BY <2>1, <2>3 DEF EditProfile, Edit
  <2>4. CASE EditManifest
    <3>1. DOMAIN files' = DOMAIN files BY <2>4 DEF EditManifest
    <3> QED BY <2>1, <2>4, <3>1 DEF EditManifest, Edit
  <2>5. CASE Generate BY <2>1, <2>5 DEF Generate, Edit
  <2>6. CASE WriteManifest BY <2>6 DEF WriteManifest
  <2>7. CASE GenerationCut BY <1>1, <2>7 DEF GenerationCut
  <2> QED BY <1>2, <2>2, <2>3, <2>4, <2>5, <2>6, <2>7 DEF Work, RepositoryStep
<1>3. CASE Serve \/ Network \/ RestartElsewhere
  BY <1>1, <1>3 DEF Serve, Network, RestartElsewhere
<1>4. CASE Gate1 BY <1>4 DEF Gate1, RepositoryAssumption
<1>5. CASE Guard \/ Deploy
  BY <1>1, <1>5 DEF Guard, GuardAsks, GuardAllows, GuardRefuses, GuardFails, Deploy
<1>6. CASE RolloutDone \/ GiveUp BY <1>1, <1>6 DEF RolloutDone, GiveUp
<1>7. CASE Smoke
  BY <1>1, <1>7 DEF Smoke, SmokeAsks, SmokeAnswered, SmokeFails, SmokeInspectsPod,
     SmokeInspectsDeployment, SmokeEnds
<1> QED BY <1>1, <1>2, <1>3, <1>4, <1>5, <1>6, <1>7 DEF Next

\* The server's steps keep its types.
LEMMA ServerTypesNext ==
    ASSUME ServerAssumption, ServerTypes, [Next]_vars PROVE ServerTypes'
<1> USE ServerAssumption DEF ServerAssumption, ServerTypes, Commits, Launchers, Games, Up, serverVars,
        podVars, processVars
<1>1. CASE LauncherStep
  <2>1. CASE MainRaises \/ MainReturns BY <2>1 DEF MainRaises, MainReturns, ContainerEnds
  <2>2. CASE Spawn \/ InstallHandlers BY <2>2 DEF Spawn, InstallHandlers
  <2>3. CASE Signalled BY <2>3 DEF Signalled, Stop, ContainerEnds
  <2> QED BY <1>1, <2>1, <2>2, <2>3 DEF LauncherStep
<1>2. CASE KubernetesStep
  <2>1. CASE ContainerStarts BY <2>1 DEF ContainerStarts
  <2>2. CASE GraceOver \/ PodGone BY <2>2 DEF GraceOver, PodGone, ContainerEnds
  <2>3. CASE PodCreated BY <2>3 DEF PodCreated
  <2> QED BY <1>2, <2>1, <2>2, <2>3 DEF KubernetesStep
<1>3. CASE GameServes BY <1>3 DEF GameServes
<1>4. CASE GameEnds BY <1>4 DEF GameEnds
<1>5. CASE BotsChange BY <1>5 DEF BotsChange
<1>6. ASSUME NEW h \in People, Join(h) \/ Leave(h) PROVE ServerTypes' BY <1>6 DEF Join, Leave
<1>7. CASE RestartElsewhere \/ Deploy BY <1>7 DEF RestartElsewhere, Deploy, Replace
<1>8. CASE UNCHANGED serverVars BY <1>8
<1> QED BY <1>1, <1>2, <1>3, <1>4, <1>5, <1>6, <1>7, <1>8, StepKinds DEF Serve

\* The gates keep theirs: a tool waits for an answer exactly at its own gate.
LEMMA GateTypesNext == ASSUME GateTypes, [Next]_vars PROVE GateTypes'
<1> USE DEF GateTypes, Gates, NoQuery, vars, queryVars, GoOn
<1>1. CASE Work \/ Serve \/ RestartElsewhere
  BY <1>1 DEF Work, Serve, RestartElsewhere, workflowVars
<1>2. CASE Network BY <1>2 DEF Network, AnswerChallenge, Replies, workflowVars
<1>3. CASE Gate1 \/ Deploy \/ RolloutDone BY <1>3 DEF Gate1, Deploy, RolloutDone
<1>4. CASE GiveUp BY <1>4 DEF GiveUp
<1>5. CASE GuardAsks \/ SmokeAsks BY <1>5 DEF GuardAsks, SmokeAsks, Ask
<1>6. CASE GuardAllows \/ GuardRefuses BY <1>6 DEF GuardAllows, GuardRefuses, Receives, Close
<1>7. CASE GuardFails \/ SmokeFails
  BY <1>7 DEF GuardFails, SmokeFails, QueryFails, MeetsChallenge, TimesOut, Close
<1>8. CASE SmokeAnswered BY <1>8 DEF SmokeAnswered, Receives, Close
<1>9. CASE SmokeInspectsPod \/ SmokeInspectsDeployment \/ SmokeEnds
  BY <1>9 DEF SmokeInspectsPod, SmokeInspectsDeployment, SmokeEnds
<1>10. CASE UNCHANGED vars BY <1>10 DEF workflowVars
<1> QED
  BY <1>1, <1>2, <1>3, <1>4, <1>5, <1>6, <1>7, <1>8, <1>9, <1>10 DEF Next, Guard, Smoke

\* The smoke test finds a verdict, and containers that there may be.  From its
\* answer on nothing is edited or deployed, so that its slots are still a choice.
LEMMA SmokeTypesNext ==
    ASSUME ServerAssumption, ServerTypes, SmokeTypes, [Next]_vars PROVE SmokeTypes'
<1> DEFINE Numbered(packet) == [pod |-> packet.pod, starts |-> packet.starts] \in Containers
           Same == UNCHANGED <<files, modes, applied>>
<1>1. Nothing \in Containers BY DEF Nothing, Containers, ServerAssumption
<1>2. NoSmoke \in SmokeRecords' /\ NoSmoke.slots = Bare.max_players
  BY <1>1 DEF NoSmoke, SmokeRecords, Slots, Bare, Containers
<1>3. Container \in Containers BY DEF Container, Containers, ServerTypes
<1>4. ASSUME Infos' \subseteq Infos PROVE \A info \in Infos' : Numbered(info)
  BY <1>4 DEF SmokeTypes
<1>5. Same => Slots' = Slots /\ SmokeRecords' = SmokeRecords
  BY DEF SmokeRecords, Slots, ModeAt, At, Containers
<1>6. ASSUME UNCHANGED smoke, gate \in Answered => Same /\ gate' \in Answered
      PROVE  smoke' \in SmokeRecords' /\ (gate' \notin Answered => smoke'.slots = Bare.max_players)
  <2>1. CASE gate \in Answered
    BY <1>5, <1>6, <2>1 DEF SmokeTypes, Answered, Inspected
  <2>2. CASE gate \notin Answered
    BY <1>6, <2>2 DEF SmokeTypes, SmokeRecords, Slots, Containers
  <2> QED BY <2>1, <2>2
<1>7. ASSUME UNCHANGED <<smoke, wire>>,
             gate \in Answered => Same /\ gate' \in Answered
      PROVE  SmokeTypes'
  BY <1>6, <1>7 DEF SmokeTypes, Infos
<1> USE DEF vars, repositoryVars, serverVars, podVars, GoOn
<1>8. CASE Work
  BY <1>7, <1>8 DEF Work, queryVars, workflowVars, Answered, Inspected
<1>9. CASE Serve
  <2>1. UNCHANGED applied
    BY <1>9 DEF Serve, LauncherStep, MainRaises, Spawn, InstallHandlers, Signalled, Stop,
       MainReturns, ContainerEnds, KubernetesStep, ContainerStarts, GraceOver, PodGone,
       PodCreated, GameServes, GameEnds, BotsChange, Join, Leave, processVars
  <2> QED BY <1>7, <1>9, <2>1 DEF Serve, queryVars
<1>10. CASE RestartElsewhere \/ UNCHANGED vars
  BY <1>7, <1>10 DEF RestartElsewhere, queryVars, workflowVars
<1>11. CASE Gate1 \/ Deploy \/ RolloutDone
  BY <1>7, <1>11 DEF Gate1, Deploy, RolloutDone, queryVars, Answered, Inspected
<1>12. CASE GiveUp BY <1>2, <1>12 DEF GiveUp, queryVars, SmokeTypes, Infos
<1>13. CASE GuardAsks
  <2>1. Infos' \subseteq Infos BY <1>13 DEF GuardAsks, Ask, Packet, Infos
  <2> QED BY <1>4, <1>6, <1>13, <2>1 DEF GuardAsks, SmokeTypes, Answered, Inspected
<1>14. CASE SmokeAsks
  BY <1>2, <1>14 DEF SmokeAsks, Ask, Packet, SmokeTypes, Infos
<1>15. CASE GuardAllows \/ GuardRefuses \/ GuardFails
  <2>1. Infos' \subseteq Infos
    BY <1>15 DEF GuardAllows, GuardRefuses, GuardFails, Receives, QueryFails, MeetsChallenge,
       TimesOut, Close, Infos
  <2> QED
    BY <1>4, <1>6, <1>15, <2>1 DEF GuardAllows, GuardRefuses, GuardFails, SmokeTypes, Answered,
       Inspected
<1>16. CASE SmokeFails
  BY <1>2, <1>16 DEF SmokeFails, QueryFails, MeetsChallenge, TimesOut, Close, SmokeTypes, Infos
<1>17. CASE SmokeAnswered
  <2>1. PICK info \in Infos, args \in CommandLines :
          /\ smoke' = [smoke EXCEPT !.ok = ServerInfoOk(info, args), !.slots = args.max_players,
                !.answered = [pod |-> info.pod, starts |-> info.starts]]
          /\ wire' = {}
    BY <1>17 DEF SmokeAnswered, Receives, Close
  <2>2. ServerInfoOk(info, args) \in BOOLEAN BY DEF ServerInfoOk, NameAndMapOk
  <2>3. args.max_players \in Slots BY DEF CommandLines
  <2>4. smoke' \in SmokeRecords BY <2>1, <2>2, <2>3 DEF SmokeTypes, SmokeRecords
  <2> QED BY <1>5, <1>17, <2>1, <2>4 DEF SmokeAnswered, SmokeTypes, Infos, Answered
<1>18. CASE SmokeInspectsPod
  <2>1. UNCHANGED wire /\ Same BY <1>18 DEF SmokeInspectsPod, queryVars
  <2>2. CASE termination = "gone"
    BY <1>2, <1>18, <2>1, <2>2 DEF SmokeInspectsPod, SmokeTypes, Infos
  <2>3. CASE termination # "gone"
    <3>1. smoke' = [smoke EXCEPT !.ok = @ /\ PodOk, !.inspected = Container]
      BY <1>18, <2>3 DEF SmokeInspectsPod
    <3>2. smoke' \in SmokeRecords BY <1>3, <3>1 DEF SmokeTypes, SmokeRecords
    <3>3. gate' \in Answered BY <1>18, <2>3 DEF SmokeInspectsPod, Answered, Inspected
    <3> QED BY <1>5, <2>1, <3>2, <3>3 DEF SmokeTypes, Infos
  <2> QED BY <2>2, <2>3
<1>19. CASE SmokeInspectsDeployment
  <2>1. UNCHANGED wire /\ Same BY <1>19 DEF SmokeInspectsDeployment, queryVars
  <2>2. smoke' \in SmokeRecords
    BY <1>19 DEF SmokeInspectsDeployment, SmokeTypes, SmokeRecords
  <2>3. gate' \in Answered BY <1>19 DEF SmokeInspectsDeployment, Answered, Inspected
  <2> QED BY <1>5, <2>1, <2>2, <2>3 DEF SmokeTypes, Infos
<1>20. CASE SmokeEnds
  <2>1. UNCHANGED wire /\ Same BY <1>20 DEF SmokeEnds, queryVars
  <2>2. CASE UNCHANGED smoke /\ gate' = "promoted"
    BY <1>7, <1>20, <2>1, <2>2 DEF Answered, Inspected
  <2>3. CASE smoke' = NoSmoke BY <1>2, <2>1, <2>3 DEF SmokeTypes, Infos
  <2> QED BY <1>20, <2>2, <2>3 DEF SmokeEnds
<1>21. CASE Network /\ AnswerChallenge
  <2>1. Infos' \subseteq Infos BY <1>21 DEF AnswerChallenge, Infos, Packet
  <2> QED BY <1>4, <1>6, <1>21, <2>1 DEF Network, workflowVars, SmokeTypes
<1>22. CASE Network /\ Replies
  <2>1. PICK reply \in {Packet("challenge"), Info} : wire' \subseteq wire \cup {reply}
    BY <1>22 DEF Replies
  <2>2. Infos' \subseteq Infos \cup {Info} BY <2>1 DEF Infos, Packet
  <2>3. Numbered(Info) BY <1>3 DEF Info, Container
  <2>4. \A info \in Infos' : Numbered(info) BY <2>2, <2>3 DEF SmokeTypes
  <2> QED BY <1>6, <1>22, <2>4 DEF Network, workflowVars, SmokeTypes
<1> QED
  BY <1>8, <1>9, <1>10, <1>11, <1>12, <1>13, <1>14, <1>15, <1>16, <1>17, <1>18, <1>19, <1>20,
     <1>21, <1>22
  DEF Next, Network, Guard, Smoke

\* A commit has a profile and manifests of the kinds that every edit keeps.
LEMMA RepositoryTypesInit ==
    ASSUME RepositoryAssumption, Init PROVE RepositoryTypes
BY DEF Init, RepositoryInit, RepositoryTypes, RepositoryAssumption

\* Every variable keeps its type, through edits, gates, deployments, restarts and
\* lost or doubled datagrams.
THEOREM RolloutTypeCorrect ==
    ASSUME RepositoryAssumption, ServerAssumption PROVE Spec => []RolloutTypeOK
<1> DEFINE Inv == RepositoryTypes /\ ServerTypes /\ GateTypes /\ SmokeTypes /\ PlayersInv
<1>1. Init => Inv
  <2> SUFFICES ASSUME Init PROVE Inv OBVIOUS
  <2>1. RepositoryTypes BY RepositoryTypesInit
  <2>2. ServerTypes
    BY DEF Init, ServerInit, ServerTypes, ServerAssumption, Commits, Launchers, Games, Up
  <2>3. GateTypes BY DEF Init, QueryInit, GateTypes, NoQuery, Gates
  <2>4. Nothing \in Containers BY DEF Nothing, Containers, ServerAssumption
  <2>5. SmokeTypes
    BY <2>4 DEF Init, QueryInit, SmokeTypes, SmokeRecords, NoSmoke, Slots, Infos
  <2>6. PlayersInv BY DEF Init, ServerInit, QueryInit, PlayersInv, Infos
  <2> QED BY <2>1, <2>2, <2>3, <2>5, <2>6
<1>2. Inv /\ [Next]_vars => Inv'
  BY RepositoryTypesNext, ServerTypesNext, GateTypesNext, SmokeTypesNext, PlayersNext
<1>3. Inv => RolloutTypeOK
  BY DEF RepositoryTypes, ServerTypes, GateTypes, SmokeTypes, SmokeRecords, PlayersInv, RolloutTypeOK
<1> QED BY <1>1, <1>2, <1>3, PTL DEF Spec

-----------------------------------------------------------------------------
(***************************************************************************)
(* From the generator to from_env: nothing a profile or a mode declares is *)
(* lost on its way through the environment of the container.               *)
(***************************************************************************)
\* What a profile that loads says of a field is what the file says.
LEMMA ProfileSpelled ==
    ASSUME MarkersAssumption, NEW data \in ProfileVersions, LoadsProfile(data)
    PROVE  /\ Unset \notin {Profile(data).server_id, Profile(data).mode, Profile(data).map,
                            Profile(data).steam_update_policy}
           /\ Profile(data).admin_steam_ids # Unset /\ Profile(data).admin_flags # Unset
           /\ Profile(data).plugin_runtime_enabled \in BOOLEAN
           /\ Profile(data).mode = data.mode
<1>1. {"server_id", "mode", "map"} \subseteq DOMAIN data
  BY DEF LoadsProfile, RequiredFields
<1>2. /\ Profile(data).server_id = data.server_id
      /\ Profile(data).mode = data.mode
      /\ Profile(data).map = data.map
      /\ Profile(data).steam_update_policy =
            IF "steam_update_policy" \in DOMAIN data THEN data.steam_update_policy ELSE "always"
  BY <1>1 DEF Profile, ProfileDefaults
<1> QED BY <1>1, <1>2 DEF MarkersAssumption

\* What a mode that loads says of a setting is what the file says or the default.
LEMMA ModeSpelled ==
    ASSUME MarkersAssumption, NEW name \in DOMAIN Committed.modes, NEW data \in Versions(name),
           LoadsMode(data), NEW m, m = ModeSettings(data)
    PROVE  /\ Unset \notin {m.default_map, m.exec_cfg, m.max_players, m.map_group}
           /\ Unset \notin {m.game_type, m.game_mode}
           /\ Csv(m.disabled_plugins) # Unset
<1>1. {"defaultMap", "exec", "maxPlayers"} \subseteq DOMAIN data
  BY DEF LoadsMode, ModeKeys
<1>2. \A key \in DOMAIN data : data[key] # Unset
  BY DEF MarkersAssumption
<1>3. Unset \notin {data.defaultMap, data.exec, data.maxPlayers}
  BY <1>1, <1>2
<1>4. Get(data, "mapGroup", "mg_active") # Unset /\ Get(data, "gameType", 0) # Unset
      /\ Get(data, "gameMode", 0) # Unset
  BY <1>2 DEF MarkersAssumption, Get
<1>5. /\ m.default_map = data.defaultMap /\ m.exec_cfg = data.exec /\ m.max_players = data.maxPlayers
      /\ m.map_group = Get(data, "mapGroup", "mg_active")
      /\ m.game_type = Get(data, "gameType", 0) /\ m.game_mode = Get(data, "gameMode", 0)
      /\ m.disabled_plugins = PluginList(data)
  BY DEF ModeSettings
<1>6. Csv(PluginList(data)) # Unset
  BY DEF MarkersAssumption
<1> QED BY <1>3, <1>4, <1>5, <1>6

\* What from_env reads of an environment in which the variables are there.
LEMMA ReadBack ==
    ASSUME NEW env,
           Unset \notin {env.SERVER_ID, env.CS2_MODE, env.MAP, env.STEAM_UPDATE_POLICY},
           Unset \notin {env.PORT, env.MAXPLAYERS, env.EXEC, env.GAME_TYPE, env.GAME_MODE, env.MAP_GROUP}
    PROVE  /\ ServerConfig(env).server_id = env.SERVER_ID /\ ServerConfig(env).mode = env.CS2_MODE
           /\ ServerConfig(env).map = env.MAP /\ ServerConfig(env).port = env.PORT
           /\ ServerConfig(env).maxplayers = env.MAXPLAYERS /\ ServerConfig(env).exec_cfg = env.EXEC
           /\ ServerConfig(env).game_type = env.GAME_TYPE /\ ServerConfig(env).game_mode = env.GAME_MODE
           /\ ServerConfig(env).map_group = env.MAP_GROUP
           /\ ServerConfig(env).steam_update_policy = env.STEAM_UPDATE_POLICY
           /\ ServerConfig(env).plugin_runtime_enabled = Truthy(Or(env.ENABLE_PLUGIN_RUNTIME, "false"))
           /\ ServerConfig(env).disabled_plugins = Or(env.CS2_DISABLED_PLUGINS, <<>>)
           /\ ServerConfig(env).admin_steam_ids = Or(env.CS2_ADMIN_STEAM_IDS, <<>>)
           /\ ServerConfig(env).admin_flags = IF Or(env.CS2_ADMIN_FLAGS, <<>>) = <<>> THEN <<"@css/rcon">>
                                              ELSE Or(env.CS2_ADMIN_FLAGS, <<>>)
           /\ ServerConfig(env).cache_root = env.CS2_CACHE_ROOT
<1>1. \A value, default : value # Unset => Or(value, default) = value
  BY DEF Or
<1> QED BY <1>1 DEF ServerConfig

\* A list is read back through a variable that is left out when it is empty,
\* and a flag through its text.
LEMMA OptionalReadBack ==
    /\ \A value : value # Unset => Or(OrUnset(value, <<>>), <<>>) = value
    /\ RepositoryAssumption => \A flag \in BOOLEAN : Truthy(Or(Lowered(flag), "false")) = flag
<1>1. \A value : value # Unset => Or(OrUnset(value, <<>>), <<>>) = value
  BY DEF Or, OrUnset
<1>2. ASSUME RepositoryAssumption PROVE Truthy(Or(Lowered(TRUE), "false")) = TRUE
  BY <1>2 DEF RepositoryAssumption, Truthy, Or, Lowered
<1>3. Truthy(Or(Lowered(FALSE), "false")) = FALSE
  BY DEF Truthy, Or, Lowered
<1> QED BY <1>1, <1>2, <1>3

\* The cache claim is mounted exactly when the profile names a cache root.
LEMMA CacheMounted ==
    ASSUME MarkersAssumption, NEW p
    PROVE  [path |-> p.cache_root, claim |-> <<"cs2-node-cache", p.node>>] \in Mounts(p)
                <=> p.cache_root # Unset
<1>1. CASE p.cache_root = Unset
  <2>1. Mounts(p) = {[path |-> "/home/steam/cs2", claim |-> <<p.server_id, "data">>]}
    BY <1>1 DEF Mounts
  <2>2. [path |-> p.cache_root, claim |-> <<"cs2-node-cache", p.node>>].path # "/home/steam/cs2"
    BY <1>1 DEF MarkersAssumption
  <2> QED BY <1>1, <2>1, <2>2
<1>2. CASE p.cache_root # Unset BY <1>2 DEF Mounts
<1> QED BY <1>1, <1>2

\* What the generator declares for a profile p and a mode m, from_env reads back.
LEMMA ReadAsDeclared ==
    ASSUME RepositoryAssumption, MarkersAssumption,
           NEW p, NEW m, NEW env, NEW c, env = Environment(p, m), c = ServerConfig(env),
           Unset \notin {p.server_id, p.mode, p.map, p.steam_update_policy}, p.port # Unset,
           p.admin_steam_ids # Unset, p.admin_flags # Unset, p.plugin_runtime_enabled \in BOOLEAN,
           Unset \notin {m.default_map, m.exec_cfg, m.max_players, m.map_group},
           Unset \notin {m.game_type, m.game_mode}, Csv(m.disabled_plugins) # Unset
    PROVE  /\ c.server_id = p.server_id /\ c.mode = p.mode /\ c.port = p.port
           /\ c.map = (IF p.map = "" THEN m.default_map ELSE p.map)
           /\ c.maxplayers = m.max_players /\ c.exec_cfg = m.exec_cfg
           /\ <<c.game_type, c.game_mode, c.map_group>> = <<m.game_type, m.game_mode, m.map_group>>
           /\ c.plugin_runtime_enabled = p.plugin_runtime_enabled
           /\ c.steam_update_policy = p.steam_update_policy
           /\ ToSet(c.disabled_plugins) = ToSet(Csv(m.disabled_plugins))
           /\ c.admin_steam_ids = p.admin_steam_ids
           /\ p.admin_flags # <<>> => c.admin_flags = p.admin_flags
           /\ [path |-> c.cache_root, claim |-> <<"cs2-node-cache", p.node>>] \in Mounts(p)
                    <=> p.cache_root # Unset
<1>1. StartMap(p, m) = (IF p.map = "" THEN m.default_map ELSE p.map) /\ StartMap(p, m) # Unset
  BY DEF StartMap
<1>2. /\ env.SERVER_ID = p.server_id /\ env.CS2_MODE = p.mode /\ env.MAP = StartMap(p, m)
      /\ env.PORT = p.port /\ env.MAXPLAYERS = m.max_players /\ env.EXEC = m.exec_cfg
      /\ env.GAME_TYPE = m.game_type /\ env.GAME_MODE = m.game_mode /\ env.MAP_GROUP = m.map_group
      /\ env.STEAM_UPDATE_POLICY = p.steam_update_policy
      /\ env.ENABLE_PLUGIN_RUNTIME = Lowered(p.plugin_runtime_enabled)
      /\ env.CS2_ADMIN_STEAM_IDS = OrUnset(p.admin_steam_ids, <<>>)
      /\ env.CS2_ADMIN_FLAGS = OrUnset(p.admin_flags, <<>>)
      /\ env.CS2_DISABLED_PLUGINS = OrUnset(Csv(m.disabled_plugins), <<>>)
      /\ env.CS2_CACHE_ROOT = p.cache_root
  BY DEF Environment
<1>3. /\ Unset \notin {env.SERVER_ID, env.CS2_MODE, env.MAP, env.STEAM_UPDATE_POLICY}
      /\ Unset \notin {env.PORT, env.MAXPLAYERS, env.EXEC, env.GAME_TYPE, env.GAME_MODE, env.MAP_GROUP}
  BY <1>1, <1>2
<1>4. /\ c.server_id = env.SERVER_ID /\ c.mode = env.CS2_MODE /\ c.map = env.MAP /\ c.port = env.PORT
      /\ c.maxplayers = env.MAXPLAYERS /\ c.exec_cfg = env.EXEC
      /\ c.game_type = env.GAME_TYPE /\ c.game_mode = env.GAME_MODE /\ c.map_group = env.MAP_GROUP
      /\ c.steam_update_policy = env.STEAM_UPDATE_POLICY
      /\ c.plugin_runtime_enabled = Truthy(Or(env.ENABLE_PLUGIN_RUNTIME, "false"))
      /\ c.disabled_plugins = Or(env.CS2_DISABLED_PLUGINS, <<>>)
      /\ c.admin_steam_ids = Or(env.CS2_ADMIN_STEAM_IDS, <<>>)
      /\ c.admin_flags = IF Or(env.CS2_ADMIN_FLAGS, <<>>) = <<>> THEN <<"@css/rcon">>
                         ELSE Or(env.CS2_ADMIN_FLAGS, <<>>)
      /\ c.cache_root = env.CS2_CACHE_ROOT
  BY <1>3, ReadBack, Zenon
<1>5. /\ c.disabled_plugins = Csv(m.disabled_plugins)
      /\ c.admin_steam_ids = p.admin_steam_ids
      /\ p.admin_flags # <<>> => c.admin_flags = p.admin_flags
  <2>1. /\ c.disabled_plugins = Or(OrUnset(Csv(m.disabled_plugins), <<>>), <<>>)
        /\ c.admin_steam_ids = Or(OrUnset(p.admin_steam_ids, <<>>), <<>>)
        /\ c.admin_flags = IF Or(OrUnset(p.admin_flags, <<>>), <<>>) = <<>> THEN <<"@css/rcon">>
                           ELSE Or(OrUnset(p.admin_flags, <<>>), <<>>)
    BY <1>2, <1>4
  <2>2. /\ Or(OrUnset(Csv(m.disabled_plugins), <<>>), <<>>) = Csv(m.disabled_plugins)
        /\ Or(OrUnset(p.admin_steam_ids, <<>>), <<>>) = p.admin_steam_ids
        /\ Or(OrUnset(p.admin_flags, <<>>), <<>>) = p.admin_flags
    BY OptionalReadBack
  <2> QED BY <2>1, <2>2
<1>6. c.plugin_runtime_enabled = p.plugin_runtime_enabled
  <2>1. c.plugin_runtime_enabled = Truthy(Or(Lowered(p.plugin_runtime_enabled), "false"))
    BY <1>2, <1>4
  <2>2. Truthy(Or(Lowered(p.plugin_runtime_enabled), "false")) = p.plugin_runtime_enabled
    BY OptionalReadBack
  <2> QED BY <2>1, <2>2
<1>7. [path |-> c.cache_root, claim |-> <<"cs2-node-cache", p.node>>] \in Mounts(p)
            <=> p.cache_root # Unset
  <2>1. c.cache_root = p.cache_root BY <1>2, <1>4
  <2>2. [path |-> p.cache_root, claim |-> <<"cs2-node-cache", p.node>>] \in Mounts(p)
            <=> p.cache_root # Unset
    BY CacheMounted
  <2> QED BY <2>1, <2>2
<1> QED BY <1>1, <1>2, <1>4, <1>5, <1>6, <1>7

\* One generated deployment is read back as declared.
LEMMA UnderstoodExactly ==
    ASSUME RepositoryAssumption, MarkersAssumption, ModesInv, profile \in ProfileVersions, Generated
    PROVE  GeneratedIsUnderstood
<1> DEFINE p == Profile(profile)
           m == ModeSettings(modes[profile.mode])
<1>1. files.deployment = Deployment(p, m)
  <2>1. Rendered["deployment"] = Deployment(p, m) BY DEF Rendered, Render
  <2>2. \A i \in DOMAIN Kinds : files[Kinds[i]] = Rendered[Kinds[i]] BY DEF Generated
  <2> QED BY <2>1, <2>2, KindsNamed
<1>2. files.deployment.env = Environment(p, m) /\ files.deployment.mounts = Mounts(p)
  <2>1. Deployment(p, m).env = Environment(p, m) /\ Deployment(p, m).mounts = Mounts(p)
    BY DEF Deployment
  <2> QED BY <1>1, <2>1
<1>3. /\ Unset \notin {p.server_id, p.mode, p.map, p.steam_update_policy}
      /\ p.admin_steam_ids # Unset /\ p.admin_flags # Unset /\ p.plugin_runtime_enabled \in BOOLEAN
  BY ProfileSpelled DEF Generated, ProfileAccepted
<1>4. /\ Unset \notin {m.default_map, m.exec_cfg, m.max_players, m.map_group}
      /\ Unset \notin {m.game_type, m.game_mode} /\ Csv(m.disabled_plugins) # Unset
  <2>1. /\ profile.mode \in DOMAIN Committed.modes
        /\ modes[profile.mode] \in Versions(profile.mode) /\ LoadsMode(modes[profile.mode])
    BY DEF Generated, ProfileAccepted, ModesInv
  <2> QED BY <2>1, ModeSpelled
<1>5. p.port # Unset
  BY DEF Generated, ProfileAccepted, ValidProfile, MarkersAssumption
<1> DEFINE c == ServerConfig(files.deployment.env)
<1>6. /\ c.server_id = p.server_id /\ c.mode = p.mode /\ c.port = p.port
      /\ c.map = (IF p.map = "" THEN m.default_map ELSE p.map)
      /\ c.maxplayers = m.max_players /\ c.exec_cfg = m.exec_cfg
      /\ <<c.game_type, c.game_mode, c.map_group>> = <<m.game_type, m.game_mode, m.map_group>>
      /\ c.plugin_runtime_enabled = p.plugin_runtime_enabled
      /\ c.steam_update_policy = p.steam_update_policy
      /\ ToSet(c.disabled_plugins) = ToSet(Csv(m.disabled_plugins))
      /\ c.admin_steam_ids = p.admin_steam_ids
      /\ p.admin_flags # <<>> => c.admin_flags = p.admin_flags
      /\ [path |-> c.cache_root, claim |-> <<"cs2-node-cache", p.node>>] \in Mounts(p)
                <=> p.cache_root # Unset
  BY <1>2, <1>3, <1>4, <1>5, ReadAsDeclared, SMTT(60), Zenon
<1> QED BY <1>2, <1>6 DEF GeneratedIsUnderstood

\* Whatever a profile and a mode declare reaches the game server's configuration
\* through the generated environment (render_server_manifests, from_env).
THEOREM GeneratedIsReadBack ==
    ASSUME RepositoryAssumption, MarkersAssumption PROVE Spec => []GeneratedIsUnderstood
<1> DEFINE Inv == ModesInv /\ RepositoryTypes
<1>1. Init => Inv
  <2>1. Init => ModesInv BY DEF Init, RepositoryInit, ModesInv, Versions
  <2>2. Init => RepositoryTypes BY RepositoryTypesInit
  <2> QED BY <2>1, <2>2
<1>2. Inv /\ [Next]_vars => Inv'
  BY ModesNext, RepositoryTypesNext
<1>3. Inv => GeneratedIsUnderstood
  <2>1. ~Generated => GeneratedIsUnderstood BY DEF GeneratedIsUnderstood
  <2> QED BY <2>1, UnderstoodExactly DEF RepositoryTypes
<1> QED BY <1>1, <1>2, <1>3, PTL DEF Spec

-----------------------------------------------------------------------------
(***************************************************************************)
(* The promotion.  What the production check has compared and the slots    *)
(* that the smoke test has seen hold together, because the answer is of a  *)
(* pod of this deployment and nobody edits the commit behind it.           *)
(***************************************************************************)
NextMode == modes[files.deployment.env.CS2_MODE]
NextConfig == ServerConfig(files.deployment.env)
NextStartsUp == StartsUp(files.deployment.env, Secrets)

\* The smoke test's view of the deployed commit, and that its server has started.
Shown ==
    /\ NextStartsUp
    /\ LaunchCommand(NextConfig).sv_visiblemaxplayers = smoke.slots

RolledOut == {"ready", "smoke_query"} \cup Answered

\* Only a server that starts up is up, and from the rollout on it is the new one.
DeployedInv ==
    /\ game # "none" /\ release = "next" => NextStartsUp
    /\ gate \in RolledOut \cup {"rolling"} => applied = "next"
    /\ gate \in RolledOut => release = "next"

ShownInv ==
    /\ \A info \in Infos : gate = "smoke_query" => info.shows = "next" /\ NextStartsUp
    /\ gate \in Answered /\ smoke.ok => Shown
    /\ gate = "promoted" => smoke.ok

\* The commit that is deployed is the repository as Gate 1 has left it.
LEMMA NextIsPresent ==
    At("next").files = files /\ ModeAt("next") = NextMode /\ ConfigAt("next") = NextConfig
BY DEF At, ModeAt, ConfigAt, NextMode, NextConfig

\* The steps of the server keep the release of what is up.
LEMMA DeployedServe ==
    ASSUME PodInv, ContainInv, DeployedInv, Serve PROVE DeployedInv'
<1>1. UNCHANGED <<gate, files, modes>> BY DEF Serve, repositoryVars
<1>2. NextStartsUp' <=> NextStartsUp BY <1>1 DEF NextStartsUp
<1> USE DEF podVars, processVars
<1>3. /\ applied' = applied
      /\ release' = release \/ (release' = applied /\ game' = "none")
      /\ game' # "none" /\ game = "none" /\ release = "next" => NextStartsUp
  <2>1. CASE MainRaises \/ InstallHandlers \/ Signalled \/ MainReturns
    BY <2>1 DEF MainRaises, InstallHandlers, Signalled, MainReturns, Stop, ContainerEnds, Up, PodInv
  <2>2. CASE Spawn BY <2>2, NextIsPresent DEF Spawn, NextStartsUp
  <2>3. CASE KubernetesStep
    BY <2>3 DEF KubernetesStep, ContainerStarts, GraceOver, PodGone, PodCreated, ContainerEnds, PodInv
  <2>4. CASE GameServes \/ GameEnds \/ BotsChange BY <2>4 DEF GameServes, GameEnds, BotsChange, Up
  <2>5. ASSUME NEW h \in People, Join(h) \/ Leave(h)
        PROVE  applied' = applied /\ release' = release /\ game' = game
    BY <2>5 DEF Join, Leave
  <2> QED BY <2>1, <2>2, <2>3, <2>4, <2>5 DEF Serve, LauncherStep
<1> QED BY <1>1, <1>2, <1>3 DEF DeployedInv, RolledOut, Answered, Inspected

\* So do all steps.
LEMMA DeployedNext ==
    ASSUME PodInv, ContainInv, DeployedInv, [Next]_vars PROVE DeployedInv'
<1> USE DEF DeployedInv, RolledOut, Answered, Inspected, vars, repositoryVars, serverVars, podVars,
        processVars, GoOn
<1>1. UNCHANGED <<files, modes>> => (NextStartsUp' <=> NextStartsUp) BY DEF NextStartsUp
<1>2. CASE Work BY <1>2 DEF Work, workflowVars, ContainInv
<1>3. CASE Serve BY <1>3, DeployedServe
<1>4. CASE Network \/ RestartElsewhere \/ UNCHANGED vars
  BY <1>1, <1>4 DEF Network, RestartElsewhere, Replace, workflowVars
<1>5. CASE Gate1 BY <1>1, <1>5 DEF Gate1
<1>6. CASE Guard BY <1>1, <1>6 DEF Guard, GuardAsks, GuardAllows, GuardRefuses, GuardFails
<1>7. CASE Deploy BY <1>1, <1>7 DEF Deploy, Replace
<1>8. CASE RolloutDone \/ GiveUp BY <1>1, <1>8 DEF RolloutDone, GiveUp
<1>9. CASE Smoke
  BY <1>1, <1>9 DEF Smoke, SmokeAsks, SmokeAnswered, SmokeFails, SmokeInspectsPod,
     SmokeInspectsDeployment, SmokeEnds
<1> QED BY <1>2, <1>3, <1>4, <1>5, <1>6, <1>7, <1>8, <1>9 DEF Next

\* What the smoke test has been shown stays true of the deployed commit.
LEMMA ShownNext ==
    ASSUME SmokeInv, DeployedInv, ShownInv, [Next]_vars PROVE ShownInv'
<1>1. /\ UNCHANGED files => (NextStartsUp' <=> NextStartsUp)
      /\ UNCHANGED files /\ smoke'.slots = smoke.slots => (Shown' <=> Shown)
  BY DEF Shown, NextStartsUp, NextConfig
<1>2. DOMAIN smoke = {"ok", "slots", "answered", "inspected"} BY DEF SmokeInv
<1> USE DEF ShownInv, Answered, Inspected, vars, repositoryVars, GoOn
<1>3. CASE Work BY <1>3 DEF Work, workflowVars, queryVars, Infos
<1>4. CASE Serve \/ RestartElsewhere \/ UNCHANGED vars
  BY <1>1, <1>4 DEF Serve, RestartElsewhere, workflowVars, queryVars, Infos
<1>5. CASE Network /\ AnswerChallenge
  <2>1. Infos' \subseteq Infos BY <1>5 DEF AnswerChallenge, Infos, Packet
  <2> QED BY <1>1, <1>5, <2>1 DEF Network, workflowVars
<1>6. CASE Network /\ Replies
  <2>1. PICK reply \in {Packet("challenge"), Info} : wire' \subseteq wire \cup {reply}
    BY <1>6 DEF Replies
  <2>2. Infos' \subseteq Infos \cup {Info} BY <2>1 DEF Infos, Packet
  <2>3. gate = "smoke_query" => Info.shows = "next" /\ NextStartsUp
    BY <1>6 DEF Replies, Info, DeployedInv, RolledOut
  <2> QED BY <1>1, <1>6, <2>2, <2>3 DEF Network, workflowVars
<1>7. CASE Gate1 \/ Guard \/ Deploy
  BY <1>7 DEF Gate1, Guard, GuardAsks, GuardAllows, GuardRefuses, GuardFails, Deploy
<1>8. CASE RolloutDone \/ GiveUp BY <1>8 DEF RolloutDone, GiveUp
<1>9. CASE SmokeAsks BY <1>9 DEF SmokeAsks, Ask, Infos, Packet
<1>10. CASE SmokeFails BY <1>10 DEF SmokeFails
<1>11. CASE SmokeAnswered
  <2>1. PICK info \in Infos, args \in CommandLines :
          smoke' = [smoke EXCEPT !.ok = ServerInfoOk(info, args), !.slots = args.max_players,
                !.answered = [pod |-> info.pod, starts |-> info.starts]]
    BY <1>11 DEF SmokeAnswered, Receives
  <2>2. smoke'.slots = args.max_players /\ (smoke'.ok => ServerInfoOk(info, args)) BY <1>2, <2>1
  <2>3. info.shows = "next" /\ NextStartsUp /\ applied = "next"
    BY <1>11 DEF SmokeAnswered, DeployedInv, RolledOut
  <2>4. UNCHANGED files BY <1>11 DEF SmokeAnswered
  <2>5. ServerInfoOk(info, args) => Shown'
    BY <1>1, <2>2, <2>3, <2>4, NextIsPresent DEF ServerInfoOk, Shown, NextConfig
  <2> QED BY <1>11, <2>2, <2>5 DEF SmokeAnswered
<1>12. CASE SmokeInspectsPod
  <2>1. gate' = "ready" \/ ((smoke'.ok => smoke.ok) /\ smoke'.slots = smoke.slots)
    BY <1>2, <1>12 DEF SmokeInspectsPod
  <2> QED BY <1>1, <1>12, <2>1 DEF SmokeInspectsPod
<1>13. CASE SmokeInspectsDeployment
  <2>1. (smoke'.ok => smoke.ok) /\ smoke'.slots = smoke.slots
    BY <1>2, <1>13 DEF SmokeInspectsDeployment
  <2> QED BY <1>1, <1>13, <2>1 DEF SmokeInspectsDeployment
<1>14. CASE SmokeEnds BY <1>1, <1>14 DEF SmokeEnds
<1> QED
  BY <1>3, <1>4, <1>5, <1>6, <1>7, <1>8, <1>9, <1>10, <1>11, <1>12, <1>13, <1>14
  DEF Next, Network, Smoke

\* What the check has compared and what the smoke test has been shown make up
\* what is expected of a promotion.
LEMMA ShownAndPassed ==
    ASSUME Shown, Passed(files, modes), applied = "next", gate = "promoted"
    PROVE  PromotedAsExpected
<1> DEFINE env == files.deployment.env
<1>1. ModeAt(applied) = NextMode /\ At(applied).files = files /\ ConfigAt(applied) = NextConfig
  BY NextIsPresent
<1>2. /\ LaunchCommand(NextConfig).mapgroup = Or(env.MAP_GROUP, "mg_active")
      /\ LaunchCommand(NextConfig).port = Or(env.PORT, 27015)
  BY DEF LaunchCommand, NextConfig, ServerConfig
<1>3. Get(NextMode, "mapGroup", "") # "" =>
        LaunchCommand(NextConfig).mapgroup = NextMode.mapGroup
  <2>1. EnvText(files.deployment.env.MAP_GROUP, "") = Get(NextMode, "mapGroup", "")
    BY DEF Passed, ProductionChecks, ModeChecks, MapGroupMatches, NextMode
  <2>2. SUFFICES ASSUME Get(NextMode, "mapGroup", "") # ""
                 PROVE  LaunchCommand(NextConfig).mapgroup = NextMode.mapGroup
    OBVIOUS
  <2>3. Get(NextMode, "mapGroup", "") = NextMode.mapGroup BY <2>2 DEF Get
  <2>4. /\ files.deployment.env.MAP_GROUP # Unset
        /\ files.deployment.env.MAP_GROUP = Get(NextMode, "mapGroup", "")
    BY <2>1, <2>2 DEF EnvText
  <2>5. Or(files.deployment.env.MAP_GROUP, "mg_active") = files.deployment.env.MAP_GROUP
    BY <2>4 DEF Or
  <2>6. LaunchCommand(NextConfig).mapgroup = files.deployment.env.MAP_GROUP
    BY <1>2, <2>5
  <2> QED BY <2>3, <2>4, <2>6
<1>4. {LaunchCommand(NextConfig).port} = {files.service.tcp, files.service.udp}
  <2>1. env.PORT # Unset /\ env.PORT = files.service.tcp /\ env.PORT = files.service.udp
    BY DEF Passed, ProductionChecks, ServicePortMatches
  <2> QED BY <1>2, <2>1 DEF Or
<1>5. Contains(files.configmap, NextMode.displayName)
  BY DEF Passed, ProductionChecks, ModeChecks, HostnameContainsDisplay, NextMode
<1>6. Get(NextMode, "defaultMap", "") # "" => LaunchCommand(NextConfig).map = NextMode.defaultMap
  <2>1. EnvText(env.MAP, "") = Get(NextMode, "defaultMap", "")
    BY DEF Passed, ProductionChecks, ModeChecks, MapMatchesDefault, NextMode
  <2>2. LaunchCommand(NextConfig).map = Or(env.MAP, "de_mirage")
    BY DEF LaunchCommand, NextConfig, ServerConfig
  <2>3. SUFFICES ASSUME Get(NextMode, "defaultMap", "") # ""
                 PROVE  LaunchCommand(NextConfig).map = NextMode.defaultMap
    OBVIOUS
  <2>4. Get(NextMode, "defaultMap", "") = NextMode.defaultMap BY <2>3 DEF Get
  <2>5. env.MAP # Unset /\ env.MAP = Get(NextMode, "defaultMap", "") BY <2>1, <2>3 DEF EnvText
  <2> QED BY <2>2, <2>4, <2>5 DEF Or
<1> QED BY <1>1, <1>3, <1>4, <1>5, <1>6 DEF PromotedAsExpected, Shown, NextStartsUp

\* For any modes, profiles, edits by hand, interrupted generations, restarts and
\* crashes, a promotion is of a server that starts up with its mode's map, map
\* group and name, its service's ports and the slots that smoke.py was told.
THEOREM PromotionAsExpected ==
    ASSUME RepositoryAssumption PROVE Spec => []PromotedAsExpected
<1> DEFINE Inv == PodInv /\ WireInv /\ SmokeInv /\ ContainInv /\ DeployedInv /\ ShownInv
<1>1. Init => Inv
  BY DEF Init, ServerInit, QueryInit, PodInv, WireInv, Infos, SmokeInv, NoSmoke, Nothing, Commits,
     Inspected, Answered, RolledOut, ContainInv, DeployedInv, ShownInv
<1>2. Inv /\ [Next]_vars => Inv'
  BY PodNext, WireNext, SmokeNext, ContainNext, DeployedNext, ShownNext
<1>3. Inv => PromotedAsExpected
  <2>1. gate # "promoted" => PromotedAsExpected BY DEF PromotedAsExpected
  <2>2. ASSUME Inv, gate = "promoted" PROVE PromotedAsExpected
    <3>1. Shown BY <2>2 DEF ShownInv, Answered, Inspected
    <3>2. Passed(files, modes) BY <2>2 DEF ContainInv
    <3>3. applied = "next" BY <2>2 DEF DeployedInv, RolledOut, Answered, Inspected
    <3> QED BY <2>2, <3>1, <3>2, <3>3, ShownAndPassed
  <2> QED BY <2>1, <2>2
<1> QED BY <1>1, <1>2, <1>3, PTL DEF Spec
=============================================================================
