--------------------------- MODULE ProductionCheck ---------------------------
(***************************************************************************)
(* src/cs2_tools/production_check.py: what the repository must satisfy     *)
(* before it is deployed.  The check reads the manifests of the one        *)
(* production server, the mode its deployment names and the update checker.*)
(*                                                                         *)
(* files: the manifests by kind, with checker the update-checker.yaml that *)
(* kustomization lists, or Unset.  modes: mode data by name.               *)
(***************************************************************************)
EXTENDS ServerManifests

\* env.get(name, "") where an empty value is written blank.
EnvText(value, blank) == IF value = Unset THEN blank ELSE value

ImagePinned(deployment) ==
    deployment.image.repository = "zizobg/cs2-server" /\ deployment.image.pinned

\* _service_port_check; a text that is no number equals no port.
ServicePortMatches(files) ==
    LET port == files.deployment.env.PORT
    IN  /\ port \notin {Unset, NotInt}
        /\ port = files.deployment.annotations.public_address.port
        /\ port = files.service.tcp
        /\ port = files.service.udp

ResourcesDeclared(deployment) ==
    {"cpu", "memory"} \subseteq deployment.requests \cap deployment.limits

SecurityContextHardened(deployment) ==
    /\ [deployment.security EXCEPT !.drop = {"ALL"}] = HardenedContext
    /\ "ALL" \in deployment.security.drop

DataPermissionRepairPresent(deployment) == deployment.repairs

-----------------------------------------------------------------------------
(* The deployment against its mode *)

\* The mode's own mapGroup, where ModeSettings has a default.
MapGroupMatches(deployment, mode) ==
    EnvText(deployment.env.MAP_GROUP, "") = Get(mode, "mapGroup", "")

\* Mutant: the annotation is not compared.
MapMatchesDefault_EnvOnly(deployment, mode) ==
    EnvText(deployment.env.MAP, "") = Get(mode, "defaultMap", "")

MapMatchesDefault(deployment, mode) ==
    /\ EnvText(deployment.env.MAP, "") = Get(mode, "defaultMap", "")
    /\ deployment.annotations.map = Get(mode, "defaultMap", "")

HostnameContainsDisplay(hostname, mode) ==
    Get(mode, "displayName", "") # "" /\ Contains(hostname, mode.displayName)

DisabledPluginsMatch(deployment, mode) ==
    EnvText(deployment.env.CS2_DISABLED_PLUGINS, <<>>) = Csv(PluginList(mode))

ModeChecks(files, modes) ==
    LET name == files.deployment.env.CS2_MODE
    IN  /\ name \in DOMAIN modes
        /\ MapGroupMatches(files.deployment, modes[name])
        /\ MapMatchesDefault(files.deployment, modes[name])
        /\ HostnameContainsDisplay(files.configmap, modes[name])
        /\ DisabledPluginsMatch(files.deployment, modes[name])

-----------------------------------------------------------------------------
(* The update checker *)

\* _verbs_for_resource
Verbs(rules, apiGroup, resource) ==
    UNION {rule.verbs : rule \in
        {r \in rules : apiGroup \in r.apiGroups /\ resource \in r.resources}}

\* The commands of the script: the patch directly behind the verification.
VerifiesBeforePatch(script) ==
    \E i \in 1 .. Len(script) - 1 :
        script[i] = "verify_manifest_ready" /\ script[i + 1] = "kubectl patch configmap"

CheckerHardened(checker) ==
    /\ checker.backoffLimit = 0
    /\ VerifiesBeforePatch(checker.script)
    /\ "watch" \in Verbs(checker.rules, "apps", "deployments")
    /\ "create" \in Verbs(checker.rules, "", "pods/exec")

UpdateCheckerChecks(checker) ==
    /\ checker # Unset
    /\ checker.schedule = "*/15 * * * *"
    /\ CheckerHardened(checker)

-----------------------------------------------------------------------------
\* run_production_checks: every check is ok.
ProductionChecks(files, modes) ==
    /\ ImagePinned(files.deployment)
    /\ files.deployment.env.STEAM_UPDATE_POLICY = "always"
    /\ files.deployment.env.ENABLE_PLUGIN_RUNTIME = "true"
    /\ ServicePortMatches(files)
    /\ ResourcesDeclared(files.deployment)
    /\ SecurityContextHardened(files.deployment)
    /\ DataPermissionRepairPresent(files.deployment)
    /\ ModeChecks(files, modes)
    /\ UpdateCheckerChecks(files.checker)
=============================================================================
