------------------------------ MODULE Repository ------------------------------
(***************************************************************************)
(* The files of the repository that one production server is deployed from:*)
(* its modes, its profile and its manifests, which server_generator.py     *)
(* writes one file after the other and people also edit by hand, and the   *)
(* gate they pass before a deployment (docs/runbooks/production-rollout.md:*)
(* validate_mode, plugin_manifest, server_generator --validate-only,       *)
(* production_check).                                                      *)
(***************************************************************************)
EXTENDS ProductionCheck

CONSTANTS
    Catalog,        \* plugins.yaml
    Cfgs,           \* Cfgs[name]: the files in the cfg directory of a mode
    ModeVersions,   \* ModeVersions[name]: what its mode.yaml may hold
    ProfileVersions,\* what the profile may hold
    Committed,      \* the last commit: its modes, profile and manifests
    EnvEdits,       \* <<variable, value>>: edits of the deployment by hand
    Hostnames,      \* edits of the ConfigMap by hand
    CheckerEdits,   \* edits of update-checker.yaml by hand
    MaxEdits        \* changes of the repository considered (bounds the model)

\* The last commit has passed the same gate.
ASSUME RepositoryAssumption ==
    /\ MaxEdits \in Nat
    /\ Unset # "true"
    /\ Committed.profile \in ProfileVersions
    /\ \A name \in DOMAIN Committed.modes : ValidMode(Committed.modes[name], Cfgs[name], Catalog)
    /\ ProductionChecks(Committed.files, Committed.modes)

\* What a mode.yaml may ever hold.
Versions(name) == ModeVersions[name] \cup {Committed.modes[name]}

\* Unset and NotInt stand for what no file spells: a key that is there has a
\* value, but for cache_root, which may be null.
ASSUME MarkersAssumption ==
    /\ Unset \notin Ports /\ NotInt \notin Ports
    /\ Unset \notin {"", "mg_active", "always", "/home/steam/cs2"} /\ Unset # 0
    /\ \A data \in ProfileVersions :
        /\ \A key \in DOMAIN data \ {"cache_root"} : data[key] # Unset
        /\ Profile(data).admin_steam_ids # Unset /\ Profile(data).admin_flags # Unset
        /\ Profile(data).plugin_runtime_enabled \in BOOLEAN
    /\ \A name \in DOMAIN Committed.modes : \A data \in Versions(name) :
        /\ \A key \in DOMAIN data : data[key] # Unset
        /\ Csv(PluginList(data)) # Unset

VARIABLES
    modes,          \* modes[name]: the data of configs/modes/<name>/mode.yaml
    profile,        \* the data of the server's profile
    files,          \* the manifests, by kind
    pending,        \* manifests rendered and not written yet, <<kind, content>>
    edits           \* changes since the last gate passed

repositoryVars == <<modes, profile, files, pending, edits>>

\* The order in which render_server_manifests returns the files.
Kinds == <<"configmap", "pvc", "deployment", "service">>

RepositoryInit ==
    /\ modes = Committed.modes
    /\ profile = Committed.profile
    /\ files = Committed.files
    /\ pending = <<>>
    /\ edits = 0

Edit ==
    /\ pending = <<>>
    /\ edits < MaxEdits
    /\ edits' = edits + 1

EditMode ==
    /\ Edit
    /\ \E name \in DOMAIN modes : \E data \in ModeVersions[name] :
            modes' = [modes EXCEPT ![name] = data]
    /\ UNCHANGED <<profile, files, pending>>

EditProfile ==
    /\ Edit
    /\ profile' \in ProfileVersions
    /\ UNCHANGED <<modes, files, pending>>

EditManifest ==
    /\ Edit
    /\ \/ \E e \in EnvEdits : files' = [files EXCEPT !.deployment.env[e[1]] = e[2]]
       \/ \E h \in Hostnames : files' = [files EXCEPT !.configmap = h]
       \/ \E c \in CheckerEdits : files' = [files EXCEPT !.checker = c]
    /\ UNCHANGED <<modes, profile, pending>>

\* What --validate-only verifies, and every generation first.
ProfileAccepted ==
    /\ LoadsProfile(profile)
    /\ ValidProfile(Profile(profile))
    /\ profile.mode \in DOMAIN modes
    /\ LoadsMode(modes[profile.mode])

Rendered == Render(Profile(profile), ModeSettings(modes[profile.mode]))

\* write_server_manifests: all is rendered before the first file is written.
Generate ==
    /\ Edit
    /\ ProfileAccepted
    /\ pending' = [i \in DOMAIN Kinds |-> <<Kinds[i], Rendered[Kinds[i]]>>]
    /\ UNCHANGED <<modes, profile, files>>

WriteManifest ==
    /\ pending # <<>>
    /\ files' = [files EXCEPT ![Head(pending)[1]] = Head(pending)[2]]
    /\ pending' = Tail(pending)
    /\ UNCHANGED <<modes, profile, edits>>

\* The generator is interrupted, or cannot write a file.
GenerationCut ==
    /\ pending # <<>>
    /\ pending' = <<>>
    /\ UNCHANGED <<modes, profile, files, edits>>

RepositoryStep ==
    EditMode \/ EditProfile \/ EditManifest \/ Generate \/ WriteManifest \/ GenerationCut

\* Gate 1
SourceValid ==
    /\ pending = <<>>
    /\ \A name \in DOMAIN modes : ValidMode(modes[name], Cfgs[name], Catalog)
    /\ LoadsCatalog(Catalog)
    /\ ProfileAccepted
    /\ ProductionChecks(files, modes)

-----------------------------------------------------------------------------
\* What a deployment is made of, by commit: the modes are built into the image.
Commits == {"last", "next"}
At(commit) == IF commit = "last" THEN Committed ELSE [files |-> files, modes |-> modes]

\* The mode the deployment names, as the commit has it.
ModeAt(commit) == At(commit).modes[At(commit).files.deployment.env.CS2_MODE]

ConfigAt(commit) == ServerConfig(At(commit).files.deployment.env)

-----------------------------------------------------------------------------
(* Properties *)

\* The manifests are those of the present profile and mode.
Generated ==
    /\ ProfileAccepted
    /\ \A i \in DOMAIN Kinds : files[Kinds[i]] = Rendered[Kinds[i]]

\* The environment the generator gives a container is read back by from_env as
\* what the profile and the mode declare, with one exception: a profile that
\* names no admin flags gets the default ones.
GeneratedIsUnderstood ==
    Generated =>
        LET p == Profile(profile)
            m == ModeSettings(modes[profile.mode])
            c == ServerConfig(files.deployment.env)
        IN  /\ c.server_id = p.server_id /\ c.mode = p.mode /\ c.port = p.port
            /\ c.map = (IF p.map = "" THEN m.default_map ELSE p.map)
            /\ c.maxplayers = m.max_players /\ c.exec_cfg = m.exec_cfg
            /\ <<c.game_type, c.game_mode, c.map_group>> = <<m.game_type, m.game_mode, m.map_group>>
            /\ c.plugin_runtime_enabled = p.plugin_runtime_enabled
            /\ c.steam_update_policy = p.steam_update_policy
            /\ ToSet(c.disabled_plugins) = ToSet(Csv(m.disabled_plugins))
            /\ c.admin_steam_ids = p.admin_steam_ids
            /\ p.admin_flags # <<>> => c.admin_flags = p.admin_flags
            /\ [path |-> c.cache_root, claim |-> <<"cs2-node-cache", p.node>>]
                    \in files.deployment.mounts <=> p.cache_root # Unset

\* Which generated manifests the production check refuses, exactly: it insists
\* on the policy always, the plugin runtime, the platform's own image, a display
\* name with that of the mode in it, the mode's default map named in the profile
\* (an empty one is deployed as the default but annotated as empty), and a map
\* group that the mode declares itself, not by the default of load_mode_settings.
GeneratedIsAccepted ==
    Generated =>
        LET p == Profile(profile)
            mode == modes[profile.mode]
        IN  (ProductionChecks(files, modes) <=>
                /\ UpdateCheckerChecks(files.checker)
                /\ p.image.repository = "zizobg/cs2-server"
                /\ p.steam_update_policy = "always"
                /\ p.plugin_runtime_enabled
                /\ p.map = mode.defaultMap
                /\ "mapGroup" \in DOMAIN mode
                /\ mode.displayName # "" /\ Contains(p.display_name, mode.displayName))
=============================================================================
