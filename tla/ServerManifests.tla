--------------------------- MODULE ServerManifests ---------------------------
(***************************************************************************)
(* From a server profile to a running server: src/cs2_tools/               *)
(* server_generator.py renders the manifests, src/cs2_server/config.py     *)
(* reads the environment they give the container, launcher.py turns that   *)
(* into the command line.                                                  *)
(*                                                                         *)
(* A number and its text are the same value here; NotInt is a text that is *)
(* none.  A cfg file is named without ".cfg".                              *)
(***************************************************************************)
EXTENDS ModeProfile

CONSTANTS
    Unset,          \* an environment variable or YAML value that is not there
    DnsLabels,      \* the names that are lowercase DNS labels
    AbsolutePaths   \* the paths that start with "/"

-----------------------------------------------------------------------------
(* The server profile *)
RequiredFields ==
    {"server_id", "namespace", "mode", "display_name", "map", "port",
     "public_address", "node", "image"}

ProfileDefaults ==
    [pvc_size |-> "120Gi", cache_root |-> Unset,
     cpu_request |-> "1000m", cpu_limit |-> "4000m",
     memory_request |-> "2Gi", memory_limit |-> "8Gi",
     steam_update_policy |-> "always", plugin_runtime_enabled |-> TRUE,
     admin_steam_ids |-> <<>>, admin_flags |-> <<"@css/rcon">>]

ForbiddenFields ==
    {"securityContext", "security_context", "podSecurityContext", "containerSecurityContext"}

\* load_server_profile: a forbidden, an unknown or a missing field raises.
LoadsProfile(data) ==
    /\ DOMAIN data \cap ForbiddenFields = {}
    /\ DOMAIN data \subseteq RequiredFields \cup DOMAIN ProfileDefaults
    /\ RequiredFields \subseteq DOMAIN data

NotBlank(items) == SelectSeq(items, LAMBDA item : item # "")

Profile(data) ==
    LET filled == [key \in DOMAIN data \cup DOMAIN ProfileDefaults |->
                        IF key \in DOMAIN data THEN data[key] ELSE ProfileDefaults[key]]
    IN  [filled EXCEPT !.admin_steam_ids = NotBlank(@), !.admin_flags = NotBlank(@)]

Ports == 1024 .. 65535

\* validate_server_profile.  An image is [repository, pinned], a public
\* address [host, port], with port NotInt where the regular expression fails.
ValidProfile(p) ==
    /\ {p.server_id, p.namespace} \subseteq DnsLabels
    /\ p.port \in Ports
    /\ p.image.pinned
    /\ p.public_address.port = p.port
    /\ p.cache_root # Unset => p.cache_root \in AbsolutePaths

-----------------------------------------------------------------------------
(* render_server_manifests *)
Lowered(flag) == IF flag THEN "true" ELSE "false"

OrUnset(value, blank) == IF value = blank THEN Unset ELSE value

\* Mutant: an empty map is deployed as it is.
StartMap_NoDefault(p, m) == p.map

StartMap(p, m) == IF p.map = "" THEN m.default_map ELSE p.map

\* An item of the administrators' lists is one name: from_env would split an item
\* with a comma in it, which no check of the profile excludes.
Environment(p, m) ==
    [SERVER_ID |-> p.server_id,
     CS2_MODE |-> p.mode,
     MAP |-> StartMap(p, m),
     PORT |-> p.port,
     MAXPLAYERS |-> m.max_players,
     TICKRATE |-> 128,
     EXEC |-> m.exec_cfg,
     GAME_TYPE |-> m.game_type,
     GAME_MODE |-> m.game_mode,
     MAP_GROUP |-> m.map_group,
     STEAM_UPDATE_POLICY |-> p.steam_update_policy,
     ENABLE_PLUGIN_RUNTIME |-> Lowered(p.plugin_runtime_enabled),
     CS2_ADMIN_STEAM_IDS |-> OrUnset(p.admin_steam_ids, <<>>),
     CS2_ADMIN_FLAGS |-> OrUnset(p.admin_flags, <<>>),
     CS2_DISABLED_PLUGINS |-> OrUnset(Csv(m.disabled_plugins), <<>>),
     CS2_CACHE_ROOT |-> p.cache_root]

\* The cache claim is named after the node, so that its pods share it.
Mounts(p) ==
    {[path |-> "/home/steam/cs2", claim |-> <<p.server_id, "data">>]}
    \cup IF p.cache_root = Unset THEN {}
         ELSE {[path |-> p.cache_root, claim |-> <<"cs2-node-cache", p.node>>]}

Annotations(p) ==
    [display_name |-> p.display_name, map |-> p.map, public_address |-> p.public_address]

HardenedContext ==
    [fsGroup |-> 1000, fsGroupChangePolicy |-> "OnRootMismatch", runAsUser |-> 1000,
     runAsGroup |-> 1000, allowPrivilegeEscalation |-> FALSE, drop |-> {"ALL"}]

Deployment(p, m) ==
    [node |-> p.node, image |-> p.image, env |-> Environment(p, m),
     annotations |-> Annotations(p), mounts |-> Mounts(p),
     security |-> HardenedContext, repairs |-> TRUE,
     requests |-> {"cpu", "memory"}, limits |-> {"cpu", "memory"}]

\* The four files, by kind.
Render(p, m) ==
    [configmap |-> p.display_name, pvc |-> p.pvc_size,
     deployment |-> Deployment(p, m), service |-> [tcp |-> p.port, udp |-> p.port]]

-----------------------------------------------------------------------------
(* config.py: ServerConfig.from_env *)
Or(value, default) == IF value = Unset THEN default ELSE value

\* _bool_env
Truthy(text) == text \in {"1", "true", "yes", "on"}

RequiredSecrets == {"RCON_PASSWORD", "STEAM_ACCOUNT", "API_KEY"}

\* from_env raises no ConfigError.  secrets: the keys of cs2-secrets that are
\* not blank.
StartsUp(env, secrets) ==
    /\ RequiredSecrets \subseteq secrets
    /\ NotInt \notin {env.PORT, env.MAXPLAYERS, env.TICKRATE, env.GAME_TYPE, env.GAME_MODE}

ServerConfig(env) ==
    LET mode == Or(env.CS2_MODE, "multicfg")
        flags == Or(env.CS2_ADMIN_FLAGS, <<>>)
    IN  [server_id |-> Or(env.SERVER_ID, "cs2-server"),
         mode |-> mode,
         map |-> Or(env.MAP, "de_mirage"),
         port |-> Or(env.PORT, 27015),
         maxplayers |-> Or(env.MAXPLAYERS, 24),
         tickrate |-> Or(env.TICKRATE, 128),
         exec_cfg |-> Or(env.EXEC, mode),
         game_type |-> Or(env.GAME_TYPE, 0),
         game_mode |-> Or(env.GAME_MODE, 0),
         map_group |-> Or(env.MAP_GROUP, "mg_active"),
         cache_root |-> env.CS2_CACHE_ROOT,
         steam_update_policy |-> Or(env.STEAM_UPDATE_POLICY, "always"),
         plugin_runtime_enabled |-> Truthy(Or(env.ENABLE_PLUGIN_RUNTIME, "false")),
         disabled_plugins |-> Or(env.CS2_DISABLED_PLUGINS, <<>>),
         admin_steam_ids |-> Or(env.CS2_ADMIN_STEAM_IDS, <<>>),
         admin_flags |-> IF flags = <<>> THEN <<"@css/rcon">> ELSE flags]

\* launcher.py: build_launch_command, each option with its value.
LaunchCommand(c) ==
    [tickrate |-> c.tickrate, port |-> c.port, map |-> c.map,
     maxplayers_override |-> c.maxplayers, sv_visiblemaxplayers |-> c.maxplayers,
     game_type |-> c.game_type, game_mode |-> c.game_mode,
     mapgroup |-> c.map_group, exec |-> c.exec_cfg]

\* plugin_runtime.py: the plugin folders _remove_disabled_plugins goes for.
Removed(c) ==
    IF c.plugin_runtime_enabled THEN ToSet(c.disabled_plugins) \ Slashed ELSE {}
=============================================================================
