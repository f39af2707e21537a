------------------------------ MODULE MCRollout ------------------------------
(* A small instance of Rollout for TLC: one production server with the mode *)
(* "dm", after configs/modes/all-weapons-dm, and as the other "cfg", after  *)
(* configs/modes/multicfg, which declares no mapGroup.                      *)
EXTENDS Rollout

CONSTANT h1

Flags == <<"@css/rcon", "@css/root">>

DmMode == [name |-> "dm", displayName |-> "DM", defaultMap |-> "de_mirage", exec |-> "dm",
           maxPlayers |-> 24, gameType |-> 1, gameMode |-> 2, mapGroup |-> "mg_dm",
           enabled |-> {"cs2rcon"}, disabledRuntime |-> <<<<"Admin">>, <<>>, <<"Menu", "Votes">>>>]
UnsafeMode == [DmMode EXCEPT !.disabledRuntime = <<<<"Admin">>, <<"../Menu">>>>]
SmallerMode == [DmMode EXCEPT !.maxPlayers = 10]
CfgMode == [name |-> "cfg", displayName |-> "Cfg", defaultMap |-> "de_mirage", exec |-> "cfg",
            maxPlayers |-> 24, enabled |-> {"cs2rcon"}]

MCModes == [dm |-> {DmMode, UnsafeMode, SmallerMode}, cfg |-> {CfgMode}]
MCCfgs == [dm |-> {"dm", "autoexec"}, cfg |-> {"cfg"}]

Rcon == [displayName |-> "CS2 Rcon", phase |-> "enabled", loader |-> "metamod",
         enabledByDefault |-> TRUE, source |-> "release", version |-> 1,
         sha256 |-> "hex", entrypoint |-> "cs2rcon"]
MCCatalog == [cs2rcon |-> Rcon, menu |-> [Rcon EXCEPT !.phase = "disabled"]]

DmProfile == [server_id |-> "staging", namespace |-> "servers", mode |-> "dm",
              display_name |-> <<"ZIZO", "DM">>, map |-> "de_mirage", port |-> 26001,
              public_address |-> [host |-> "zizo", port |-> 26001], node |-> "slave5",
              image |-> [repository |-> "zizobg/cs2-server", pinned |-> TRUE],
              admin_steam_ids |-> <<"7656", "">>, admin_flags |-> Flags]
MCProfiles ==
    {DmProfile,
     [DmProfile EXCEPT !.map = "", !.admin_flags = <<>>] @@ [cache_root |-> "/cache"],
     [DmProfile EXCEPT !.mode = "cfg", !.display_name = <<"ZIZO", "Cfg">>, !.port = 26002,
                       !.public_address.port = 26002] @@ [plugin_runtime_enabled |-> FALSE],
     DmProfile @@ [securityContext |-> "root"]}

Rule(group, resource, verbs) == [apiGroups |-> {group}, resources |-> {resource}, verbs |-> verbs]
MCChecker == [schedule |-> "*/15 * * * *", backoffLimit |-> 0,
              script |-> <<"kubectl rollout status", "verify_manifest_ready", "kubectl patch configmap">>,
              rules |-> {Rule("apps", "deployments", {"get", "patch", "watch"}),
                         Rule("", "pods/exec", {"create"})}]

MCCommitted == [files |-> Render(Profile(DmProfile), ModeSettings(DmMode)) @@ [checker |-> MCChecker],
                modes |-> [dm |-> DmMode, cfg |-> CfgMode], profile |-> DmProfile]

MCEnvEdits ==
    {<<"PORT", NotInt>>, <<"CS2_DISABLED_PLUGINS", Unset>>,
     <<"ENABLE_PLUGIN_RUNTIME", "1">>, <<"MAP", "de_inferno">>}
MCHostnames == {<<"ZIZO">>}
MCCheckerEdits == {[MCChecker EXCEPT !.script = <<"kubectl patch configmap", "verify_manifest_ready">>]}
=============================================================================
