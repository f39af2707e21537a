---------------------------- MODULE ModeProfile ----------------------------
(***************************************************************************)
(* The mode profile (configs/modes/<mode>/mode.yaml) and the plugin        *)
(* catalog (plugins/plugins.yaml) as the tools of src/cs2_tools read them: *)
(* mode_settings.py, validate_mode.py, plugin_manifest.py.                 *)
(*                                                                         *)
(* A YAML map is a function whose domain is the set of keys it has.  An    *)
(* item of a list of plugin names is the sequence of the names that its    *)
(* text holds between commas: <<>> is blank, <<x>> the plain name x.  A    *)
(* comma-separated text is a sequence of names in the same way.            *)
(***************************************************************************)
EXTENDS Naturals, SequencesExt

CONSTANTS
    NotInt,         \* a value that int() does not take
    Slashed,        \* the plugin names with "/" or ".." in them
    Backslashed     \* the plugin names with "\" in them

Get(data, key, default) == IF key \in DOMAIN data THEN data[key] ELSE default

\* ",".join
Csv(items) == FlattenSeq(items)

-----------------------------------------------------------------------------
(* mode_settings.py *)
ModeKeys == {"name", "displayName", "defaultMap", "exec", "maxPlayers"}

\* load_mode_settings raises nothing.
LoadsMode(data) ==
    /\ ModeKeys \subseteq DOMAIN data
    /\ NotInt \notin {data.maxPlayers, Get(data, "gameType", 0), Get(data, "gameMode", 0)}

\* _plugin_list: stripped, and without the blank ones.
PluginList(data) ==
    SelectSeq(Get(data, "disabledRuntime", <<>>), LAMBDA item : item # <<>>)

ModeSettings(data) ==
    [display_name |-> data.displayName,
     default_map |-> data.defaultMap,
     exec_cfg |-> data.exec,
     max_players |-> data.maxPlayers,
     game_type |-> Get(data, "gameType", 0),
     game_mode |-> Get(data, "gameMode", 0),
     map_group |-> Get(data, "mapGroup", "mg_active"),
     disabled_plugins |-> PluginList(data)]

-----------------------------------------------------------------------------
(* plugin_manifest.py *)
Phases == {"planned", "disabled", "staged", "enabled"}
Loaders == {"counterstrikesharp", "metamod", "native", "config-only"}
PluginKeys == {"displayName", "phase", "loader", "enabledByDefault",
               "source", "version", "sha256", "entrypoint"}

\* _parse_plugin raises nothing; "hex" stands for 64 lowercase hex characters.
ParsesPlugin(raw) ==
    /\ PluginKeys \subseteq DOMAIN raw
    /\ raw.phase \in Phases
    /\ raw.loader \in Loaders
    /\ raw.sha256 = "hex"

\* One bad entry makes the whole catalog unusable.
LoadsCatalog(catalog) == \A name \in DOMAIN catalog : ParsesPlugin(catalog[name])

-----------------------------------------------------------------------------
(* validate_mode.py *)
BannedDefaultPlugins ==
    {"InventorySimulator", "GameCMS", "GameCMS.ORG", "DiscordStatus", "Ranks", "[Ranks] Core"}

\* The catalog is read only when the mode enables something.
ValidPlugins(enabled, catalog) ==
    enabled # {} =>
        /\ LoadsCatalog(catalog)
        /\ \A name \in enabled : name \in DOMAIN catalog /\ catalog[name].phase # "disabled"

\* Mutant: the forward slash is not looked for.
SafeDisabled_BackslashOnly(data) ==
    \A name \in ToSet(Csv(PluginList(data))) : name \notin Backslashed

\* _validate_disabled_runtime_plugins
SafeDisabled(data) ==
    \A name \in ToSet(Csv(PluginList(data))) : name \notin Slashed \cup Backslashed

\* cfgs: the files in the cfg directory beside mode.yaml.
ValidMode(data, cfgs, catalog) ==
    /\ ModeKeys \subseteq DOMAIN data /\ data.maxPlayers # NotInt
    /\ data.exec \in cfgs
    /\ Get(data, "enabled", {}) \cap BannedDefaultPlugins = {}
    /\ ValidPlugins(Get(data, "enabled", {}), catalog)
    /\ SafeDisabled(data)
=============================================================================
