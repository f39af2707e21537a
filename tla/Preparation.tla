---------------------------- MODULE Preparation ----------------------------
(***************************************************************************)
(* src/cs2_server/__main__.py between the Steam steps and the launch:      *)
(* runtime libraries, the plugin runtime and the config overlay, written   *)
(* into a tree that survives restarts, settings and images, and that the   *)
(* cache carries from one server to another.                               *)
(*                                                                         *)
(* SteamCache and SteamInstall describe the Steam steps; here each is one  *)
(* step, which a kill may cut.  Under the lock a pod is alone with the two *)
(* trees of a copy, and only its process writes its own volume, so nobody  *)
(* sees what is between the ends of such a step.                           *)
(***************************************************************************)
EXTENDS Naturals, FiniteSets, SequencesExt

CONSTANTS
    Pods, Cache,    \* the trees: one per pod, and the cache's
    MaxBuild,       \* the last build published (bounds the model)
    Plugins,        \* the plugins of any image, each a folder under plugins/
    PluginFiles,    \* the files in those folders, of any image
    Folder,         \* Folder[x]: the plugin whose folder has file x
    Bundle,         \* Bundle[i]: the plugin files in the bundle of image i
    Modes,          \* the values of CS2_MODE
    Cfgs,           \* the names of files in the cfg directories of the layers
    Layer,          \* Layer[l]: the names in layer l, a mode, "base" or "server"
    Deployed        \* Deployed[p]: the settings p is ever deployed with

Images == DOMAIN Bundle

\* What of the environment and the image the preparation depends on.
\* image 0 stands for a PLUGIN_RUNTIME_ROOT that does not exist.
Settings == [enabled : BOOLEAN, image : Images \cup {0}, disabled : SUBSET Plugins,
             mode : Modes, admins : {"none", "first", "second"}]

\* The other items of a tree: the game's binaries and the copied libraries,
\* the files the plugin runtime manages, and the manifest.
Managed == {"GameModeManager.json", "metamod_x64.vdf", "gamemodes_server.txt"}
Fixed == {"bin", "csgo_bin", "gameinfo.gi", "admins.json", "ready"} \cup Managed

\* Items are files and folders of different directories: no two are one.
ASSUME PreparationAssumption ==
    /\ MaxBuild \in Nat \ {0}
    /\ Cache \notin Pods
    /\ IsFiniteSet(PluginFiles) /\ IsFiniteSet(Cfgs)
    /\ PluginFiles \cap Cfgs = {} /\ (PluginFiles \cup Cfgs) \cap Fixed = {}
    /\ Images \subseteq Nat \ {0}
    /\ Folder \in [PluginFiles -> Plugins]
    /\ Bundle \in [Images -> SUBSET PluginFiles]
    /\ Layer \in [Modes \cup {"base", "server"} -> SUBSET Cfgs]
    /\ Deployed \in [Pods -> SUBSET Settings]

\* The files in the folders of a set of plugins.
FilesOf(plugins) == {x \in PluginFiles : Folder[x] \in plugins}

Roots == Pods \cup {Cache}
Platforms == {"linux64", "linux32"}

(* The items of a tree, in the order in which rsync walks it: the game's    *)
(* binaries ("bin", by build), the files of the plugin bundle, the copied  *)
(* libraries, the cfg directory, gameinfo.gi ("plain" as Steam ships it,   *)
(* "hooked" with the line for MetaMod, or "empty"), and the manifest,      *)
(* reduced to whether it is ready.                                         *)
Walk == <<"bin", "admins.json", "GameModeManager.json">> \o SetToSeq(PluginFiles)
        \o <<"metamod_x64.vdf", "csgo_bin">> \o SetToSeq(Cfgs)
        \o <<"gameinfo.gi", "gamemodes_server.txt", "ready">>

Items == ToSet(Walk)

Blank == [i \in Items |->
    CASE i = "ready" -> FALSE
      [] i = "gameinfo.gi" -> "plain"
      [] i \in {"bin", "csgo_bin"} \cup PluginFiles -> 0
      [] OTHER -> "none"]

VARIABLES
    latest,     \* the build Valve hands out
    tree,       \* tree[r][i]: the content of item i in tree r
    pc,         \* pc[p]: where pod p is in main()
    env,        \* env[p]: the settings of p's present process
    sdk,        \* sdk[p]: platforms SteamCMD has unpacked in p's container
    home,       \* home[p]: platforms copied to ~/.steam in p's container
    writes      \* writes[p]: the writes of the preparation that are left

vars == <<latest, tree, pc, env, sdk, home, writes>>

Places == {"down", "seed", "update", "sync", "bootstrap",
           "steamclient", "libraries", "write", "running"}

TypeOK ==
    /\ latest \in 1 .. MaxBuild
    /\ DOMAIN tree = Roots
    /\ \A r \in Roots :
        /\ DOMAIN tree[r] = Items
        /\ tree[r]["ready"] \in BOOLEAN
        /\ tree[r]["gameinfo.gi"] \in {"plain", "hooked", "empty"}
        /\ tree[r]["bin"] \in 0 .. latest /\ tree[r]["csgo_bin"] \in 0 .. latest
        /\ \A x \in PluginFiles : tree[r][x] \in Images \cup {0}
        /\ \A c \in Cfgs : tree[r][c] \in DOMAIN Layer \cup {"none"}
    /\ pc \in [Pods -> Places]
    /\ env \in [Pods -> Settings]
    /\ sdk \in [Pods -> SUBSET Platforms]
    /\ home \in [Pods -> SUBSET Platforms]
    /\ \A p \in Pods : writes[p] # <<>> => pc[p] = "write"

Init ==
    /\ latest = 1
    /\ tree = [r \in Roots |-> Blank]
    /\ pc = [p \in Pods |-> "down"]
    /\ env \in [Pods -> Settings] /\ \A p \in Pods : env[p] \in Deployed[p]
    /\ sdk = [p \in Pods |-> {}]
    /\ home = [p \in Pods |-> {}]
    /\ writes = [p \in Pods |-> <<>>]

Goto(p, place) ==
    /\ pc' = [pc EXCEPT ![p] = place]
    /\ UNCHANGED <<sdk, home, writes>>

\* The process ends, and with its container all that is not on a volume.
End(p) ==
    /\ pc' = [pc EXCEPT ![p] = "down"]
    /\ sdk' = [sdk EXCEPT ![p] = {}]
    /\ home' = [home EXCEPT ![p] = {}]
    /\ writes' = [writes EXCEPT ![p] = <<>>]

-----------------------------------------------------------------------------
(* The Steam steps *)

\* A container of the image, on the volume of the one before it.
Start(p) ==
    /\ pc[p] = "down"
    /\ \E s \in Deployed[p] : env' = [env EXCEPT ![p] = s]
    /\ Goto(p, "seed")
    /\ UNCHANGED <<latest, tree>>

\* _rsync_tree under the lock.  A copy that is cut has done a prefix of Walk.
CopyTree(p, src, dst, next) ==
    \E n \in 0 .. Len(Walk) :
        /\ tree' = [tree EXCEPT ![dst] =
                [i \in Items |-> IF i \in ToSet(SubSeq(Walk, 1, n)) THEN tree[src][i] ELSE @[i]]]
        /\ IF n = Len(Walk) THEN Goto(p, next) ELSE End(p)

Seed(p) ==
    /\ pc[p] = "seed"
    /\ IF tree[Cache]["ready"] /\ ~tree[p]["ready"]
       THEN CopyTree(p, Cache, p, "update")
       ELSE Goto(p, "update") /\ UNCHANGED tree
    /\ UNCHANGED <<latest, env>>

\* The policy may leave a ready tree alone, as SteamCMD does a current one.
\* Otherwise SteamCMD installs the latest build, whose files replace those it
\* finds changed; a run that is cut leaves the manifest not ready.
UpdateTree(p) ==
    \/ tree[p]["ready"] /\ pc' = [pc EXCEPT ![p] = "sync"] /\ UNCHANGED tree
    \/ /\ ~tree[p]["ready"] \/ tree[p]["bin"] # latest
       /\ pc' = [pc EXCEPT ![p] = "sync"]
       /\ \E info \in {"plain", tree[p]["gameinfo.gi"]} :
            tree' = [tree EXCEPT ![p]["ready"] = TRUE, ![p]["gameinfo.gi"] = info,
                                 ![p]["bin"] = latest]

\* SteamCMD, when it runs, unpacks libraries of its own.
Update(p) ==
    /\ pc[p] = "update"
    /\ UpdateTree(p)
    /\ \E unpacked \in SUBSET Platforms : sdk' = [sdk EXCEPT ![p] = unpacked]
    /\ UNCHANGED <<latest, env, home, writes>>

UpdateCut(p) ==
    /\ pc[p] = "update"
    /\ ~tree[p]["ready"] \/ tree[p]["bin"] # latest
    /\ \E info \in {"plain", tree[p]["gameinfo.gi"]} :
            tree' = [tree EXCEPT ![p]["ready"] = FALSE, ![p]["gameinfo.gi"] = info]
    /\ End(p)
    /\ UNCHANGED <<latest, env>>

Sync(p) ==
    /\ pc[p] = "sync"
    /\ IF tree[Cache]["ready"] /\ tree[Cache]["bin"] = tree[p]["bin"]
       THEN Goto(p, "bootstrap") /\ UNCHANGED tree
       ELSE CopyTree(p, p, Cache, "bootstrap")
    /\ UNCHANGED <<latest, env>>

-----------------------------------------------------------------------------
(* runtime_files.py *)

NeedsBootstrap(p) == ~(Platforms \subseteq sdk[p])

\* bootstrap_steamcmd, whose exception ends the process when SteamCMD still
\* leaves a platform out.
Bootstrap(p) ==
    /\ pc[p] = "bootstrap"
    /\ \/ ~NeedsBootstrap(p) /\ Goto(p, "steamclient")
       \/ /\ NeedsBootstrap(p)
          /\ sdk' = [sdk EXCEPT ![p] = Platforms]
          /\ pc' = [pc EXCEPT ![p] = "steamclient"]
          /\ UNCHANGED <<home, writes>>
       \/ NeedsBootstrap(p) /\ End(p)
    /\ UNCHANGED <<latest, tree, env>>

\* prepare_steamclient_libraries
Steamclient(p) ==
    /\ pc[p] = "steamclient"
    /\ home' = [home EXCEPT ![p] = sdk[p]]
    /\ pc' = [pc EXCEPT ![p] = "libraries"]
    /\ UNCHANGED <<latest, tree, env, sdk, writes>>

-----------------------------------------------------------------------------
(* The writes of PluginRuntime.apply and OverlayPlan.apply, in their order. *)
(* None looks at the tree but to skip a write of what is there already,    *)
(* except the patch of gameinfo.gi.                                        *)
To(items, value) == [k \in DOMAIN items |-> <<items[k], value>>]

\* _copy_tree brings every file of the bundle, two of the managed files with them.
\* It merges: a file that only the bundle of an earlier image has stays.
CopyBundle(s) ==
    To(SetToSeq(Bundle[s.image]), s.image)
        \o To(<<"GameModeManager.json", "metamod_x64.vdf">>, "bundled")

\* _write_css_admins leaves the file alone when no administrator is named.
WriteAdmins(s) == IF s.admins = "none" THEN <<>> ELSE To(<<"admins.json">>, s.admins)

\* rmtree of the folder, whichever images its files are from.
RemoveDisabled(s) == To(SetToSeq(FilesOf(s.disabled)), 0)

NormalizeVdf == To(<<"metamod_x64.vdf">>, "managed")

\* write_text empties the file before it writes.
PatchGameinfo == <<<<"gameinfo.gi", "empty">>, <<"gameinfo.gi", "hooked">>>>
WriteGamemodesServer == To(<<"gamemodes_server.txt">>, "managed")
WriteGamemodeManager == To(<<"GameModeManager.json">>, "managed")

\* Mutant: the disabled plugins are removed before the bundle is copied.
PluginWrites_RemoveFirst(s) ==
    IF ~s.enabled \/ s.image = 0 THEN <<>>
    ELSE RemoveDisabled(s) \o CopyBundle(s) \o NormalizeVdf \o PatchGameinfo
         \o WriteAdmins(s) \o WriteGamemodesServer \o WriteGamemodeManager

\* Nothing at all when the runtime is disabled or its source is missing.
PluginWrites(s) ==
    IF ~s.enabled \/ s.image = 0 THEN <<>>
    ELSE CopyBundle(s) \o NormalizeVdf \o PatchGameinfo
         \o WriteAdmins(s) \o WriteGamemodesServer \o WriteGamemodeManager
         \o RemoveDisabled(s)

OverlayLayer(l) == To(SetToSeq(Layer[l]), l)

\* Mutant: the layers in the opposite order.
OverlayWrites_Reversed(s) ==
    OverlayLayer("server") \o OverlayLayer(s.mode) \o OverlayLayer("base")

OverlayWrites(s) ==
    OverlayLayer("base") \o OverlayLayer(s.mode) \o OverlayLayer("server")

\* Mutant: libraries that are there are not copied again.
Libraries_OnlyMissing(p) ==
    /\ pc[p] = "libraries"
    /\ tree' = [tree EXCEPT ![p]["csgo_bin"] = IF @ = 0 THEN tree[p]["bin"] ELSE @]
    /\ writes' = [writes EXCEPT ![p] = PluginWrites(env[p]) \o OverlayWrites(env[p])]
    /\ pc' = [pc EXCEPT ![p] = "write"]
    /\ UNCHANGED <<latest, env, sdk, home>>

\* prepare_server_libraries, and the plan of the writes that follow it.
Libraries(p) ==
    /\ pc[p] = "libraries"
    /\ tree' = [tree EXCEPT ![p]["csgo_bin"] = tree[p]["bin"]]
    /\ writes' = [writes EXCEPT ![p] = PluginWrites(env[p]) \o OverlayWrites(env[p])]
    /\ pc' = [pc EXCEPT ![p] = "write"]
    /\ UNCHANGED <<latest, env, sdk, home>>

\* A file with the hook in it, or without a line to put it behind, is left alone.
LeavesGameinfo(p) == Head(writes[p]) = PatchGameinfo[1] /\ tree[p]["gameinfo.gi"] # "plain"

SkipPatch(p) ==
    /\ pc[p] = "write"
    /\ writes[p] # <<>> /\ LeavesGameinfo(p)
    /\ writes' = [writes EXCEPT ![p] = Tail(Tail(@))]
    /\ UNCHANGED <<latest, tree, pc, env, sdk, home>>

Write(p) ==
    /\ pc[p] = "write"
    /\ writes[p] # <<>> /\ ~LeavesGameinfo(p)
    /\ tree' = [tree EXCEPT ![p][Head(writes[p])[1]] = Head(writes[p])[2]]
    /\ writes' = [writes EXCEPT ![p] = Tail(@)]
    /\ UNCHANGED <<latest, pc, env, sdk, home>>

\* Mutant: the game server is started before the overlay is complete.
Launch_Early(p) ==
    /\ pc[p] = "write"
    /\ Goto(p, "running")
    /\ UNCHANGED <<latest, tree, env>>

\* Popen of the game server.
Launch(p) ==
    /\ pc[p] = "write"
    /\ writes[p] = <<>>
    /\ Goto(p, "running")
    /\ UNCHANGED <<latest, tree, env>>

-----------------------------------------------------------------------------
\* The container is killed between two steps, or its game server ends.
Killed(p) ==
    /\ pc[p] # "down"
    /\ End(p)
    /\ UNCHANGED <<latest, tree, env>>

Release ==
    /\ latest < MaxBuild
    /\ latest' = latest + 1
    /\ UNCHANGED <<tree, pc, env, sdk, home, writes>>

Prepare(p) ==
    Bootstrap(p) \/ Steamclient(p) \/ Libraries(p) \/ SkipPatch(p) \/ Write(p) \/ Launch(p)

Next ==
    \/ Release
    \/ \E p \in Pods :
        Start(p) \/ Seed(p) \/ Update(p) \/ UpdateCut(p) \/ Sync(p) \/ Prepare(p) \/ Killed(p)

Spec == Init /\ [][Next]_vars

-----------------------------------------------------------------------------
(* Properties of what a running server finds in its tree, whatever earlier *)
(* starts with other settings and images, cut starts, updates and seeds    *)
(* left there.                                                             *)
Running(p) == pc[p] = "running"

\* Containment (docs/runbooks/server-generator.md:126, "copies the pinned plugin
\* bundle, then removes these plugin folders"): with the runtime enabled, MetaMod
\* is hooked in, every file of the image's bundle is there from this image, but
\* for the disabled plugins, of which no file is left, be it one of an earlier
\* image that the copy of this image's bundle does not replace.  The exception
\* is a gameinfo.gi that a start killed inside its write left empty: later
\* starts, and servers seeded from this one, leave it so.
PluginsAsDeclared ==
    \A p \in Pods : Running(p) /\ env[p].enabled /\ env[p].image # 0 =>
        /\ tree[p]["gameinfo.gi"] \in {"hooked", "empty"}
        /\ \A x \in Bundle[env[p].image] \ FilesOf(env[p].disabled) : tree[p][x] = env[p].image
        /\ \A x \in FilesOf(env[p].disabled) : tree[p][x] = 0
        /\ \A i \in Managed : tree[p][i] = "managed"
        /\ env[p].admins # "none" => tree[p]["admins.json"] = env[p].admins

\* Every cfg file has the content of the most specific layer that has it:
\* "base + mode + server" (README.md:27).
MostSpecificCfg ==
    \A p \in Pods : Running(p) => \A c \in Cfgs :
        LET covering == {l \in {"base", env[p].mode, "server"} : c \in Layer[l]} IN
            covering # {} => tree[p][c] =
                IF "server" \in covering THEN "server"
                ELSE IF env[p].mode \in covering THEN env[p].mode ELSE "base"

\* The server loads libraries of the build it runs, and finds the Steam client
\* of both platforms, also after an update under libraries that were there.
LibrariesOfTheBuild ==
    \A p \in Pods : Running(p) => tree[p]["csgo_bin"] = tree[p]["bin"] /\ home[p] = Platforms

\* "Plugin runtime is disabled unless this env var is set on a server
\* Deployment" (docs/runbooks/minimal-plugin-runtime.md:24): a pod that was
\* never deployed with it runs without MetaMod and without any plugin.
NeverEnabledIsPluginFree ==
    \A p \in Pods : Running(p) /\ (\A s \in Deployed[p] : ~s.enabled) =>
        tree[p]["gameinfo.gi"] # "hooked" /\ \A x \in PluginFiles : tree[p][x] = 0
=============================================================================
