--------------------------- MODULE MCPreparation ---------------------------
(* Small instances of Preparation for TLC: an image upgrade that adds a    *)
(* plugin and renames a file of the one that both have, and two modes over *)
(* a base, one of which overrides all of it.                               *)
EXTENDS Preparation

CONSTANTS p1, p2, rcon, menu

MCFolder == "menu.dll" :> menu @@ "old_menu.dll" :> menu @@ "rcon.dll" :> rcon
MCPluginFiles == DOMAIN MCFolder
MCBundle == 1 :> {"old_menu.dll"} @@ 2 :> {"menu.dll", "rcon.dll"}
MCModes == {"retake", "multicfg"}
MCCfgs == {"autoexec.cfg", "server.cfg"}
MCLayer == "base" :> MCCfgs @@ "retake" :> MCCfgs
           @@ "multicfg" :> {"server.cfg"} @@ "server" :> {"server.cfg"}

Plain == [enabled |-> FALSE, image |-> 1, disabled |-> {}, mode |-> "multicfg", admins |-> "none"]

\* One server over its life: plain, with the bundle of the first image, with
\* that of the second and a plugin contained.
Plugged == [Plain EXCEPT !.enabled = TRUE, !.admins = "first"]
Contained == [Plugged EXCEPT !.image = 2, !.disabled = {menu}, !.mode = "retake"]
OneServer == p1 :> {Plain, Plugged, Contained}

\* Two servers of one node, one of which never has plugins.
TwoServers == p1 :> {Plugged} @@ p2 :> {Plain}
=============================================================================
