---------------------------- MODULE SteamInstall ----------------------------
(***************************************************************************)
(* src/cs2_server/steam.py: deciding on the state of the server's manifest *)
(* whether to repair it and whether to run SteamCMD, and running it.       *)
(*                                                                         *)
(* SteamCMD itself is not part of the repository.  It is modelled from how *)
(* the runtime and its runbooks use it: app_update without "validate"      *)
(* trusts a ready manifest at the latest build; otherwise it announces the *)
(* target in the manifest, downloads every file into                       *)
(* steamapps/downloading/730, installs them one by one, and only then      *)
(* writes a manifest whose buildid is the target.                          *)
(***************************************************************************)
EXTENDS SteamTrees

(* plan_update, the branch each answer leads to.                           *)
\* reason "stale_manifest"
RepairPlanned(p) == manifest[p] # Absent /\ ~IsReady(manifest[p]) /\ NeedsRepair(manifest[p])

\* Mutants: the policy is ignored; a manifest that exists passes for ready.
NothingPlanned_NoPolicy(p) == ReadyOnDisk(manifest[p])
NothingPlanned_NotReady(p) == manifest[p] # Absent /\ p \notin AlwaysPods

\* reason "already_ready": the one answer with run_update=False
NothingPlanned(p) == ReadyOnDisk(manifest[p]) /\ p \notin AlwaysPods

PlanUpdate(p) ==
    /\ pc[p] = "plan_update"
    /\ \/ RepairPlanned(p) /\ Goto(p, "unlink")
       \/ NothingPlanned(p) /\ Goto(p, "plan_sync")
       \/ ~RepairPlanned(p) /\ ~NothingPlanned(p) /\ Goto(p, "steamcmd")
    /\ UNCHANGED <<latest, trees, lock, todo, floor>>

(* repair_stale_state: the manifest first, then the two work directories.  *)
\* Mutant: the manifest is emptied instead of unlinked.
UnlinkManifest_Truncates(p) ==
    /\ pc[p] = "unlink"
    /\ manifest' = [manifest EXCEPT ![p] =
            [build |-> Absent, target |-> Absent, flags |-> Absent, result |-> Absent]]
    /\ Goto(p, "clear")
    /\ UNCHANGED <<latest, files, staged, lock, todo, floor>>

UnlinkManifest(p) ==
    /\ pc[p] = "unlink"
    /\ manifest' = [manifest EXCEPT ![p] = Absent]
    /\ Goto(p, "clear")
    /\ UNCHANGED <<latest, files, staged, lock, todo, floor>>

ClearWorkDirs(p) ==
    /\ pc[p] = "clear"
    /\ staged' = [staged EXCEPT ![p] = {}]
    /\ Goto(p, "steamcmd")
    /\ UNCHANGED <<latest, files, manifest, lock, todo, floor>>

-----------------------------------------------------------------------------
(* subprocess.run(update_command(), check=True) *)

UpToDate(p) == ReadyOnDisk(manifest[p]) /\ manifest[p].build = latest

SteamUpToDate(p) ==
    /\ pc[p] = "steamcmd"
    /\ UpToDate(p)
    /\ Goto(p, "plan_sync")
    /\ UNCHANGED <<latest, trees, lock, todo, floor>>

\* A download for the same target is resumed, any other is dropped.
SteamBegins(p) ==
    /\ pc[p] = "steamcmd"
    /\ ~UpToDate(p)
    /\ LET m == manifest[p] IN
        /\ manifest' = [manifest EXCEPT ![p] =
                [build |-> IF m = Absent THEN 0 ELSE m.build,
                 target |-> latest, flags |-> 6, result |-> 1]]
        /\ staged' = [staged EXCEPT ![p] =
                IF m # Absent /\ m.target = latest THEN @ ELSE {}]
    /\ Goto(p, "fetch")
    /\ UNCHANGED <<latest, files, lock, todo, floor>>

SteamDownloads(p) ==
    /\ pc[p] = "fetch"
    /\ \E f \in Files \ staged[p] : staged' = [staged EXCEPT ![p] = @ \cup {f}]
    /\ UNCHANGED <<latest, files, manifest, lock, pc, todo, floor>>

SteamInstalls(p) ==
    /\ pc[p] = "fetch"
    /\ staged[p] = Files
    /\ \E f \in Files :
        /\ files[p][f] # manifest[p].target
        /\ files' = [files EXCEPT ![p][f] = manifest[p].target]
    /\ UNCHANGED <<latest, manifest, staged, lock, pc, todo, floor>>

SteamFinishes(p) ==
    /\ pc[p] = "fetch"
    /\ staged[p] = Files
    /\ Whole(p, manifest[p].target)
    /\ manifest' = [manifest EXCEPT ![p] =
            [build |-> @.target, target |-> @.target, flags |-> 4, result |-> 0]]
    /\ staged' = [staged EXCEPT ![p] = {}]
    /\ Goto(p, "plan_sync")
    /\ UNCHANGED <<latest, files, lock, todo, floor>>

InstallStep(p) ==
    \/ PlanUpdate(p) \/ UnlinkManifest(p) \/ ClearWorkDirs(p)
    \/ SteamUpToDate(p) \/ SteamBegins(p)
    \/ SteamDownloads(p) \/ SteamInstalls(p) \/ SteamFinishes(p)
=============================================================================
