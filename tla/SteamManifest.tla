--------------------------- MODULE SteamManifest ---------------------------
(***************************************************************************)
(* The Steam appmanifest (steamapps/appmanifest_730.acf) as the server     *)
(* runtime reads it, src/cs2_server/manifest.py.                           *)
(*                                                                         *)
(* Only the four keys that read() extracts are kept.  A key that the file  *)
(* does not hold, or holds with an empty value, is Absent; so is a whole   *)
(* manifest that does not exist.                                           *)
(***************************************************************************)
EXTENDS Naturals

CONSTANTS
    MaxBuild,   \* the last build id Valve publishes (bounds the model)
    Absent      \* a missing key, a missing manifest, a missing file's build

ASSUME MaxBuildAssumption == MaxBuild \in Nat \ {0}

Builds == 1 .. MaxBuild

\* "0" is a build id SteamCMD writes, for an install that never completed.
BuildIds == 0 .. MaxBuild

\* UpdateResult: 0 is success, any other value an error code.
Results == {0, 1}

\* StateFlags: 4 is fully installed, 6 has an update required.
Flags == {4, 6}

\* The manifests SteamCMD writes: all keys present.
Manifests == [build : BuildIds, target : BuildIds, flags : Flags, result : Results]

ASSUME AbsentAssumption == Absent \notin Nat /\ Absent \notin Manifests

MaybeManifests == Manifests \cup {Absent}

(* SteamManifest.is_ready *)
IsReady(m) ==
    /\ m.build \notin {Absent, 0}
    /\ m.target \notin {Absent, 0}
    /\ m.build = m.target
    /\ m.result \in {Absent, 0}

\* Mutant: needs_repair without the exception for buildid 0.
NeedsRepair_DropsFirstInstall(m) ==
    Absent \notin {m.build, m.target} /\ m.build # m.target

(* SteamManifest.needs_repair *)
NeedsRepair(m) ==
    /\ Absent \notin {m.build, m.target}
    /\ ~(m.build = 0 /\ m.target # 0)
    /\ m.build # m.target

(* manifest_path.exists() and SteamManifest.read(manifest_path).is_ready *)
ReadyOnDisk(m) == m # Absent /\ IsReady(m)
=============================================================================
