--------------------------- MODULE LaunchContract ---------------------------
(***************************************************************************)
(* What the startup of src/cs2_server/__main__.py promises of each server  *)
(* pod, with no word about volumes, manifests, caches and locks: a server  *)
(* runs exactly one published build, and with the policy "always" one no   *)
(* older than what Valve handed out when its process began.                *)
(***************************************************************************)
EXTENDS Naturals

CONSTANTS Pods, AlwaysPods, MaxBuild

VARIABLES
    latest,     \* the newest published build
    floor,      \* floor[p]: latest when p's process began, 0 before the first
    build       \* build[p]: the build whose complete files p runs, 0 if none

contractVars == <<latest, floor, build>>

Init ==
    /\ latest = 1
    /\ floor = [p \in Pods |-> 0]
    /\ build = [p \in Pods |-> 0]

\* The builds a launch of p may run.
Admissible(p) == (IF p \in AlwaysPods THEN floor[p] ELSE 1) .. latest

Begin(p) ==
    /\ build[p] = 0
    /\ floor' = [floor EXCEPT ![p] = latest]
    /\ UNCHANGED <<latest, build>>

Launch(p) ==
    /\ build[p] = 0
    /\ floor[p] # 0
    /\ \E b \in Admissible(p) : build' = [build EXCEPT ![p] = b]
    /\ UNCHANGED <<latest, floor>>

End(p) ==
    /\ build' = [build EXCEPT ![p] = 0]
    /\ UNCHANGED <<latest, floor>>

Publish ==
    /\ latest < MaxBuild
    /\ latest' = latest + 1
    /\ UNCHANGED <<floor, build>>

Next == Publish \/ \E p \in Pods : Begin(p) \/ Launch(p) \/ End(p)

Spec == Init /\ [][Next]_contractVars
=============================================================================
