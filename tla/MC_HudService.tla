---------------------------- MODULE MC_HudService ----------------------------
(***************************************************************************)
(* Model-checking instances of HudService.                                 *)
(***************************************************************************)
EXTENDS HudService
CONSTANTS r250, r500, p1, p2

Yes(probe) == [lo |-> TRUE, probe |-> probe]
No(probe)  == [lo |-> FALSE, probe |-> probe]

\* Every configuration but the one hud-default:5-7 warns of.
SoundConfigs == {Yes("on"), Yes("off"), No("on"), No("auto"), No("off")}
=============================================================================
