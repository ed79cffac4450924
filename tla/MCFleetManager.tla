--------------------------- MODULE MCFleetManager ---------------------------
(***************************************************************************)
(* TLC instance of FleetManager; the cfg files choose slots, missions, the *)
(* troubles that may strike and the kinds of mission that are rearmed.     *)
(***************************************************************************)
EXTENDS FleetManager
=============================================================================
