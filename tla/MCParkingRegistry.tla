-------------------------- MODULE MCParkingRegistry --------------------------
(* Model-checking instance of ParkingRegistry: two slots, so that a number  *)
(* can collide, two missions and two vehicles.  No symmetry: the refinement *)
(* is a temporal property.                                                  *)
EXTENDS ParkingRegistry
=============================================================================
