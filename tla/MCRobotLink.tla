---------------------------- MODULE MCRobotLink ----------------------------
(* RobotLink on an instance that TLC can exhaust.                           *)
EXTENDS RobotLink
=============================================================================
