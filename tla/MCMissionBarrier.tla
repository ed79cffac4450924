-------------------------- MODULE MCMissionBarrier --------------------------
(* Model-checking instance of MissionBarrier: the runs differ in how many   *)
(* missions follow each other, in what may strike and in what is asked.     *)
EXTENDS MissionBarrier
=============================================================================
