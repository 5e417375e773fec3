--------------------------- MODULE MCMonitorEngine --------------------------
(***************************************************************************)
(* Small instances of MonitorEngine for TLC; the values of the constants   *)
(* are in the configurations EngineRaces, EngineSerial, EngineWindow and   *)
(* EngineJob.                                                              *)
(***************************************************************************)
EXTENDS MonitorEngine, TLC

CONSTANTS m1, m2
=============================================================================
