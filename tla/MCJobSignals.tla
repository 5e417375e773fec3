---------------------------- MODULE MCJobSignals ----------------------------
(***************************************************************************)
(* Small instances of JobSignals for TLC.  The expression's occurrences    *)
(* are three ticks apart, the job is created one tick after one of them;   *)
(* a grace of one tick is below the period, one of three is not.  The      *)
(* configurations are JobSignals, JobRate and JobCron.                     *)
(***************************************************************************)
EXTENDS JobSignals, TLC

CONSTANTS c1, c2, Modes, Graces

MCSchedule == {0, 3, 6}

MCJobs ==
    [mode: Modes, created: {1}, interval: {2}, grace: Graces, runtime: {0, 2}]

\* Clients differ in nothing.
ClientSymmetry == Permutations(Clients)
=============================================================================
