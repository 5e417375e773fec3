---------------------------- MODULE MCWorkerCycle ----------------------------
(***************************************************************************)
(* A small instance of WorkerCycle for TLC: one job whose interval is much *)
(* longer than the evaluation period, and two outbox rows, the older one   *)
(* refused by Notify for good.                                             *)
(***************************************************************************)
EXTENDS WorkerCycle

CONSTANTS j, w1

Intervals == [m \in Monitors |-> 3]
=============================================================================
