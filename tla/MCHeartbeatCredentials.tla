----------------------- MODULE MCHeartbeatCredentials -----------------------
(***************************************************************************)
(* A small instance of HeartbeatCredentials for TLC: two requests, one     *)
(* edit, a legacy secret or a first one and its rotations.                 *)
(***************************************************************************)
EXTENDS HeartbeatCredentials, TLC

CONSTANTS c1, c2

\* Requests differ in nothing.
SenderSymmetry == Permutations(Senders)
=============================================================================
