--------------------------- MODULE MCNotifyOutbox ---------------------------
(***************************************************************************)
(* A small instance of NotifyOutbox for TLC: two workers at work on two    *)
(* rows.                                                                   *)
(***************************************************************************)
EXTENDS NotifyOutbox, TLC

CONSTANTS w1, w2

\* Two workers run the same program with settings chosen alike.
WorkerSymmetry == Permutations(Workers)
=============================================================================
