---------------------------- MODULE MCBatchUpdater ----------------------------
(* Instances of BatchUpdater for TLC: two rows, a debit and a credit of      *)
(* different sizes, so that no combination of drops and repeats cancels out. *)
EXTENDS BatchUpdater

CONSTANTS r1, r2

MCIds == {r1, r2}
MCDeltas == {-1, 3}
===============================================================================
