----------------------------- MODULE MCCheckpoint -----------------------------
(* Values for the constants of Checkpoint.                                 *)
EXTENDS Checkpoint, TLC

CONSTANTS t1, t2, t3

ThreadsAlike == Permutations(Threads)
==============================================================================
