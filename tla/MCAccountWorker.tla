-------------------------- MODULE MCAccountWorker --------------------------
(* Small instances of AccountWorker for TLC. *)
EXTENDS AccountWorker, TLC

CONSTANTS w1, w2, a1

\* A single thread.
Alone == (w1 :> a1)

Threads == Permutations({w1, w2})
============================================================================
