---------------------------- MODULE MCTaskQueue ----------------------------
(* Small instances of TaskQueue. *)
EXTENDS TaskQueue, TLC

Symmetry == Permutations(Ids)
=============================================================================
