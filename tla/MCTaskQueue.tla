----------------------------- MODULE MCTaskQueue -----------------------------
(* Instances of TaskQueue for TLC. *)
EXTENDS TaskQueue

CONSTANTS merge, delete, scan, upload, w1, w2, r1, r2

\* A batch delete takes two turns, every other job one.
MCTurns == [j \in Jobs |-> IF j \in BatchDeletes THEN 2 ELSE 1]
=============================================================================
