---------------------------- MODULE MCTaskGroup ----------------------------
(* An instance of TaskGroup: the owner of the pool, its workers, and a few *)
(* jobs that dispatch each other in every possible tree.                   *)
EXTENDS TaskGroup
=============================================================================
