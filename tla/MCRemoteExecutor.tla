--------------------------- MODULE MCRemoteExecutor ----------------------------
(* Three jobs, interchangeable: one known, one of another client, and one  *)
(* whose schedule() failed can be in one answer.                           *)
EXTENDS RemoteExecutor, TLC

CONSTANTS j1, j2, j3

Symmetry == Permutations(Job)
================================================================================
