---------------------------- MODULE MCJobRunner -----------------------------
(***************************************************************************)
(* JobRunner on two use cases: two job ids for the first, one for the      *)
(* second, so that jobs of one use case follow each other, with restarts   *)
(* and faults between them, while a job of another use case is running.    *)
(***************************************************************************)
EXTENDS JobRunner

CONSTANTS u1, u2, j1, j2, j3

MCUseCase == {u1, u2}
MCJob == {j1, j2, j3}
MCUseCaseOf == [j \in MCJob |-> IF j = j3 THEN u2 ELSE u1]
=============================================================================
