---------------------------- MODULE MCStateCache ----------------------------
(***************************************************************************)
(* StateCache with one thread for the requests and two jobs, so with up to *)
(* three threads in state(): the requests can meet the start and the end   *)
(* of a job, and the second job can start while the hook of the first is   *)
(* still probing.                                                          *)
(***************************************************************************)
EXTENDS StateCache

CONSTANT r1

MCRequest == {r1}

\* The use case is turned on, then off.
MCActionOf == [j \in Job |-> IF j = 1 THEN "on" ELSE "off"]
=============================================================================
