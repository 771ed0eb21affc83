---------------------------- MODULE MCPlanCache -----------------------------
(***************************************************************************)
(* PlanCache with two requests and one job: two outlines, two drawings, or *)
(* one of each contend for the locks, the plan file and the caches before, *)
(* while and after a job turns the use case on.                            *)
(***************************************************************************)
EXTENDS PlanCache

CONSTANTS r1, r2

MCRequest == {r1, r2}

MCActionOf == [j \in Job |-> "on"]
=============================================================================
