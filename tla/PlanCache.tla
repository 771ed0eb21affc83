------------------------------ MODULE PlanCache -----------------------------
(***************************************************************************)
(* Engine.plan() and Engine.topology() of app/usecases/engine.py for one   *)
(* use case: the plan caches (one `tofu plan` per action feeds the outline *)
(* and, for ON, the planned drawing), the cache of the drawing, the locks  *)
(* per action and per drawing, and the plan file that `tofu plan` writes,  *)
(* `tofu show` reads and the finally block deletes.                        *)
(*                                                                         *)
(* topology() asks state() first (module StateCache); here state() says    *)
(* either "draw the plan" or "draw the inventory".  `tofu plan` and        *)
(* `tofu show` may fail.  The provider is connected and the checkout       *)
(* prepared.  POST /refresh, which drops every entry, is as many Expires.  *)
(***************************************************************************)
EXTENDS UseCaseJobs

CONSTANTS Request,    \* HTTP requests, each handled once
          NoOne       \* nobody holds the lock, no plan file

ASSUME PlanAssumption == /\ MaxJobs \in Nat
                         /\ ActionOf \in [Job -> Action]
                         /\ NoOne \notin Request

Key == Action \cup {"topology"}    \* the caches, and their locks

VARIABLES
    cache,      \* _plan_cache[id, action] and _topology_cache[id]
    lock,       \* _outline_lock(id, key): who holds it
    planFile,   \* .switchboard-<action>.tfplan: whose plan it is
    pc, req,    \* where each thread is, and its locals
    crossed     \* history: see Watch

vars == <<jobVars, cache, lock, planFile, pc, req, crossed>>

Entry == [kind : {"none", "plan", "failed", "inventory", "job"}, world : World,
          crossed : BOOLEAN]
Missing == [kind |-> "none", world |-> AtFirst, crossed |-> FALSE]
Of(kind) == [Missing EXCEPT !.kind = kind]

Locals == [op : {"none", "outline", "topology"}, act : Action, refresh : BOOLEAN, held : Entry]
Idle == [op |-> "none", act |-> "on", refresh |-> FALSE, held |-> Missing]

InPlan == {"check", "lock", "cache", "plan", "show", "unlink", "store"}
InTopology == {"topo_lock", "topo_cache", "state", "topo_check", "topo_store"}

TypeOK ==
    /\ JobsTypeOK
    /\ cache \in [Key -> Entry]
    /\ lock \in [Key -> Request \cup {NoOne}]
    /\ planFile \in [Action -> Request \cup {NoOne}]
    /\ pc \in [Request -> InPlan \cup InTopology \cup {"new", "done"}]
    /\ req \in [Request -> Locals]
    /\ crossed \in [Request -> BOOLEAN]

Init ==
    /\ JobsInit
    /\ cache = [k \in Key |-> Missing]
    /\ lock = [k \in Key |-> NoOne]
    /\ planFile = [a \in Action |-> NoOne]
    /\ pc = [r \in Request |-> "new"]
    /\ req = [r \in Request |-> Idle]
    /\ crossed = [r \in Request |-> FALSE]

Goto(r, from, to) == /\ pc[r] = from
                     /\ pc' = [pc EXCEPT ![r] = to]

Acquire(r, k) == /\ lock[k] = NoOne
                 /\ lock' = [lock EXCEPT ![k] = r]

Release(k) == lock' = [lock EXCEPT ![k] = NoOne]

Holds(r, entry) == req' = [req EXCEPT ![r].held = entry]

Fresh(r, k) == cache[k].kind # "none" /\ ~req[r].refresh

Store(r, k) == cache' = [cache EXCEPT ![k] = [req[r].held EXCEPT !.crossed = @ \/ crossed[r]]]

-----------------------------------------------------------------------------
(* start_job() and _after_job().                                           *)

Invalidate == cache' = [k \in Key |-> Missing]

JobStarts(j) == StartJob(j) /\ UNCHANGED <<cache, lock, planFile, pc, req>>

JobWorks(j) == Work(j) /\ UNCHANGED <<cache, lock, planFile, pc, req>>

StartInvalidate == Posted /\ Invalidate /\ UNCHANGED <<lock, planFile, pc, req>>

\* Mutant: invalidate() drops the plans and forgets the drawing.
HookKeepsDrawing(j) ==
    /\ Hook(j)
    /\ cache' = [k \in Key |-> IF k = "topology" THEN cache[k] ELSE Missing]
    /\ UNCHANGED <<lock, planFile, pc, req>>

HookInvalidate(j) == Hook(j) /\ Invalidate /\ UNCHANGED <<lock, planFile, pc, req>>

-----------------------------------------------------------------------------
Arrive(r) ==
    /\ \/ \E a \in Action :
             /\ Goto(r, "new", "check")
             /\ req' = [req EXCEPT ![r].op = "outline", ![r].act = a]
       \/ \E again \in BOOLEAN :
             /\ Goto(r, "new", "topo_lock")
             /\ req' = [req EXCEPT ![r].op = "topology", ![r].refresh = again]
    /\ UNCHANGED <<jobVars, cache, lock, planFile>>

-----------------------------------------------------------------------------
(* plan().                                                                 *)

\* What plan() returns goes to the outline's reader or into the drawing.
Return(r, from, entry) ==
    IF req[r].op = "topology"
    THEN Goto(r, from, "topo_store") /\ Holds(r, entry)
    ELSE Goto(r, from, "done") /\ req' = [req EXCEPT ![r] = Idle]

\* 409; a drawing is empty and says why.
Refuse(r) ==
    /\ slot # NoJob
    /\ Return(r, "check", Of("job"))
    /\ UNCHANGED <<jobVars, cache, lock, planFile>>

Allow(r) ==
    /\ slot = NoJob
    /\ Goto(r, "check", "lock")
    /\ UNCHANGED <<jobVars, cache, lock, planFile, req>>

\* Mutant: no lock per action.
LockNothing(r) ==
    /\ Goto(r, "lock", "cache")
    /\ UNCHANGED <<jobVars, cache, lock, planFile, req>>

LockPlan(r) ==
    /\ Goto(r, "lock", "cache")
    /\ Acquire(r, req[r].act)
    /\ UNCHANGED <<jobVars, cache, planFile, req>>

Hit(r) ==
    /\ Fresh(r, req[r].act)
    /\ Return(r, "cache", cache[req[r].act])
    /\ Release(req[r].act)
    /\ UNCHANGED <<jobVars, cache, planFile>>

Miss(r) ==
    /\ ~Fresh(r, req[r].act)
    /\ Goto(r, "cache", "plan")
    /\ UNCHANGED <<jobVars, cache, lock, planFile, req>>

\* `tofu plan -out`, which reads the world.
Plan(r) ==
    /\ Goto(r, "plan", IF req[r].act = "on" THEN "show" ELSE "unlink")
    /\ planFile' = [planFile EXCEPT ![req[r].act] = r]
    /\ Holds(r, [Of("plan") EXCEPT !.world = world])
    /\ UNCHANGED <<jobVars, cache, lock>>

\* Mutant: a failure is held under a name that nothing reads.
PlanFailsUnknown(r) ==
    /\ Goto(r, "plan", "unlink")
    /\ Holds(r, Of("error"))
    /\ UNCHANGED <<jobVars, cache, lock, planFile>>

PlanFails(r) ==
    /\ Goto(r, "plan", "unlink")
    /\ Holds(r, Of("failed"))
    /\ UNCHANGED <<jobVars, cache, lock, planFile>>

\* `tofu show`; its failure is part of the result.
Show(r) ==
    /\ Goto(r, "show", "unlink")
    /\ UNCHANGED <<jobVars, cache, lock, planFile, req>>

\* The finally block.  The `tofu state list` that follows a good plan is for
\* the outline's "unchanged" lines only.
Unlink(r) ==
    /\ Goto(r, "unlink", "store")
    /\ planFile' = [planFile EXCEPT ![req[r].act] = NoOne]
    /\ UNCHANGED <<jobVars, cache, lock, req>>

\* Mutant: the lock is not given back after a failed plan.
StorePlanKeepsLock(r) ==
    /\ Return(r, "store", req[r].held)
    /\ Store(r, req[r].act)
    /\ IF req[r].held.kind = "failed" THEN UNCHANGED lock ELSE Release(req[r].act)
    /\ UNCHANGED <<jobVars, planFile>>

StorePlan(r) ==
    /\ Return(r, "store", req[r].held)
    /\ Store(r, req[r].act)
    /\ Release(req[r].act)
    /\ UNCHANGED <<jobVars, planFile>>

-----------------------------------------------------------------------------
(* topology().                                                             *)

LockTopology(r) ==
    /\ Goto(r, "topo_lock", "topo_cache")
    /\ Acquire(r, "topology")
    /\ UNCHANGED <<jobVars, cache, planFile, req>>

TopologyHit(r) ==
    /\ Fresh(r, "topology")
    /\ Goto(r, "topo_cache", "done")
    /\ req' = [req EXCEPT ![r] = Idle]
    /\ Release("topology")
    /\ UNCHANGED <<jobVars, cache, planFile>>

TopologyMiss(r) ==
    /\ ~Fresh(r, "topology")
    /\ Goto(r, "topo_cache", "state")
    /\ UNCHANGED <<jobVars, cache, lock, planFile, req>>

\* state() has nothing deployed: the plan is drawn, unless a job runs.
DrawPlan(r) ==
    /\ Goto(r, "state", "topo_check")
    /\ UNCHANGED <<jobVars, cache, lock, planFile, req>>

DrawInventory(r) ==
    /\ Goto(r, "state", "topo_store")
    /\ Holds(r, Of("inventory"))
    /\ UNCHANGED <<jobVars, cache, lock, planFile>>

TopologyWaits(r) ==
    /\ slot # NoJob
    /\ Goto(r, "topo_check", "topo_store")
    /\ Holds(r, Of("job"))
    /\ UNCHANGED <<jobVars, cache, lock, planFile>>

TopologyPlans(r) ==
    /\ slot = NoJob
    /\ Goto(r, "topo_check", "check")
    /\ UNCHANGED <<jobVars, cache, lock, planFile, req>>

StoreTopology(r) ==
    /\ Goto(r, "topo_store", "done")
    /\ Store(r, "topology")
    /\ req' = [req EXCEPT ![r] = Idle]
    /\ Release("topology")
    /\ UNCHANGED <<jobVars, planFile>>

-----------------------------------------------------------------------------
\* A plan or a drawing older than its TTL is as good as none.
Expire(k) ==
    /\ cache[k].kind # "none"
    /\ cache' = [cache EXCEPT ![k] = Missing]
    /\ UNCHANGED <<jobVars, lock, planFile, pc, req>>

(***************************************************************************)
(* History.  `crossed`: an invalidation passed since the request read the  *)
(* slot or the world, or what it took from a cache was crossed.            *)
(***************************************************************************)
Carries == {"lock", "cache", "show", "unlink", "store", "topo_check", "topo_store", "check"}

TakesCrossed(r) == pc[r] = "cache" /\ pc'[r] = "topo_store" /\ cache[req[r].act].crossed

Watch ==
    crossed' = [r \in Request |->
                   /\ pc[r] \in Carries /\ pc'[r] \in Carries
                   /\ crossed[r] \/ JobInvalidates \/ TakesCrossed(r)]

PlanStep(r) ==
    \/ Refuse(r) \/ Allow(r) \/ LockPlan(r) \/ Hit(r) \/ Miss(r)
    \/ Plan(r) \/ PlanFails(r) \/ Show(r) \/ Unlink(r) \/ StorePlan(r)

TopologyStep(r) ==
    \/ LockTopology(r) \/ TopologyHit(r) \/ TopologyMiss(r)
    \/ DrawPlan(r) \/ DrawInventory(r) \/ TopologyWaits(r) \/ TopologyPlans(r)
    \/ StoreTopology(r)

Act ==
    \/ \E j \in Job : JobStarts(j) \/ JobWorks(j) \/ HookInvalidate(j)
    \/ StartInvalidate
    \/ \E r \in Request : Arrive(r) \/ PlanStep(r) \/ TopologyStep(r)
    \/ \E k \in Key : Expire(k)

Next == Act /\ Watch

Spec == Init /\ [][Next]_vars

(***************************************************************************)
(* Threads are scheduled and `tofu` ends (by itself or at its timeout).    *)
(* Nothing is assumed of new requests, of new jobs, of the steps of a job  *)
(* or of the age of an entry.                                              *)
(***************************************************************************)
Fairness == \A r \in Request : WF_vars((PlanStep(r) \/ TopologyStep(r)) /\ Watch)

FairSpec == Spec /\ Fairness

-----------------------------------------------------------------------------
(***************************************************************************)
(* `tofu show` reads the plan file that the same thread's `tofu plan`      *)
(* wrote, and the finally block deletes no other's: outlines and planned   *)
(* drawings share one file per action, which only _outline_lock guards     *)
(* (engine.py:37, 659, 702-739).                                           *)
(***************************************************************************)
PlanFileIsOwn ==
    \A r \in Request : /\ pc[r] = "show" => planFile[req[r].act] = r
                       /\ pc[r] = "unlink" => planFile[req[r].act] \in {r, NoOne}

\* The entry describes what is deployed, or says that a job runs while one does.
Current(entry) == /\ entry.kind = "plan" => entry.world = world
                  /\ entry.kind = "job" => ~Quiet

(***************************************************************************)
(* Invalidation reaches everything but a request under way: when no job is *)
(* at work, a cached plan or planned drawing is of what is deployed, and   *)
(* no drawing says that a job is running, unless an invalidation passed    *)
(* while the request that wrote it was under way (engine.py:358-362, 664,  *)
(* 805).                                                                   *)
(***************************************************************************)
UncrossedIsCurrent == Quiet => \A k \in Key : cache[k].crossed \/ Current(cache[k])

(***************************************************************************)
(* engine.py:653, "`invalidate` drops it when a job ends": when no job is  *)
(* at work, a plan that is served was made of what is deployed.  False: a  *)
(* plan that began before the job is cached after the job's end.           *)
(***************************************************************************)
ServedPlanIsCurrent == Quiet => \A a \in Action : Current(cache[a])

(***************************************************************************)
(* Every request is answered: topology() holds its lock while it waits for *)
(* the plan's lock, and nobody waits in the other order (engine.py:800,    *)
(* 659).                                                                   *)
(***************************************************************************)
EveryRequestAnswered == \A r \in Request : pc[r] # "new" ~> pc[r] = "done"
=============================================================================
