--------------------------- MODULE PlanCache_proofs -------------------------
(***************************************************************************)
(* Proofs about PlanCache, for any number of requests and of jobs.         *)
(***************************************************************************)
EXTENDS PlanCache, UseCaseJobs_proofs

-----------------------------------------------------------------------------
(* Types.                                                                  *)

\* The constant entries and locals are entries and locals.
LEMMA EntryTypes ==
    /\ Missing \in Entry /\ Idle \in Locals
    /\ \A kind \in {"plan", "failed", "inventory", "job"} : Of(kind) \in Entry
BY DEF Missing, Idle, Entry, Locals, Of, AtFirst, World, Action

\* What a request may put into a cache.
LEMMA TypeOfStore ==
    ASSUME TypeOK, NEW r \in Request, NEW k \in Key, Store(r, k)
    PROVE  cache' \in [Key -> Entry]
<1>1. req[r].held \in Entry
  BY DEF TypeOK, Locals
<1>2. [req[r].held EXCEPT !.crossed = @ \/ crossed[r]] \in Entry
  BY <1>1 DEF TypeOK, Entry
<1>3. QED
  BY <1>2 DEF TypeOK, Store

\* A request keeps an entry among its locals.
LEMMA TypeOfHolds ==
    ASSUME TypeOK, NEW r \in Request, NEW entry \in Entry, Holds(r, entry)
    PROVE  req' \in [Request -> Locals]
BY DEF TypeOK, Holds, Locals

\* A new request has its locals.
LEMMA Retyped ==
    ASSUME TypeOK, NEW r \in Request
    PROVE  /\ \A a \in Action :
                  [req EXCEPT ![r].op = "outline", ![r].act = a] \in [Request -> Locals]
           /\ \A again \in BOOLEAN :
                  [req EXCEPT ![r].op = "topology", ![r].refresh = again]
                     \in [Request -> Locals]
<1>1. req \in [Request -> Locals] /\ req[r] \in Locals
  BY DEF TypeOK
<1>2. \A a \in Action : [req[r] EXCEPT !.op = "outline", !.act = a] \in Locals
  BY <1>1 DEF Locals
<1>3. \A again \in BOOLEAN : [req[r] EXCEPT !.op = "topology", !.refresh = again] \in Locals
  BY <1>1 DEF Locals
<1>4. \A a \in Action : [req EXCEPT ![r].op = "outline", ![r].act = a]
                          = [req EXCEPT ![r] = [req[r] EXCEPT !.op = "outline", !.act = a]]
  BY <1>1 DEF Locals
<1>5. QED
  BY <1>1, <1>2, <1>3, <1>4

\* plan() returns.
LEMMA TypeOfReturn ==
    ASSUME TypeOK, NEW r \in Request, NEW from, NEW entry \in Entry, Return(r, from, entry)
    PROVE  /\ pc' \in [Request -> InPlan \cup InTopology \cup {"new", "done"}]
           /\ req' \in [Request -> Locals]
BY EntryTypes DEF TypeOK, Return, Goto, Holds, Locals, InTopology, InPlan

\* What the jobs and the time do to the caches.
LEMMA TypeOfCaches ==
    ASSUME TypeOK, JobsInv, Watch,
           \/ \E j \in Job : JobStarts(j) \/ JobWorks(j) \/ HookInvalidate(j)
           \/ StartInvalidate
           \/ \E k \in Key : Expire(k)
    PROVE  TypeOK'
<1> USE EntryTypes
<1>1. crossed' \in [Request -> BOOLEAN]
  BY DEF Watch
<1>2. CASE \E j \in Job : JobStarts(j) \/ JobWorks(j) \/ HookInvalidate(j)
  <2>1. JobsTypeOK'
    BY <1>2, JobsInvStep DEF JobStarts, JobWorks, HookInvalidate, JobsInv
  <2>2. QED
    BY <1>1, <1>2, <2>1 DEF TypeOK, JobStarts, JobWorks, HookInvalidate, Invalidate
<1>3. CASE StartInvalidate
  <2>1. JobsTypeOK'
    BY <1>3 DEF TypeOK, JobsTypeOK, StartInvalidate, Posted
  <2>2. QED
    BY <1>1, <1>3, <2>1 DEF TypeOK, StartInvalidate, Invalidate
<1>4. CASE \E k \in Key : Expire(k)
  BY <1>1, <1>4 DEF TypeOK, Expire, jobVars, JobsTypeOK
<1>5. QED
  BY <1>2, <1>3, <1>4

\* What is the same for every step of a request.
LEMMA JobsStay ==
    ASSUME TypeOK, Watch, UNCHANGED jobVars
    PROVE  JobsTypeOK' /\ crossed' \in [Request -> BOOLEAN]
BY DEF TypeOK, JobsTypeOK, jobVars, Watch

\* A request steps through plan().
LEMMA TypeOfPlan ==
    ASSUME TypeOK, Watch, NEW r \in Request, Arrive(r) \/ PlanStep(r)
    PROVE  TypeOK'
<1> USE EntryTypes DEF Key
<1>1. req[r] \in Locals /\ req[r].act \in Action /\ req[r].held \in Entry
  BY DEF TypeOK, Locals
<1>2. CASE Arrive(r)
  <2>1. req' \in [Request -> Locals]
    <3>1. ASSUME NEW a \in Action, req' = [req EXCEPT ![r].op = "outline", ![r].act = a]
          PROVE  req' \in [Request -> Locals]
      BY <3>1, Retyped, Zenon
    <3>2. ASSUME NEW again \in BOOLEAN,
                 req' = [req EXCEPT ![r].op = "topology", ![r].refresh = again]
          PROVE  req' \in [Request -> Locals]
      BY <3>2, Retyped, Zenon
    <3>3. QED
      BY <1>2, <3>1, <3>2 DEF Arrive
  <2>2. pc' \in [Request -> InPlan \cup InTopology \cup {"new", "done"}]
    BY <1>2 DEF TypeOK, Arrive, Goto, InPlan, InTopology
  <2>3. QED
    BY <1>2, <2>1, <2>2, JobsStay DEF TypeOK, Arrive
<1>3. CASE Refuse(r)
  BY <1>3, JobsStay, TypeOfReturn DEF TypeOK, Refuse
<1>4. CASE Allow(r) \/ LockPlan(r) \/ Miss(r) \/ Show(r) \/ Unlink(r)
  BY <1>1, <1>4, JobsStay
  DEF TypeOK, Allow, LockPlan, Miss, Show, Unlink, Goto, Acquire, InPlan
<1>5. CASE Hit(r)
  <2>1. cache[req[r].act] \in Entry
    BY <1>1 DEF TypeOK
  <2>2. QED
    BY <1>1, <1>5, <2>1, JobsStay, TypeOfReturn DEF TypeOK, Hit, Release
<1>6. CASE Plan(r)
  <2>1. [Of("plan") EXCEPT !.world = world] \in Entry
    BY DEF TypeOK, JobsTypeOK, Of, Missing, Entry
  <2>2. req' \in [Request -> Locals]
    BY <1>6, <2>1 DEF TypeOK, Plan, Holds, Locals
  <2>3. QED
    BY <1>1, <1>6, <2>2, JobsStay DEF TypeOK, Plan, Goto, InPlan
<1>7. CASE PlanFails(r)
  BY <1>7, JobsStay DEF TypeOK, PlanFails, Goto, Holds, Locals, InPlan
<1>8. CASE StorePlan(r)
  BY <1>1, <1>8, JobsStay, TypeOfReturn, TypeOfStore DEF TypeOK, StorePlan, Release
<1>9. QED
  BY <1>2, <1>3, <1>4, <1>5, <1>6, <1>7, <1>8 DEF PlanStep

\* A request steps through topology().
LEMMA TypeOfTopology ==
    ASSUME TypeOK, Watch, NEW r \in Request, TopologyStep(r)
    PROVE  TypeOK'
<1> USE EntryTypes DEF Key
<1>1. CASE LockTopology(r) \/ TopologyMiss(r) \/ DrawPlan(r) \/ TopologyPlans(r)
  BY <1>1, JobsStay
  DEF TypeOK, LockTopology, TopologyMiss, DrawPlan, TopologyPlans, Goto, Acquire,
      InPlan, InTopology
<1>2. CASE TopologyHit(r)
  BY <1>2, JobsStay DEF TypeOK, TopologyHit, Goto, Release
<1>3. CASE DrawInventory(r) \/ TopologyWaits(r)
  <2>1. req' \in [Request -> Locals]
    BY <1>3, TypeOfHolds DEF DrawInventory, TopologyWaits
  <2>2. pc' \in [Request -> InPlan \cup InTopology \cup {"new", "done"}]
    BY <1>3 DEF TypeOK, DrawInventory, TopologyWaits, Goto, InTopology
  <2>3. QED
    BY <1>3, <2>1, <2>2, JobsStay DEF TypeOK, DrawInventory, TopologyWaits
<1>4. CASE StoreTopology(r)
  BY <1>4, JobsStay, TypeOfStore DEF TypeOK, StoreTopology, Goto, Release
<1>5. QED
  BY <1>1, <1>2, <1>3, <1>4 DEF TopologyStep

TypeInv == TypeOK /\ JobsInv

\* The types hold at first and are kept by every step.
LEMMA TypeInvHolds == Spec => []TypeInv
<1>1. Init => TypeInv
  BY JobsInvInit, EntryTypes DEF Init, TypeInv, TypeOK, JobsInv, Key, InPlan, InTopology
<1>2. TypeInv /\ [Next]_vars => TypeInv'
  <2> SUFFICES ASSUME TypeInv, [Next]_vars PROVE TypeInv'
    OBVIOUS
  <2> USE DEF TypeInv
  <2>1. CASE UNCHANGED vars
    BY <2>1 DEF vars, jobVars, TypeOK, JobsTypeOK, JobsInv
  <2>2. CASE Next
    <3>1. TypeOK'
      BY <2>2, TypeOfCaches, TypeOfPlan, TypeOfTopology DEF Next, Act
    <3>2. JobsInv'
      <4>1. CASE \E j \in Job : JobStarts(j) \/ JobWorks(j) \/ HookInvalidate(j)
        BY <4>1, JobsInvStep DEF JobStarts, JobWorks, HookInvalidate
      <4>2. CASE UNCHANGED jobVars \/ StartInvalidate
        BY <4>2, <3>1 DEF JobsInv, TypeOK, jobVars, StartInvalidate, Posted
      <4>3. CASE \E r \in Request : Arrive(r) \/ PlanStep(r)
        BY <4>2, <4>3
        DEF Arrive, PlanStep, Refuse, Allow, LockPlan, Hit, Miss, Plan, PlanFails, Show,
            Unlink, StorePlan
      <4>4. CASE \E r \in Request : TopologyStep(r)
        BY <4>2, <4>4
        DEF TopologyStep, LockTopology, TopologyHit, TopologyMiss, DrawPlan,
            DrawInventory, TopologyWaits, TopologyPlans, StoreTopology
      <4>5. CASE \E k \in Key : Expire(k)
        BY <4>2, <4>5 DEF Expire
      <4>6. QED
        BY <2>2, <4>1, <4>2, <4>3, <4>4, <4>5 DEF Next, Act
    <3>3. QED
      BY <3>1, <3>2
  <2>3. QED
    BY <2>1, <2>2
<1>3. QED
  BY <1>1, <1>2, PTL DEF Spec

\* Every cache, lock, plan file, request and job has its type.
THEOREM PlanTypes == Spec => []TypeOK
<1>1. TypeInv => TypeOK
  BY DEF TypeInv
<1>2. QED
  BY <1>1, TypeInvHolds, PTL

-----------------------------------------------------------------------------
(* The plan file.  Who is between the lock and the cache of an action      *)
(* holds its lock; the file is there only under the lock, and is the       *)
(* holder's.                                                               *)

UnderLock == {"cache", "plan", "show", "unlink", "store"}

FileInv ==
    /\ \A a \in Action : lock[a] = NoOne => planFile[a] = NoOne
    /\ \A r \in Request : /\ pc[r] \in UnderLock => lock[req[r].act] = r
                          /\ pc[r] \in {"cache", "plan", "store"} => planFile[req[r].act] = NoOne
    /\ PlanFileIsOwn

\* Steps that leave the locks and the file alone, and take nobody in or out.
LEMMA FileInvIdle ==
    ASSUME FileInv, UNCHANGED <<lock, planFile, pc, req>>
    PROVE  FileInv'
BY DEF FileInv, PlanFileIsOwn

\* plan() keeps the file its own.
LEMMA FileInvPlan ==
    ASSUME TypeOK, FileInv, NEW r \in Request, Arrive(r) \/ PlanStep(r)
    PROVE  FileInv'
<1> USE DEF FileInv, PlanFileIsOwn, UnderLock
<1>1. /\ req[r] \in Locals /\ req[r].act \in Action
      /\ NoOne \notin Request
  BY PlanAssumption DEF TypeOK, Locals
<1>2. CASE Arrive(r)
  <2>1. \A s \in Request \ {r} : req'[s] = req[s] /\ pc'[s] = pc[s]
    BY <1>2 DEF TypeOK, Arrive, Goto
  <2>2. pc'[r] \notin UnderLock
    BY <1>2 DEF TypeOK, Arrive, Goto
  <2>3. QED
    BY <1>2, <2>1, <2>2 DEF Arrive
<1>3. CASE Refuse(r)
  BY <1>1, <1>3 DEF TypeOK, Refuse, Return, Goto, Holds
<1>4. CASE Allow(r) \/ Miss(r) \/ Show(r)
  BY <1>1, <1>4 DEF TypeOK, Allow, Miss, Show, Goto
<1>5. CASE LockPlan(r)
  BY <1>1, <1>5 DEF TypeOK, LockPlan, Goto, Acquire, Key
<1>6. CASE Hit(r)
  BY <1>1, <1>6 DEF TypeOK, Hit, Return, Goto, Holds, Release, Key
<1>7. CASE Plan(r)
  BY <1>1, <1>7 DEF TypeOK, Plan, Goto, Holds, Locals
<1>8. CASE PlanFails(r)
  BY <1>1, <1>8 DEF TypeOK, PlanFails, Goto, Holds, Locals
<1>9. CASE Unlink(r)
  BY <1>1, <1>9 DEF TypeOK, Unlink, Goto
<1>10. CASE StorePlan(r)
  BY <1>1, <1>10 DEF TypeOK, StorePlan, Return, Goto, Holds, Release, Key
<1>11. QED
  BY <1>2, <1>3, <1>4, <1>5, <1>6, <1>7, <1>8, <1>9, <1>10 DEF PlanStep

\* topology() takes and gives back a lock that is no action's.
LEMMA FileInvTopology ==
    ASSUME TypeOK, FileInv, NEW r \in Request, TopologyStep(r)
    PROVE  FileInv'
<1> USE DEF FileInv, PlanFileIsOwn, UnderLock
<1>1. \A s \in Request : req[s] \in Locals /\ req[s].act \in Action
  BY DEF TypeOK, Locals
<1>2. "topology" \notin Action
  BY DEF Action
<1>3. CASE LockTopology(r)
  BY <1>1, <1>2, <1>3 DEF TypeOK, LockTopology, Goto, Acquire, Key
<1>4. CASE TopologyHit(r) \/ StoreTopology(r)
  BY <1>1, <1>2, <1>4 DEF TypeOK, TopologyHit, StoreTopology, Goto, Release, Key
<1>5. CASE TopologyMiss(r) \/ DrawPlan(r) \/ TopologyPlans(r)
  BY <1>1, <1>5 DEF TypeOK, TopologyMiss, DrawPlan, TopologyPlans, Goto
<1>6. CASE DrawInventory(r) \/ TopologyWaits(r)
  <2>1. PICK entry : req' = [req EXCEPT ![r].held = entry]
    BY <1>6 DEF DrawInventory, TopologyWaits, Holds
  <2>2. \A s \in Request : req'[s].act = req[s].act
    BY <1>1, <2>1 DEF TypeOK, Locals
  <2>3. /\ UNCHANGED <<lock, planFile>>
        /\ pc' = [pc EXCEPT ![r] = "topo_store"]
    BY <1>6 DEF DrawInventory, TopologyWaits, Goto
  <2>4. \A s \in Request : pc'[s] = pc[s] \/ pc'[s] = "topo_store"
    BY <2>3 DEF TypeOK
  <2>5. QED
    BY <2>2, <2>3, <2>4
<1>7. QED
  BY <1>3, <1>4, <1>5, <1>6 DEF TopologyStep

\* `tofu show` reads the plan file of its own thread, and the finally block
\* deletes no other thread's, whatever the requests and the jobs.
THEOREM PlanFileOwned == Spec => []PlanFileIsOwn
<1>1. Init => FileInv
  BY DEF Init, FileInv, PlanFileIsOwn, UnderLock, Key
<1>2. TypeInv /\ FileInv /\ [Next]_vars => FileInv'
  <2> SUFFICES ASSUME TypeInv, FileInv, [Next]_vars PROVE FileInv'
    OBVIOUS
  <2>1. CASE UNCHANGED vars
    BY <2>1, FileInvIdle DEF vars
  <2>2. CASE \/ \E j \in Job : JobStarts(j) \/ JobWorks(j) \/ HookInvalidate(j)
             \/ StartInvalidate
             \/ \E k \in Key : Expire(k)
    BY <2>2, FileInvIdle DEF JobStarts, JobWorks, HookInvalidate, StartInvalidate, Expire
  <2>3. CASE \E r \in Request : Arrive(r) \/ PlanStep(r) \/ TopologyStep(r)
    BY <2>3, FileInvPlan, FileInvTopology DEF TypeInv
  <2>4. QED
    BY <2>1, <2>2, <2>3 DEF Next, Act
<1>3. FileInv => PlanFileIsOwn
  BY DEF FileInv
<1>4. QED
  BY <1>1, <1>2, <1>3, TypeInvHolds, PTL DEF Spec

-----------------------------------------------------------------------------
(* The caches.  What a request brings along towards a cache is as current  *)
(* as what the caches hold.                                                *)

Fits(entry) == entry.crossed \/ Current(entry)

Bringing == {"show", "unlink", "store", "topo_store"}

CurrentInv ==
    Quiet => /\ \A k \in Key : Fits(cache[k])
             /\ \A r \in Request : pc[r] \in Bringing => crossed[r] \/ Fits(req[r].held)

\* A step of a request keeps the invariant if what it caches, and what it
\* brings along, fits.
LEMMA RequestKeeps ==
    ASSUME CurrentInv, Watch, UNCHANGED jobVars, NEW r \in Request,
           \A s \in Request \ {r} : pc'[s] = pc[s] /\ req'[s] = req[s],
           Quiet => \A k \in Key : cache'[k] = cache[k] \/ Fits(cache'[k]),
           Quiet /\ pc'[r] \in Bringing => crossed'[r] \/ Fits(req'[r].held)
    PROVE  CurrentInv'
<1> SUFFICES ASSUME Quiet PROVE CurrentInv'
  BY DEF CurrentInv, Quiet, jobVars
<1>1. \A k \in Key : Fits(cache[k])'
  BY DEF CurrentInv, Fits, Current, Quiet, jobVars
<1>2. ASSUME NEW s \in Request, pc'[s] \in Bringing
      PROVE  (crossed[s] \/ Fits(req[s].held))'
  <2>1. CASE s = r
    BY <1>2, <2>1 DEF Fits, Current, Quiet, jobVars
  <2>2. CASE s # r
    <3>1. crossed[s] => crossed'[s]
      BY <1>2, <2>2 DEF Watch, Bringing, Carries
    <3>2. crossed[s] \/ Fits(req[s].held)
      BY <1>2, <2>2 DEF CurrentInv
    <3>3. QED
      BY <2>2, <3>1, <3>2 DEF Fits, Current, Quiet, jobVars
  <2>3. QED
    BY <2>1, <2>2
<1>3. QED
  BY <1>1, <1>2 DEF CurrentInv

\* What a request stores fits, if what it brought along does.
LEMMA StoredFits ==
    ASSUME TypeOK, NEW r \in Request, NEW k \in Key, Store(r, k),
           crossed[r] \/ Fits(req[r].held)
    PROVE  \A l \in Key : cache'[l] = cache[l] \/ Fits(cache'[l])
<1>1. req[r].held \in Entry
  BY DEF TypeOK, Locals
<1>2. Fits([req[r].held EXCEPT !.crossed = @ \/ crossed[r]])
  BY <1>1 DEF Fits, Current, Entry
<1>3. QED
  BY <1>2 DEF TypeOK, Store

\* Steps through plan().
LEMMA CurrentPlan ==
    ASSUME TypeOK, CurrentInv, Watch, NEW r \in Request, Arrive(r) \/ PlanStep(r)
    PROVE  CurrentInv'
<1>1. req[r] \in Locals /\ req[r].act \in Key
  BY DEF TypeOK, Locals, Key
<1>2. Quiet => slot = NoJob
  BY DEF Quiet
<1> USE DEF Bringing, Goto
<1>3. CASE Arrive(r)
  BY <1>3, RequestKeeps DEF TypeOK, Arrive
<1>4. CASE Refuse(r)
  BY <1>2, <1>4, RequestKeeps DEF TypeOK, Refuse, Return, Holds
<1>5. CASE Allow(r) \/ LockPlan(r) \/ Miss(r)
  BY <1>5, RequestKeeps DEF TypeOK, Allow, LockPlan, Miss
<1>6. CASE Hit(r)
  <2> DEFINE entry == cache[req[r].act]
  <2>1. ASSUME pc'[r] \in Bringing
        PROVE  (entry.crossed => crossed'[r]) /\ req'[r].held = entry
    <3>1. req' = [req EXCEPT ![r].held = entry]
      BY <1>6, <2>1 DEF TypeOK, Hit, Return, Holds
    <3>2. req'[r].held = entry
      BY <1>1, <3>1 DEF TypeOK, Locals
    <3>3. pc[r] = "cache" /\ pc'[r] = "topo_store"
      BY <1>6, <2>1 DEF TypeOK, Hit, Return
    <3>4. entry.crossed => crossed'[r]
      BY <3>3 DEF Watch, TakesCrossed, Carries
    <3>5. QED
      BY <3>2, <3>4
  <2>2. Quiet => Fits(cache[req[r].act])
    BY <1>1 DEF CurrentInv
  <2>3. QED
    BY <1>6, <2>1, <2>2, RequestKeeps DEF TypeOK, Hit, Return, Holds
<1>7. CASE Plan(r)
  <2>1. req'[r].held.kind = "plan" /\ req'[r].held.world = world
    BY <1>1, <1>7 DEF TypeOK, Plan, Holds, Of, Missing, Locals
  <2>2. QED
    BY <1>7, <2>1, RequestKeeps DEF TypeOK, Plan, Holds, Fits, Current
<1>8. CASE PlanFails(r)
  <2>1. req'[r].held.kind = "failed"
    BY <1>1, <1>8 DEF TypeOK, PlanFails, Holds, Of, Missing, Locals
  <2>2. QED
    BY <1>8, <2>1, RequestKeeps DEF TypeOK, PlanFails, Holds, Fits, Current
<1>9. CASE Show(r) \/ Unlink(r)
  <2>1. crossed[r] => crossed'[r]
    BY <1>9 DEF TypeOK, Show, Unlink, Watch, Carries
  <2>2. QED
    BY <1>9, <2>1, RequestKeeps DEF TypeOK, Show, Unlink, CurrentInv
<1>10. CASE StorePlan(r)
  <2>1. Quiet => crossed[r] \/ Fits(req[r].held)
    BY <1>10 DEF StorePlan, Return, CurrentInv
  <2>2. pc'[r] \in Bringing => req'[r].held = req[r].held /\ (crossed[r] => crossed'[r])
    BY <1>1, <1>10 DEF TypeOK, StorePlan, Return, Holds, Watch, Carries, Locals
  <2>3. QED
    BY <1>1, <1>10, <2>1, <2>2, StoredFits, RequestKeeps
    DEF TypeOK, StorePlan, Return, Holds
<1>11. QED
  BY <1>3, <1>4, <1>5, <1>6, <1>7, <1>8, <1>9, <1>10 DEF PlanStep

\* Steps through topology().
LEMMA CurrentTopology ==
    ASSUME TypeOK, CurrentInv, Watch, NEW r \in Request, TopologyStep(r)
    PROVE  CurrentInv'
<1>1. req[r] \in Locals
  BY DEF TypeOK
<1>2. Quiet => slot = NoJob
  BY DEF Quiet
<1> USE DEF Bringing, Goto
<1>3. CASE LockTopology(r) \/ TopologyMiss(r) \/ DrawPlan(r) \/ TopologyPlans(r)
  BY <1>3, RequestKeeps DEF TypeOK, LockTopology, TopologyMiss, DrawPlan, TopologyPlans
<1>4. CASE TopologyHit(r)
  BY <1>4, RequestKeeps DEF TypeOK, TopologyHit
<1>5. CASE DrawInventory(r)
  <2>1. req'[r].held.kind = "inventory"
    BY <1>1, <1>5 DEF TypeOK, DrawInventory, Holds, Of, Missing, Locals
  <2>2. QED
    BY <1>5, <2>1, RequestKeeps DEF TypeOK, DrawInventory, Holds, Fits, Current
<1>6. CASE TopologyWaits(r)
  BY <1>2, <1>6, RequestKeeps DEF TypeOK, TopologyWaits, Holds
<1>7. CASE StoreTopology(r)
  <2>1. Quiet => crossed[r] \/ Fits(req[r].held)
    BY <1>7 DEF StoreTopology, CurrentInv
  <2>2. QED
    BY <1>7, <2>1, StoredFits, RequestKeeps DEF TypeOK, StoreTopology, Key
<1>8. QED
  BY <1>3, <1>4, <1>5, <1>6, <1>7 DEF TopologyStep

\* invalidate() leaves nothing in a cache, and crosses what is brought along.
LEMMA InvalidateFits ==
    ASSUME TypeOK, Watch, Invalidate, JobInvalidates, UNCHANGED <<pc, req>>
    PROVE  CurrentInv'
<1>1. \A r \in Request : pc[r] \in Bringing => crossed'[r]
  BY DEF Watch, Bringing, Carries
<1>2. \A k \in Key : Fits(cache[k])'
  BY DEF Invalidate, Missing, Fits, Current
<1>3. QED
  BY <1>1, <1>2 DEF CurrentInv

\* When no job is at work, a cache holds what is true of the deployment,
\* unless an invalidation passed while its writer was under way.
THEOREM UncrossedPlans == Spec => []UncrossedIsCurrent
<1>1. Init => CurrentInv
  BY DEF Init, CurrentInv, Fits, Current, Missing, Bringing
<1>2. TypeInv /\ CurrentInv /\ [Next]_vars => CurrentInv'
  <2> SUFFICES ASSUME TypeInv, CurrentInv, [Next]_vars PROVE CurrentInv'
    OBVIOUS
  <2>1. CASE UNCHANGED vars
    BY <2>1 DEF vars, jobVars, CurrentInv, Fits, Current, Quiet
  <2>2. ASSUME NEW j \in Job, JobStarts(j) \/ JobWorks(j), Watch PROVE CurrentInv'
    BY <2>2, WorkIsNotQuiet DEF TypeInv, TypeOK, JobStarts, JobWorks, CurrentInv
  <2>3. ASSUME NEW j \in Job, HookInvalidate(j), Watch PROVE CurrentInv'
    BY <2>3, EndsInvalidate, InvalidateFits DEF TypeInv, TypeOK, HookInvalidate
  <2>4. ASSUME StartInvalidate, Watch PROVE CurrentInv'
    <3>1. JobInvalidates
      BY <2>4 DEF StartInvalidate, Posted, JobInvalidates
    <3>2. QED
      BY <2>4, <3>1, InvalidateFits DEF TypeInv, StartInvalidate
  <2>5. ASSUME NEW r \in Request, Arrive(r) \/ PlanStep(r) \/ TopologyStep(r), Watch
        PROVE  CurrentInv'
    BY <2>5, CurrentPlan, CurrentTopology DEF TypeInv
  <2>6. ASSUME NEW k \in Key, Expire(k), Watch PROVE CurrentInv'
    <3>1. \A l \in Key : cache'[l] = cache[l] \/ cache'[l] = Missing
      BY <2>6 DEF TypeInv, TypeOK, Expire
    <3>2. \A r \in Request : pc[r] \in Bringing => (crossed[r] => crossed'[r])
      BY <2>6 DEF Expire, Watch, Bringing, Carries
    <3>3. QED
      BY <2>6, <3>1, <3>2
      DEF Expire, jobVars, CurrentInv, Fits, Current, Missing, Quiet
  <2>7. QED
    BY <2>1, <2>2, <2>3, <2>4, <2>5, <2>6 DEF Next, Act
<1>3. CurrentInv => UncrossedIsCurrent
  BY DEF CurrentInv, UncrossedIsCurrent, Fits
<1>4. QED
  BY <1>1, <1>2, <1>3, TypeInvHolds, PTL DEF Spec
=============================================================================
