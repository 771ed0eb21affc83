----------------------------- MODULE StateCache -----------------------------
(***************************************************************************)
(* Engine.state() of app/usecases/engine.py for one use case: the cache of *)
(* the `tofu state list` probe, the requests that read and fill it on      *)
(* threads of their own, and the jobs that change what it describes,       *)
(* invalidate it and refresh it in their hook.  state() takes no lock: it  *)
(* reads the slot, the records and the cache one after the other, and a    *)
(* probe that takes its time writes when it is done.                       *)
(*                                                                         *)
(* The provider is connected and the checkout prepared; the probe may      *)
(* fail.  The status probe that follows is not modelled.                   *)
(***************************************************************************)
EXTENDS UseCaseJobs

CONSTANT Request      \* threads of the server: HTTP requests and warm-ups

ASSUME CacheAssumption == /\ MaxJobs \in Nat
                          /\ ActionOf \in [Job -> Action]
                          /\ Request \cap ({NoJob} \cup Job) = {}

VARIABLES
    cache,                  \* _state_cache[id]
    fresh,                  \* the entry is within its TTL
    pc, req,                \* where each thread is, and its locals
    seen, claimed, crossed  \* history: see Watch

cacheVars == <<cache, fresh>>
vars == <<jobVars, cacheVars, pc, req, seen, claimed, crossed>>

Thread == Request \cup Job     \* a job's thread runs state() in its hook

Turning == {"turning_on", "turning_off"}

Entry == [kind : {"none", "list", "error"}, world : World, crossed : BOOLEAN]
Missing == [kind |-> "none", world |-> AtFirst, crossed |-> FALSE]

\* What a thread holds while it is in state().
Locals == [op : {"none", "state", "refresh"}, force : BOOLEAN, run : {"none"} \cup Action,
           failed : BOOLEAN, held : Entry]
Idle == [op |-> "none", force |-> FALSE, run |-> "none", failed |-> FALSE,
         held |-> Missing]

InState == {"running", "runs", "cache", "probe", "write"}

TypeOK ==
    /\ JobsTypeOK
    /\ cache \in Entry
    /\ fresh \in BOOLEAN
    /\ pc \in [Thread -> InState \cup {"new", "invalidate", "done"}]
    /\ req \in [Thread -> Locals]
    /\ seen \in [Request -> SUBSET (Turning \cup {"error", "probe"})]
    /\ claimed \in [Request -> BOOLEAN]
    /\ crossed \in [Thread -> BOOLEAN]

Init ==
    /\ JobsInit
    /\ cache = Missing
    /\ fresh = FALSE
    /\ pc = [p \in Thread |-> "new"]
    /\ req = [p \in Thread |-> Idle]
    /\ seen = [r \in Request |-> {}]
    /\ claimed = [r \in Request |-> FALSE]
    /\ crossed = [p \in Thread |-> FALSE]

Goto(p, from, to) == /\ pc[p] = from
                     /\ pc' = [pc EXCEPT ![p] = to]

Invalidate == cache' = Missing /\ fresh' = FALSE

-----------------------------------------------------------------------------
(* start_job() and _after_job().                                           *)

JobStarts(j) == StartJob(j) /\ UNCHANGED <<cacheVars, pc, req>>

JobWorks(j) == Work(j) /\ UNCHANGED <<cacheVars, pc, req>>

StartInvalidate ==
    /\ Posted
    /\ Invalidate
    /\ UNCHANGED <<pc, req>>

\* Mutant: the hook goes straight to state(force=True).
HookKeeps(j) ==
    /\ Hook(j)
    /\ Goto(j, "new", "running")
    /\ req' = [req EXCEPT ![j].op = "state", ![j].force = TRUE]
    /\ UNCHANGED cacheVars

\* Then state(force=True), unless the manifest is gone.
HookInvalidate(j) ==
    /\ Hook(j)
    /\ Invalidate
    /\ \/ /\ Goto(j, "new", "running")
          /\ req' = [req EXCEPT ![j].op = "state", ![j].force = TRUE]
       \/ /\ Goto(j, "new", "done")
          /\ UNCHANGED req

-----------------------------------------------------------------------------
(* The requests, which keep coming: a thread that has answered one takes   *)
(* another.  The lists of use cases and a use case's page ask for the      *)
(* state, warm_up() forces it, POST /refresh invalidates, forces it and    *)
(* asks again for its answer.                                              *)

Arrive(r) ==
    /\ pc[r] \in {"new", "done"}
    /\ \/ \E force \in BOOLEAN :
             /\ Goto(r, pc[r], "running")
             /\ req' = [req EXCEPT ![r].op = "state", ![r].force = force]
       \/ /\ Goto(r, pc[r], "invalidate")
          /\ req' = [req EXCEPT ![r].op = "refresh", ![r].force = TRUE]
    /\ UNCHANGED <<jobVars, cacheVars>>

RefreshInvalidate(r) ==
    /\ Goto(r, "invalidate", "running")
    /\ Invalidate
    /\ UNCHANGED <<jobVars, req>>

-----------------------------------------------------------------------------
(* state(): three reads, then perhaps a probe.                             *)

ReadRunning(p) ==
    /\ Goto(p, "running", "runs")
    /\ req' = [req EXCEPT ![p].run = IF slot = NoJob THEN "none" ELSE ActionOf[slot]]
    /\ UNCHANGED <<jobVars, cacheVars>>

ReadRuns(p) ==
    /\ Goto(p, "runs", "cache")
    /\ req' = [req EXCEPT ![p].failed = begun # NoJob /\ record[begun] = "failed"]
    /\ UNCHANGED <<jobVars, cacheVars>>

\* derive_state().
Derive(run, failed, entry) ==
    CASE run = "on"  -> "turning_on"
      [] run = "off" -> "turning_off"
      [] run = "none" /\ failed  -> "error"
      [] run = "none" /\ ~failed ->
             IF entry.kind = "error" THEN "unknown"
             ELSE IF entry.world.deployed THEN "on" ELSE "off"

\* state() returns, and the handler too, or POST /refresh asks once more for
\* what it answers.
Return(p, from) ==
    IF req[p].op = "refresh"
    THEN Goto(p, from, "running") /\ req' = [req EXCEPT ![p] = [Idle EXCEPT !.op = "state"]]
    ELSE Goto(p, from, "done") /\ req' = [req EXCEPT ![p] = Idle]

\* While a job runs the entry is used whatever its age.
ReadCache(p) ==
    /\ req[p].run # "none" \/ (fresh /\ ~req[p].force)
    /\ Return(p, "cache")
    /\ UNCHANGED <<jobVars, cacheVars>>

ReadCacheMiss(p) ==
    /\ req[p].run = "none"
    /\ ~fresh \/ req[p].force
    /\ Goto(p, "cache", "probe")
    /\ UNCHANGED <<jobVars, cacheVars, req>>

\* Mutant: a failure is held under a name that nothing reads.
ProbeUnknown(p) ==
    /\ Goto(p, "probe", "write")
    /\ \E entry \in {[Missing EXCEPT !.kind = "list", !.world = world],
                     [Missing EXCEPT !.kind = "unknown"]} :
          req' = [req EXCEPT ![p].held = entry]
    /\ UNCHANGED <<jobVars, cacheVars>>

\* `tofu state list`.
Probe(p) ==
    /\ Goto(p, "probe", "write")
    /\ \E entry \in {[Missing EXCEPT !.kind = "list", !.world = world],
                     [Missing EXCEPT !.kind = "error"]} :
          req' = [req EXCEPT ![p].held = entry]
    /\ UNCHANGED <<jobVars, cacheVars>>

WriteState(p) ==
    /\ Return(p, "write")
    /\ cache' = [req[p].held EXCEPT !.crossed = crossed[p]]
    /\ fresh' = TRUE
    /\ UNCHANGED jobVars

Expire ==
    /\ fresh
    /\ fresh' = FALSE
    /\ UNCHANGED <<jobVars, cache, pc, req>>

-----------------------------------------------------------------------------
(***************************************************************************)
(* History.  What the jobs make of the state is Truth: a job runs, the     *)
(* newest job failed, or the probe decides.  `seen` collects it while a    *)
(* request is in state(), as far as its answer says so; `claimed` says     *)
(* whether a job started meanwhile, `crossed` whether an invalidation      *)
(* passed after its probe.                                                 *)
(***************************************************************************)
Truth == IF slot # NoJob
         THEN IF ActionOf[slot] = "on" THEN "turning_on" ELSE "turning_off"
         ELSE IF begun # NoJob /\ verdict[begun] = "failed" THEN "error" ELSE "probe"

Says(answer) == IF answer \in Turning \cup {"error"} THEN answer ELSE "probe"

\* What the answer will say of the jobs, once the slot and the records have
\* been read.
Said(p) == Says(Derive(req[p].run, req[p].failed, Missing))

\* In one call of state() before and after the step.
Asking(p) == pc[p] \in InState /\ pc'[p] \in InState /\ pc'[p] # "running"

Invalidates == JobInvalidates \/ \E r \in Request : pc[r] = "invalidate" /\ pc'[r] = "running"

Seen(p) == {Truth'} \cup IF Asking(p) THEN seen[p] ELSE {}

Watch ==
    /\ seen' = [r \in Request |->
                  CASE pc'[r] \notin InState          -> {}
                    [] pc'[r] \in {"running", "runs"} -> Seen(r)
                    [] OTHER                          -> Seen(r) \cap {Said(r)'}]
    /\ claimed' = [r \in Request |-> Asking(r) /\ (claimed[r] \/ begun' # begun)]
    /\ crossed' = [p \in Thread |->
                     /\ pc[p] = "write" /\ pc'[p] = "write"
                     /\ crossed[p] \/ Invalidates]

StateStep(p) ==
    \/ ReadRunning(p) \/ ReadRuns(p) \/ ReadCache(p) \/ ReadCacheMiss(p)
    \/ Probe(p) \/ WriteState(p)

Act ==
    \/ \E j \in Job : JobStarts(j) \/ JobWorks(j) \/ HookInvalidate(j)
    \/ StartInvalidate
    \/ \E r \in Request : Arrive(r) \/ RefreshInvalidate(r)
    \/ \E p \in Thread : StateStep(p)
    \/ Expire

Next == Act /\ Watch

Spec == Init /\ [][Next]_vars

-----------------------------------------------------------------------------
(***************************************************************************)
(* state() reads the slot before the records, and the runner saves before  *)
(* it pops: unless a job starts while it reads, what it says of the jobs   *)
(* (turning, error, or neither) was so at some moment of the call          *)
(* (engine.py:366-368, jobs.py:255-258).                                   *)
(***************************************************************************)
Returns(p) == pc[p] \in {"cache", "write"} /\ pc'[p] \in {"running", "done"}

AnswerFollowsJobs ==
    [][\A r \in Request : Returns(r) /\ ~claimed[r] => Said(r) \in seen[r]]_vars

(***************************************************************************)
(* SPEC.md:243-244, "job running -> turning_*; ... last job failed ->      *)
(* error (until a later success)": every answer of state() follows this    *)
(* rule at some moment of the call.  False: a job that starts between the  *)
(* two reads hides the failure before it without being seen itself.        *)
(***************************************************************************)
AnswerWasTrue ==
    [][\A r \in Request : Returns(r) => Said(r) \in seen[r]]_vars

Current(entry) == entry.kind = "list" => entry.world = world

(***************************************************************************)
(* Invalidation reaches everything but a call under way: when no job is at *)
(* work, the entry describes what is deployed unless an invalidation passed *)
(* between the probe and the write of the call that wrote it               *)
(* (engine.py:358-359, 493, 507, 397).                                     *)
(***************************************************************************)
UncrossedIsCurrent == Quiet => cache.crossed \/ Current(cache)
=============================================================================
