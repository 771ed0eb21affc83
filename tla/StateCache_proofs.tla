-------------------------- MODULE StateCache_proofs -------------------------
(***************************************************************************)
(* Proofs about StateCache, for any number of requests and of jobs.        *)
(***************************************************************************)
EXTENDS StateCache, UseCaseJobs_proofs

-----------------------------------------------------------------------------
(* Types.                                                                  *)

Threads == [Thread -> InState \cup {"new", "invalidate", "done"}]

\* The constant entries and locals are entries and locals.
LEMMA EntryTypes == Missing \in Entry /\ Idle \in Locals
BY DEF Missing, Idle, Entry, Locals, AtFirst, World

\* The history keeps its types, whatever the step.
LEMMA WatchTypes ==
    ASSUME TypeOK, JobsTypeOK', Watch
    PROVE  /\ seen' \in [Request -> SUBSET (Turning \cup {"error", "probe"})]
           /\ claimed' \in [Request -> BOOLEAN]
           /\ crossed' \in [Thread -> BOOLEAN]
<1>1. Truth' \in Turning \cup {"error", "probe"}
  BY DEF Truth, Turning
<1>2. \A r \in Request : Seen(r) \subseteq Turning \cup {"error", "probe"}
  BY <1>1 DEF Seen, TypeOK
<1>3. seen' \in [Request -> SUBSET (Turning \cup {"error", "probe"})]
  BY <1>2 DEF Watch
<1>4. claimed' \in [Request -> BOOLEAN] /\ crossed' \in [Thread -> BOOLEAN]
  BY DEF Watch
<1>5. QED
  BY <1>3, <1>4

\* A thread keeps what a read gave it.
LEMMA TypeOfLocals ==
    ASSUME TypeOK, NEW p \in Thread
    PROVE  /\ \A force \in BOOLEAN :
                  [req EXCEPT ![p].op = "state", ![p].force = force] \in [Thread -> Locals]
           /\ [req EXCEPT ![p].op = "refresh", ![p].force = TRUE] \in [Thread -> Locals]
           /\ [Idle EXCEPT !.op = "state"] \in Locals
<1>1. req \in [Thread -> Locals] /\ req[p] \in Locals
  BY DEF TypeOK
<1>2. \A force \in BOOLEAN : [req[p] EXCEPT !.op = "state", !.force = force] \in Locals
  BY <1>1 DEF Locals
<1>3. [req[p] EXCEPT !.op = "refresh", !.force = TRUE] \in Locals
  BY <1>1 DEF Locals
<1>4. \A force \in BOOLEAN :
          [req EXCEPT ![p].op = "state", ![p].force = force]
             = [req EXCEPT ![p] = [req[p] EXCEPT !.op = "state", !.force = force]]
  BY <1>1 DEF Locals
<1>5. [req EXCEPT ![p].op = "refresh", ![p].force = TRUE]
         = [req EXCEPT ![p] = [req[p] EXCEPT !.op = "refresh", !.force = TRUE]]
  BY <1>1 DEF Locals
<1>6. [Idle EXCEPT !.op = "state"] \in Locals
  BY EntryTypes DEF Locals
<1>7. QED
  BY <1>1, <1>2, <1>3, <1>4, <1>5, <1>6

\* state() returns.
LEMMA TypeOfReturn ==
    ASSUME TypeOK, NEW p \in Thread, NEW from, Return(p, from)
    PROVE  pc' \in Threads /\ req' \in [Thread -> Locals]
<1>1. pc' \in Threads
  BY DEF TypeOK, Return, Goto, Threads, InState
<1>2. \E locals \in Locals : req' = [req EXCEPT ![p] = locals]
  BY EntryTypes, TypeOfLocals, Zenon DEF Return
<1>3. QED
  BY <1>1, <1>2 DEF TypeOK

\* What state() does to the cache, to where a thread is and to its locals.
LEMMA TypeOfState ==
    ASSUME TypeOK, JobsInv, NEW p \in Thread, StateStep(p)
    PROVE  cache' \in Entry /\ fresh' \in BOOLEAN /\ pc' \in Threads /\ req' \in [Thread -> Locals]
<1> USE DEF cacheVars
<1>1. req[p] \in Locals /\ req[p].held \in Entry
  BY DEF TypeOK, Locals
<1>2. CASE ReadRunning(p)
  <2>1. slot # NoJob => ActionOf[slot] \in Action
    BY CacheAssumption DEF TypeOK, JobsTypeOK
  <2>2. (IF slot = NoJob THEN "none" ELSE ActionOf[slot]) \in {"none"} \cup Action
    BY <2>1
  <2>3. req' \in [Thread -> Locals]
    BY <1>1, <1>2, <2>2 DEF TypeOK, ReadRunning, Locals
  <2>4. QED
    BY <1>2, <2>3 DEF TypeOK, ReadRunning, Goto, Threads, InState
<1>3. CASE ReadRuns(p)
  <2>1. req' \in [Thread -> Locals]
    BY <1>1, <1>3 DEF TypeOK, ReadRuns, Locals
  <2>2. QED
    BY <1>3, <2>1 DEF TypeOK, ReadRuns, Goto, Threads, InState
<1>4. CASE ReadCache(p)
  BY <1>4, TypeOfReturn DEF TypeOK, ReadCache
<1>5. CASE ReadCacheMiss(p)
  BY <1>5 DEF TypeOK, ReadCacheMiss, Goto, Threads, InState
<1>6. CASE Probe(p)
  <2>1. \A entry \in {[Missing EXCEPT !.kind = "list", !.world = world],
                      [Missing EXCEPT !.kind = "error"]} : entry \in Entry
    <3>1. Missing \in Entry /\ world \in World
      BY EntryTypes DEF TypeOK, JobsTypeOK
    <3>2. [Missing EXCEPT !.kind = "list", !.world = world] \in Entry
      BY <3>1 DEF Entry
    <3>3. [Missing EXCEPT !.kind = "error"] \in Entry
      BY <3>1 DEF Entry
    <3>4. QED
      BY <3>2, <3>3
  <2>2. req' \in [Thread -> Locals]
    BY <1>1, <1>6, <2>1 DEF TypeOK, Probe, Locals
  <2>3. QED
    BY <1>6, <2>2 DEF TypeOK, Probe, Goto, Threads, InState
<1>7. CASE WriteState(p)
  <2>1. [req[p].held EXCEPT !.crossed = crossed[p]] \in Entry
    BY <1>1 DEF TypeOK, Entry
  <2>2. QED
    BY <1>7, <2>1, TypeOfReturn DEF WriteState
<1>8. QED
  BY <1>2, <1>3, <1>4, <1>5, <1>6, <1>7 DEF StateStep

TypeInv == TypeOK /\ JobsInv

\* The steps of the jobs keep the types of the caches and of the threads.
LEMMA TypeOfJobs ==
    ASSUME TypeOK, NEW j \in Job, JobStarts(j) \/ JobWorks(j) \/ HookInvalidate(j)
    PROVE  cache' \in Entry /\ fresh' \in BOOLEAN /\ pc' \in Threads /\ req' \in [Thread -> Locals]
<1>1. CASE JobStarts(j) \/ JobWorks(j)
  BY <1>1 DEF TypeOK, JobStarts, JobWorks, cacheVars, Threads
<1>2. CASE HookInvalidate(j)
  <2>1. j \in Thread
    BY DEF Thread
  <2>2. pc' \in Threads
    BY <1>2, <2>1 DEF TypeOK, HookInvalidate, Goto, Threads, InState
  <2>3. req' \in [Thread -> Locals]
    <3>1. [req EXCEPT ![j].op = "state", ![j].force = TRUE] \in [Thread -> Locals]
      BY <2>1, TypeOfLocals
    <3>2. QED
      BY <1>2, <3>1, Zenon DEF TypeOK, HookInvalidate
  <2>4. QED
    BY <1>2, <2>2, <2>3, EntryTypes DEF HookInvalidate, Invalidate
<1>3. QED
  BY <1>1, <1>2

\* The arrival of a request and its invalidation keep them.
LEMMA TypeOfArrival ==
    ASSUME TypeOK, NEW r \in Request, Arrive(r) \/ RefreshInvalidate(r)
    PROVE  cache' \in Entry /\ fresh' \in BOOLEAN /\ pc' \in Threads /\ req' \in [Thread -> Locals]
<1>1. r \in Thread
  BY DEF Thread
<1>2. pc' \in Threads
  BY <1>1 DEF TypeOK, Arrive, RefreshInvalidate, Goto, Threads, InState
<1>3. CASE Arrive(r)
  <2>1. ASSUME NEW force \in BOOLEAN,
               req' = [req EXCEPT ![r].op = "state", ![r].force = force]
        PROVE  req' \in [Thread -> Locals]
    BY <1>1, <2>1, TypeOfLocals, Zenon
  <2>2. ASSUME req' = [req EXCEPT ![r].op = "refresh", ![r].force = TRUE]
        PROVE  req' \in [Thread -> Locals]
    BY <1>1, <2>2, TypeOfLocals, Zenon
  <2>3. req' \in [Thread -> Locals]
    BY <1>3, <2>1, <2>2 DEF Arrive
  <2>4. QED
    BY <1>2, <1>3, <2>3 DEF TypeOK, Arrive, cacheVars
<1>4. CASE RefreshInvalidate(r)
  BY <1>2, <1>4, EntryTypes DEF TypeOK, RefreshInvalidate, Invalidate
<1>5. QED
  BY <1>3, <1>4

\* The types hold at first and are kept by every step.
LEMMA TypeInvHolds == Spec => []TypeInv
<1>1. Init => TypeInv
  <2> SUFFICES ASSUME Init PROVE TypeInv
    OBVIOUS
  <2>1. JobsInv /\ cache \in Entry /\ req \in [Thread -> Locals]
    BY JobsInvInit, EntryTypes DEF Init
  <2>2. QED
    BY <2>1 DEF Init, TypeInv, TypeOK, JobsInv, Turning, InState
<1>2. TypeInv /\ [Next]_vars => TypeInv'
  <2> SUFFICES ASSUME TypeInv, [Next]_vars PROVE TypeInv'
    OBVIOUS
  <2> USE DEF TypeInv
  <2>1. CASE UNCHANGED vars
    BY <2>1 DEF vars, jobVars, cacheVars, TypeOK, JobsTypeOK, JobsInv
  <2>2. CASE Next
    <3>1. JobsInv'
      <4>1. CASE \E j \in Job : JobStarts(j) \/ JobWorks(j) \/ HookInvalidate(j)
        BY <4>1, JobsInvStep DEF JobStarts, JobWorks, HookInvalidate
      <4>2. CASE UNCHANGED jobVars \/ StartInvalidate
        BY <4>2 DEF JobsInv, JobsTypeOK, TypeOK, jobVars, StartInvalidate, Posted
      <4>3. CASE \E r \in Request : Arrive(r) \/ RefreshInvalidate(r)
        BY <4>2, <4>3 DEF Arrive, RefreshInvalidate
      <4>4. CASE \E p \in Thread : StateStep(p)
        BY <4>2, <4>4
        DEF StateStep, ReadRunning, ReadRuns, ReadCache, ReadCacheMiss, Probe, WriteState
      <4>5. CASE Expire
        BY <4>2, <4>5 DEF Expire
      <4>6. QED
        BY <2>2, <4>1, <4>2, <4>3, <4>4, <4>5 DEF Next, Act
    <3>2. cache' \in Entry /\ fresh' \in BOOLEAN /\ pc' \in Threads /\ req' \in [Thread -> Locals]
      <4>1. CASE StartInvalidate \/ Expire
        BY <4>1, EntryTypes DEF StartInvalidate, Expire, Invalidate, TypeOK, Threads
      <4>2. QED
        BY <2>2, <4>1, TypeOfJobs, TypeOfArrival, TypeOfState DEF Next, Act
    <3>3. QED
      BY <2>2, <3>1, <3>2, WatchTypes DEF TypeOK, JobsInv, Threads, Next
  <2>3. QED
    BY <2>1, <2>2
<1>3. QED
  BY <1>1, <1>2, PTL DEF Spec

\* The cache, the threads, the jobs and the history have their types.
THEOREM StateTypes == Spec => []TypeOK
<1>1. TypeInv => TypeOK
  BY DEF TypeInv
<1>2. QED
  BY <1>1, TypeInvHolds, PTL

-----------------------------------------------------------------------------
(* The entry.  What a thread probed is as current as the entry, until it   *)
(* writes it.                                                              *)

CurrentInv ==
    Quiet => /\ cache.crossed \/ Current(cache)
             /\ \A p \in Thread : pc[p] = "write" => crossed[p] \/ Current(req[p].held)

\* Invalidation leaves no entry, and crosses every probe that is not written.
LEMMA InvalidationFits ==
    ASSUME Watch, Invalidate, Invalidates,
           \A p \in Thread : pc'[p] = "write" => pc[p] = "write" /\ req'[p] = req[p]
    PROVE  CurrentInv'
BY DEF Watch, Invalidate, Missing, Current, CurrentInv

\* A step of state() keeps the invariant.
LEMMA CurrentState ==
    ASSUME TypeOK, CurrentInv, Watch, NEW p \in Thread, StateStep(p)
    PROVE  CurrentInv'
<1> USE DEF Goto, cacheVars
<1>1. req[p] \in Locals /\ req[p].held \in Entry
  BY DEF TypeOK, Locals
<1>2. ASSUME UNCHANGED jobVars,
             \A q \in Thread \ {p} : pc'[q] = pc[q] /\ req'[q] = req[q],
             Quiet => cache'.crossed \/ Current(cache'),
             Quiet /\ pc'[p] = "write" => Current(req'[p].held)
      PROVE  CurrentInv'
  <2> SUFFICES ASSUME Quiet PROVE CurrentInv'
    BY <1>2 DEF CurrentInv, Quiet, jobVars
  <2>1. ASSUME NEW q \in Thread, pc'[q] = "write"
        PROVE  (crossed[q] \/ Current(req[q].held))'
    <3>1. CASE q = p
      BY <1>2, <2>1, <3>1 DEF Current, jobVars
    <3>2. CASE q # p
      <4>1. crossed[q] => crossed'[q]
        BY <1>2, <2>1, <3>2 DEF Watch
      <4>2. QED
        BY <1>2, <2>1, <3>2, <4>1 DEF CurrentInv, Current, jobVars
    <3>3. QED
      BY <3>1, <3>2
  <2>2. (cache.crossed \/ Current(cache))'
    BY <1>2 DEF Current, jobVars
  <2>3. QED
    BY <2>1, <2>2 DEF CurrentInv
<1>3. CASE ReadRunning(p) \/ ReadRuns(p) \/ ReadCacheMiss(p)
  BY <1>2, <1>3 DEF TypeOK, ReadRunning, ReadRuns, ReadCacheMiss, CurrentInv
<1>4. CASE ReadCache(p)
  BY <1>2, <1>4 DEF TypeOK, ReadCache, Return, CurrentInv
<1>5. CASE Probe(p)
  <2>1. Current(req'[p].held)
    <3>1. ASSUME NEW entry, req' = [req EXCEPT ![p].held = entry] PROVE req'[p].held = entry
      BY <1>1, <3>1 DEF TypeOK, Locals
    <3>2. QED
      BY <1>5, <3>1 DEF Probe, Missing, Current
  <2>2. QED
    BY <1>2, <1>5, <2>1 DEF TypeOK, Probe, CurrentInv
<1>6. CASE WriteState(p)
  <2>1. cache'.crossed = crossed[p] /\ (Current(req[p].held) => Current(cache'))
    BY <1>1, <1>6 DEF WriteState, Entry, Current
  <2>2. pc[p] = "write" /\ pc'[p] # "write"
    BY <1>6 DEF TypeOK, WriteState, Return
  <2>3. QED
    BY <1>2, <1>6, <2>1, <2>2 DEF TypeOK, WriteState, Return, CurrentInv
<1>7. QED
  BY <1>3, <1>4, <1>5, <1>6 DEF StateStep

\* When no job is at work, the entry is of what is deployed, unless an
\* invalidation passed between the probe and the write that made it.
THEOREM UncrossedEntry == Spec => []UncrossedIsCurrent
<1>1. Init => CurrentInv
  BY DEF Init, CurrentInv, Current, Missing
<1>2. TypeInv /\ CurrentInv /\ [Next]_vars => CurrentInv'
  <2> SUFFICES ASSUME TypeInv, CurrentInv, [Next]_vars PROVE CurrentInv'
    OBVIOUS
  <2>1. CASE UNCHANGED vars
    BY <2>1 DEF vars, jobVars, cacheVars, CurrentInv, Current, Quiet
  <2>2. ASSUME NEW j \in Job, JobStarts(j) \/ JobWorks(j), Watch PROVE CurrentInv'
    BY <2>2, WorkIsNotQuiet DEF TypeInv, TypeOK, JobStarts, JobWorks, CurrentInv
  <2>3. ASSUME NEW j \in Job, HookInvalidate(j), Watch PROVE CurrentInv'
    <3>1. JobInvalidates
      BY <2>3, EndsInvalidate DEF TypeInv, TypeOK, HookInvalidate
    <3>2. \A p \in Thread : pc'[p] = "write" => pc[p] = "write" /\ req'[p] = req[p]
      BY <2>3 DEF TypeInv, TypeOK, HookInvalidate, Goto
    <3>3. QED
      BY <2>3, <3>1, <3>2, InvalidationFits DEF HookInvalidate, Invalidates
  <2>4. ASSUME StartInvalidate, Watch PROVE CurrentInv'
    <3>1. JobInvalidates
      BY <2>4 DEF StartInvalidate, Posted, JobInvalidates
    <3>2. QED
      BY <2>4, <3>1, InvalidationFits DEF StartInvalidate, Invalidates
  <2>5. ASSUME NEW r \in Request, RefreshInvalidate(r), Watch PROVE CurrentInv'
    <3>1. Invalidates
      BY <2>5 DEF TypeInv, TypeOK, RefreshInvalidate, Goto, Invalidates, Thread
    <3>2. QED
      BY <2>5, <3>1, InvalidationFits DEF TypeInv, TypeOK, RefreshInvalidate, Goto
  <2>6. ASSUME NEW r \in Request, Arrive(r), Watch PROVE CurrentInv'
    <3>1. \A p \in Thread :
              pc'[p] = "write" =>
                 /\ pc[p] = "write" /\ req'[p] = req[p]
                 /\ crossed[p] => crossed'[p]
      BY <2>6 DEF TypeInv, TypeOK, Arrive, Goto, Watch
    <3>2. QED
      <4>1. UNCHANGED <<jobVars, cacheVars>>
        BY <2>6 DEF Arrive
      <4>2. QED
        BY <3>1, <4>1 DEF jobVars, cacheVars, CurrentInv, Current, Quiet
  <2>7. ASSUME NEW p \in Thread, StateStep(p), Watch PROVE CurrentInv'
    BY <2>7, CurrentState DEF TypeInv
  <2>8. ASSUME Expire, Watch PROVE CurrentInv'
    <3>1. \A p \in Thread : pc[p] = "write" => (crossed[p] => crossed'[p])
      BY <2>8 DEF Expire, Watch
    <3>2. QED
      BY <2>8, <3>1 DEF Expire, jobVars, CurrentInv, Current, Quiet
  <2>9. QED
    BY <2>1, <2>2, <2>3, <2>4, <2>5, <2>6, <2>7, <2>8 DEF Next, Act
<1>3. CurrentInv => UncrossedIsCurrent
  BY DEF CurrentInv, UncrossedIsCurrent
<1>4. QED
  BY <1>1, <1>2, <1>3, TypeInvHolds, PTL DEF Spec
-----------------------------------------------------------------------------
(* The answers.  Until a job starts, what a request has read of the jobs   *)
(* is among what it has seen of them.                                      *)

Turns(run) == IF run = "on" THEN "turning_on" ELSE "turning_off"

\* What holds of one request.
Follows(r) ==
    ~claimed[r] =>
       /\ pc[r] = "runs" =>
             IF req[r].run = "none" THEN slot = NoJob ELSE Turns(req[r].run) \in seen[r]
       /\ pc[r] \in {"cache", "probe", "write"} => Said(r) \in seen[r]

AnswerInv == JobsAgree /\ \A r \in Request : Follows(r)

\* What the history of one request becomes.
LEMMA HistoryOf ==
    ASSUME Watch, NEW r \in Request
    PROVE  /\ pc'[r] = "runs" => seen'[r] = Seen(r)
           /\ pc'[r] \in {"cache", "probe", "write"} => seen'[r] = Seen(r) \cap {Said(r)'}
           /\ ~claimed'[r] /\ Asking(r) => ~claimed[r] /\ begun' = begun
BY DEF Watch, InState

\* The steps that leave a request where it is.
LEMMA FollowsOther ==
    ASSUME Watch, NEW r \in Request, Follows(r),
           pc'[r] = pc[r], req'[r] = req[r],
           begun' = begun /\ slot = NoJob => slot' = NoJob
    PROVE  Follows(r)'
<1>1. Said(r)' = Said(r)
  BY DEF Said, Says, Derive
<1>2. pc[r] \in {"runs", "cache", "probe", "write"} => Asking(r) /\ seen[r] \subseteq Seen(r)
  BY DEF Asking, InState, Seen
<1>3. QED
  BY <1>1, <1>2, HistoryOf DEF Follows

\* The steps after which a request has read nothing yet.
LEMMA FollowsOutside ==
    ASSUME NEW r \in Request, pc'[r] \notin {"runs", "cache", "probe", "write"}
    PROVE  Follows(r)'
BY DEF Follows

\* The steps of its own that lead it through state().
LEMMA FollowsReads ==
    ASSUME TypeOK, JobsAgree, Watch, NEW r \in Request, Follows(r), req'[r] \in Locals,
           ReadRunning(r) \/ ReadRuns(r) \/ ReadCacheMiss(r) \/ Probe(r)
    PROVE  Follows(r)'
<1> USE DEF Goto, Thread
<1>1. r \in Thread /\ req[r] \in Locals
  BY DEF TypeOK
<1>2. CASE ReadRunning(r)
  <2>1. pc'[r] = "runs" /\ UNCHANGED jobVars
    BY <1>1, <1>2 DEF TypeOK, ReadRunning
  <2>2. req'[r].run = IF slot = NoJob THEN "none" ELSE ActionOf[slot]
    BY <1>1, <1>2 DEF TypeOK, ReadRunning, Locals
  <2>3. Truth' \in seen'[r]
    BY <2>1, HistoryOf DEF Seen
  <2>4. slot # NoJob => ActionOf[slot] \in Action
    BY CacheAssumption DEF TypeOK, JobsTypeOK
  <2>5. slot # NoJob => req'[r].run # "none" /\ Truth' = Turns(req'[r].run)
    BY <2>1, <2>2, <2>4 DEF Truth, Turns, Action, jobVars
  <2>6. QED
    BY <2>1, <2>2, <2>3, <2>5 DEF Follows, jobVars
<1>3. CASE ReadRuns(r)
  <2>1. pc[r] = "runs" /\ pc'[r] = "cache" /\ UNCHANGED jobVars
    BY <1>1, <1>3 DEF TypeOK, ReadRuns
  <2>2. /\ req'[r].run = req[r].run
        /\ req'[r].failed = (begun # NoJob /\ record[begun] = "failed")
    BY <1>1, <1>3 DEF TypeOK, ReadRuns, Locals
  <2>3. Asking(r) /\ Seen(r) = {Truth'} \cup seen[r]
    BY <2>1 DEF Asking, InState, Seen
  <2>4. Said(r)' = IF req'[r].run # "none" THEN Turns(req'[r].run)
                   ELSE IF req'[r].failed THEN "error" ELSE "probe"
    BY DEF Said, Says, Derive, Turning, Turns, Missing, AtFirst, Locals, Action
  <2>5. ASSUME ~claimed[r], begun' = begun PROVE Said(r)' \in Seen(r)
    <3>1. CASE req[r].run = "none"
      <4>1. slot = NoJob
        BY <2>1, <2>5, <3>1 DEF Follows
      <4>2. begun # NoJob => begun \in Job /\ record[begun] = verdict[begun]
        BY <4>1 DEF TypeOK, JobsTypeOK, JobsAgree
      <4>3. Truth' = IF begun # NoJob /\ record[begun] = "failed" THEN "error" ELSE "probe"
        BY <2>1, <4>1, <4>2 DEF Truth, jobVars
      <4>4. QED
        BY <2>2, <2>3, <2>4, <3>1, <4>3
    <3>2. CASE req[r].run # "none"
      BY <2>1, <2>2, <2>3, <2>4, <2>5, <3>2 DEF Follows
    <3>3. QED
      BY <3>1, <3>2
  <2>6. QED
    BY <2>1, <2>3, <2>5, HistoryOf DEF Follows
<1>4. CASE ReadCacheMiss(r) \/ Probe(r)
  <2>1. /\ pc[r] \in {"cache", "probe", "write"}
        /\ pc'[r] \in {"cache", "probe", "write"}
    BY <1>1, <1>4 DEF TypeOK, ReadCacheMiss, Probe
  <2>2. req'[r].run = req[r].run /\ req'[r].failed = req[r].failed
    BY <1>1, <1>4 DEF TypeOK, ReadCacheMiss, Probe, Locals
  <2>3. Said(r)' = Said(r)
    BY <2>2 DEF Said, Says, Derive
  <2>4. Asking(r) /\ seen[r] \subseteq Seen(r)
    BY <2>1 DEF Asking, InState, Seen
  <2>5. QED
    BY <2>1, <2>3, <2>4, HistoryOf DEF Follows
<1>5. QED
  BY <1>2, <1>3, <1>4

\* A step of state(), of the request itself or of another thread.
LEMMA FollowsState ==
    ASSUME TypeInv, TypeOK', JobsAgree, Watch, NEW r \in Request, Follows(r),
           NEW p \in Thread, StateStep(p)
    PROVE  Follows(r)'
<1>1. CASE p # r
  <2>1. pc'[r] = pc[r] /\ req'[r] = req[r]
    BY <1>1 DEF TypeInv, TypeOK, Thread, Goto, Return,
                StateStep, ReadRunning, ReadRuns, ReadCache, ReadCacheMiss, Probe, WriteState
  <2>2. UNCHANGED jobVars
    BY DEF StateStep, ReadRunning, ReadRuns, ReadCache, ReadCacheMiss, Probe, WriteState
  <2>3. QED
    BY <2>1, <2>2, FollowsOther DEF jobVars
<1>2. CASE p = r
  <2>1. CASE ReadCache(r) \/ WriteState(r)
    <3>1. pc'[r] \in {"running", "done"}
      BY <2>1 DEF TypeInv, TypeOK, Thread, ReadCache, WriteState, Return, Goto
    <3>2. QED
      BY <3>1, FollowsOutside
  <2>2. req'[r] \in Locals
    BY DEF TypeOK, Thread
  <2>3. QED
    BY <1>2, <2>1, <2>2, FollowsReads DEF TypeInv, StateStep
<1>3. QED
  BY <1>1, <1>2

\* The steps of the jobs, the arrivals and the invalidations.
LEMMA FollowsRest ==
    ASSUME TypeInv, JobsAgree, Watch, NEW r \in Request, Follows(r),
           \/ \E j \in Job : JobStarts(j) \/ JobWorks(j) \/ HookInvalidate(j)
           \/ StartInvalidate
           \/ \E q \in Request : Arrive(q) \/ RefreshInvalidate(q)
           \/ Expire
    PROVE  Follows(r)'
<1> USE DEF TypeInv, TypeOK
<1>1. ASSUME NEW j \in Job, JobStarts(j) \/ JobWorks(j) \/ HookInvalidate(j)
      PROVE  Follows(r)'
  <2>1. r # j /\ r \in Thread
    BY CacheAssumption DEF Thread
  <2>2. pc'[r] = pc[r] /\ req'[r] = req[r]
    BY <1>1, <2>1 DEF JobStarts, JobWorks, HookInvalidate, Goto
  <2>3. begun' = begun /\ slot = NoJob => slot' = NoJob
    BY <1>1, SlotIsFilledByStart DEF JobStarts, JobWorks, HookInvalidate
  <2>4. QED
    BY <2>2, <2>3, FollowsOther
<1>2. CASE StartInvalidate \/ Expire
  <2>1. pc'[r] = pc[r] /\ req'[r] = req[r] /\ slot' = slot
    BY <1>2 DEF StartInvalidate, Posted, Expire, jobVars
  <2>2. QED
    BY <2>1, FollowsOther
<1>3. ASSUME NEW q \in Request, Arrive(q) \/ RefreshInvalidate(q)
      PROVE  Follows(r)'
  <2>1. slot' = slot
    BY <1>3 DEF Arrive, RefreshInvalidate, jobVars
  <2>2. CASE q = r
    <3>1. pc'[r] \in {"running", "invalidate"}
      BY <1>3, <2>2 DEF Arrive, RefreshInvalidate, Goto, Thread
    <3>2. QED
      BY <3>1, FollowsOutside
  <2>3. CASE q # r
    <3>1. pc'[r] = pc[r] /\ req'[r] = req[r]
      BY <1>3, <2>3 DEF Arrive, RefreshInvalidate, Goto, Thread
    <3>2. QED
      BY <2>1, <3>1, FollowsOther
  <2>4. QED
    BY <2>2, <2>3
<1>4. QED
  BY <1>1, <1>2, <1>3

\* The invariant holds at first and is kept by every step.
LEMMA AnswerInvHolds == Spec => []AnswerInv
<1>1. Init => AnswerInv
  BY JobsAgreeInit DEF Init, AnswerInv, Follows, Thread
<1>2. TypeInv /\ TypeInv' /\ AnswerInv /\ [Next]_vars => AnswerInv'
  <2> SUFFICES ASSUME TypeInv, TypeInv', AnswerInv, [Next]_vars PROVE AnswerInv'
    OBVIOUS
  <2>1. CASE UNCHANGED vars
    BY <2>1 DEF vars, jobVars, AnswerInv, JobsAgree, Follows, Said, Says, Derive
  <2>2. CASE Next
    <3>1. JobsAgree'
      <4>1. ASSUME UNCHANGED jobVars PROVE JobsAgree'
        BY <4>1 DEF AnswerInv, JobsAgree, jobVars
      <4>2. CASE \E j \in Job : JobStarts(j) \/ JobWorks(j) \/ HookInvalidate(j)
        BY <4>2, JobsAgreeStep
        DEF AnswerInv, TypeInv, TypeOK, JobStarts, JobWorks, HookInvalidate
      <4>3. CASE StartInvalidate
        BY <4>3 DEF AnswerInv, JobsAgree, StartInvalidate, Posted
      <4>4. CASE \E r \in Request : Arrive(r) \/ RefreshInvalidate(r)
        BY <4>1, <4>4 DEF Arrive, RefreshInvalidate
      <4>5. CASE \E p \in Thread : StateStep(p)
        BY <4>1, <4>5
        DEF StateStep, ReadRunning, ReadRuns, ReadCache, ReadCacheMiss, Probe, WriteState
      <4>6. CASE Expire
        BY <4>1, <4>6 DEF Expire
      <4>7. QED
        BY <2>2, <4>2, <4>3, <4>4, <4>5, <4>6 DEF Next, Act
    <3>2. ASSUME NEW r \in Request PROVE Follows(r)'
      BY <2>2, FollowsState, FollowsRest DEF AnswerInv, TypeInv, Next, Act
    <3>3. QED
      BY <3>1, <3>2 DEF AnswerInv
  <2>3. QED
    BY <2>1, <2>2
<1>3. QED
  BY <1>1, <1>2, TypeInvHolds, PTL DEF Spec

\* Unless a job starts while a request is in state(), what its answer says of
\* the jobs was so at some moment of the call.
THEOREM AnswersFollow == Spec => AnswerFollowsJobs
<1>1. AnswerInv =>
        [\A r \in Request : Returns(r) /\ ~claimed[r] => Said(r) \in seen[r]]_vars
  BY DEF AnswerInv, Follows, Returns
<1>2. QED
  BY <1>1, AnswerInvHolds, PTL DEF AnswerFollowsJobs
=============================================================================
