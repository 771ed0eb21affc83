-------------------------- MODULE JobRunner_proofs --------------------------
(***************************************************************************)
(* Proofs about JobRunner, for every set of use cases and jobs, every      *)
(* number of steps and every bound on the faults.                          *)
(***************************************************************************)
EXTENDS JobRunner, TLAPS

-----------------------------------------------------------------------------
(* Records and what the actions make of them.                              *)

\* The records the code builds are records.
LEMMA RecordTypes ==
    /\ Absent \in Record
    /\ Started \in Record
    /\ \A rec \in Record : Recovered(rec) \in Record
BY DEF Absent, Started, Record, Recovered, RecoveredStep, StepState, Final

\* SetStep changes the state of one step and nothing else.
LEMMA SetStepFacts ==
    ASSUME NEW rec \in Record, NEW i \in Step, NEW s \in StepState
    PROVE  /\ SetStep(rec, i, s) \in Record
           /\ SetStep(rec, i, s).state = rec.state
           /\ SetStep(rec, i, s).error = rec.error
           /\ SetStep(rec, i, s).steps[i] = s
           /\ \A k \in Step \ {i} : SetStep(rec, i, s).steps[k] = rec.steps[k]
BY DEF SetStep, Record

\* The step states the actions assign.
LEMMA StatesAreStates ==
    /\ "skipped" \in StepState
    /\ "running" \in StepState
    /\ "failed" \in StepState
    /\ \A r \in Final : r \in StepState
BY DEF StepState, Final

-----------------------------------------------------------------------------
(* Types.                                                                  *)

\* start() and start() with a failing save.
LEMMA TypeOfStart ==
    ASSUME TypeOK, NEW j \in Job, Start(j) \/ StartFault(j)
    PROVE  TypeOK'
BY JobAssumption, RecordTypes DEF TypeOK, Start, StartFault, Claim, ThreadAt

\* _run() up to the loop.
LEMMA TypeOfPrelude ==
    ASSUME TypeOK, NEW j \in Job,
           \/ OpenLog(j) \/ WriteHeader(j) \/ PreludeDone(j)
           \/ PreludeFails(j) \/ SkipAll(j) \/ SaveUnprepared(j)
    PROVE  TypeOK'
<1> USE DEF TypeOK, Goto, ThreadAt
<1>1. CASE OpenLog(j) \/ WriteHeader(j) \/ PreludeDone(j)
  BY <1>1 DEF OpenLog, WriteHeader, PreludeDone
<1>2. CASE PreludeFails(j)
  BY <1>2 DEF PreludeFails, Record
<1>3. CASE SkipAll(j)
  BY <1>3 DEF SkipAll, Record, StepState
<1>4. CASE SaveUnprepared(j)
  BY <1>4 DEF SaveUnprepared, SaveRecord
<1>5. QED
  BY <1>1, <1>2, <1>3, <1>4

\* The record of j gets a new state for the step at the loop index.
LEMMA TypeOfSetStep ==
    ASSUME mem \in [Job -> Record], NEW j \in Job, NEW s \in StepState,
           idx[j] \in Step,
           mem' = [mem EXCEPT ![j] = SetStep(@, idx[j], s)]
    PROVE  mem' \in [Job -> Record]
BY SetStepFacts

\* While a step is handled the loop index is the index of that step.
InStep(j) == pc[j] \in {"mark", "announce", "exec", "given_up", "report", "save_step"} =>
                 idx[j] \in Step

TypeInv == TypeOK /\ \A j \in Job : InStep(j)

\* A round of the loop, up to the step's save.
LEMMA TypeOfRound ==
    ASSUME TypeOK, NEW j \in Job, InStep(j),
           \/ SkipStep(j) \/ BeginStep(j) \/ SaveRunning(j) \/ Spawn(j)
           \/ SpawnFails(j) \/ GiveUp(j) \/ StepExits(j) \/ TailFault(j) \/ SaveStep(j)
    PROVE  TypeOK'
<1> USE JobAssumption DEF TypeOK, InStep, Goto
<1>1. CASE SkipStep(j)
  <2>1. mem' \in [Job -> Record]
    BY <1>1, StatesAreStates, TypeOfSetStep DEF SkipStep
  <2>2. idx' \in [Job -> 1..(NumSteps + 1)]
    BY <1>1 DEF SkipStep, Step
  <2>3. QED
    BY <1>1, <2>1, <2>2 DEF SkipStep
<1>2. CASE BeginStep(j)
  <2>1. mem' \in [Job -> Record]
    BY <1>2, StatesAreStates, TypeOfSetStep DEF BeginStep
  <2>2. QED
    BY <1>2, <2>1 DEF BeginStep, ThreadAt
<1>3. CASE SaveRunning(j) \/ Spawn(j)
  BY <1>3 DEF SaveRunning, Spawn, SaveRecord, ThreadAt
<1>4. CASE GiveUp(j) \/ StepExits(j)
  <2>1. mem' \in [Job -> Record]
    BY <1>4, StatesAreStates, TypeOfSetStep DEF GiveUp, StepExits, SetResult
  <2>2. QED
    BY <1>4, <2>1 DEF GiveUp, StepExits, ThreadAt
<1>5. CASE SpawnFails(j) \/ TailFault(j)
  BY <1>5 DEF SpawnFails, TailFault, ThreadAt
<1>6. CASE SaveStep(j)
  BY <1>6 DEF SaveStep, SaveRecord, Step, ThreadAt
<1>7. QED
  BY <1>1, <1>2, <1>3, <1>4, <1>5, <1>6

\* What changes a record's verdict, its slot or its thread.
LEMMA TypeOfEnd ==
    ASSUME TypeOK, NEW j \in Job,
           \/ Report(j) \/ Seal(j) \/ FinalSave(j) \/ Release(j) \/ Hook(j)
           \/ ThreadDies(j) \/ WriteFault(j) \/ OrphanExits(j) \/ Recover(j)
    PROVE  TypeOK'
<1> USE JobAssumption, RecordTypes DEF TypeOK, Goto, ThreadAt
<1>1. CASE Report(j)
  <2>1. [mem[j] EXCEPT !.error = "step"] \in Record
    BY DEF Record
  <2>2. QED
    BY <1>1, <2>1 DEF Report
<1>2. CASE Seal(j)
  <2>1. \A s \in Final : [mem[j] EXCEPT !.state = s] \in Record
    BY DEF Record
  <2>2. QED
    BY <1>2, <2>1 DEF Seal, Final
<1>3. CASE FinalSave(j) \/ Release(j)
  BY <1>3 DEF FinalSave, Release, SaveRecord
<1>4. CASE Hook(j)
  BY <1>4 DEF Hook
<1>5. CASE ThreadDies(j) \/ WriteFault(j)
  BY <1>5 DEF ThreadDies, WriteFault
<1>6. CASE OrphanExits(j) \/ Recover(j)
  BY <1>6 DEF OrphanExits, Recover
<1>7. QED
  BY <1>1, <1>2, <1>3, <1>4, <1>5, <1>6

\* The process as a whole.
LEMMA TypeOfRestart ==
    ASSUME TypeOK, Crash \/ Serve \/ UNCHANGED vars
    PROVE  TypeOK'
<1> USE JobAssumption, RecordTypes DEF TypeOK
<1>1. CASE Crash
  <2>1. idx' \in [Job -> 1..(NumSteps + 1)]
    BY <1>1 DEF Crash
  <2>2. failed' \in [Job -> BOOLEAN] /\ up' \in BOOLEAN
    BY <1>1 DEF Crash
  <2>3. mem' \in [Job -> Record]
    BY <1>1 DEF Crash
  <2>4. QED
    BY <1>1, <2>1, <2>2, <2>3 DEF Crash
<1>2. CASE Serve \/ UNCHANGED vars
  BY <1>2 DEF Serve, vars
<1>3. QED
  BY <1>1, <1>2

-----------------------------------------------------------------------------
(* One step of the system concerns one job, or is a restart.               *)

JobStep(j) ==
    \/ Start(j) \/ StartFault(j) \/ OpenLog(j) \/ WriteHeader(j)
    \/ PreludeDone(j) \/ PreludeFails(j) \/ SkipAll(j) \/ SaveUnprepared(j)
    \/ SkipStep(j) \/ BeginStep(j) \/ SaveRunning(j) \/ Spawn(j)
    \/ SpawnFails(j) \/ GiveUp(j) \/ StepExits(j) \/ TailFault(j) \/ SaveStep(j)
    \/ Report(j) \/ Seal(j) \/ FinalSave(j) \/ Release(j) \/ Hook(j)
    \/ ThreadDies(j) \/ WriteFault(j) \/ OrphanExits(j) \/ Recover(j)

\* Next as one disjunction over the jobs.
LEMMA NextCases ==
    ASSUME [Next]_vars
    PROVE  (\E j \in Job : JobStep(j)) \/ Crash \/ Serve \/ UNCHANGED vars
BY DEF Next, ThreadStep, Fault, JobStep

\* A step of job j leaves alone what belongs to another job.
LEMMA OthersUntouched ==
    ASSUME TypeOK, NEW j \in Job, JobStep(j), NEW k \in Job, k # j
    PROVE  /\ mem'[k] = mem[k]
           /\ disk'[k] = disk[k]
           /\ pc'[k] = pc[k]
           /\ idx'[k] = idx[k]
           /\ failed'[k] = failed[k]
<1> USE DEF TypeOK, Goto, Claim, SaveRecord, SetResult
<1>1. CASE \/ Start(j) \/ StartFault(j) \/ OpenLog(j) \/ WriteHeader(j)
           \/ PreludeDone(j) \/ PreludeFails(j) \/ SkipAll(j) \/ SaveUnprepared(j)
  BY <1>1 DEF Start, StartFault, OpenLog, WriteHeader, PreludeDone, PreludeFails,
              SkipAll, SaveUnprepared
<1>2. CASE \/ SkipStep(j) \/ BeginStep(j) \/ SaveRunning(j) \/ Spawn(j)
           \/ SpawnFails(j) \/ GiveUp(j) \/ StepExits(j) \/ TailFault(j) \/ SaveStep(j)
  BY <1>2 DEF SkipStep, BeginStep, SaveRunning, Spawn, SpawnFails, GiveUp, StepExits,
              TailFault, SaveStep
<1>3. CASE Report(j) \/ Seal(j) \/ FinalSave(j) \/ Release(j) \/ Hook(j)
  BY <1>3 DEF Report, Seal, FinalSave, Release, Hook
<1>4. CASE ThreadDies(j) \/ WriteFault(j) \/ OrphanExits(j) \/ Recover(j)
  BY <1>4 DEF ThreadDies, WriteFault, OrphanExits, Recover
<1>5. QED
  BY <1>1, <1>2, <1>3, <1>4 DEF JobStep

\* The loop index is advanced only by the save that ends a round.
LEMMA InStepOfJob ==
    ASSUME TypeOK, NEW j \in Job, InStep(j), JobStep(j)
    PROVE  InStep(j)'
<1> USE DEF TypeOK, Goto, InStep, ThreadAt
<1>1. CASE \/ Start(j) \/ StartFault(j) \/ OpenLog(j) \/ WriteHeader(j)
           \/ PreludeDone(j) \/ PreludeFails(j) \/ SkipAll(j) \/ SaveUnprepared(j)
  BY <1>1 DEF Start, StartFault, Claim, OpenLog, WriteHeader, PreludeDone, PreludeFails,
              SkipAll, SaveUnprepared
<1>2. CASE \/ SkipStep(j) \/ BeginStep(j) \/ SaveRunning(j) \/ Spawn(j)
           \/ SpawnFails(j) \/ GiveUp(j) \/ StepExits(j) \/ TailFault(j) \/ SaveStep(j)
  BY <1>2 DEF SkipStep, BeginStep, SaveRunning, Spawn, SpawnFails, GiveUp, StepExits,
              TailFault, SaveStep
<1>3. CASE Report(j) \/ Seal(j) \/ FinalSave(j) \/ Release(j) \/ Hook(j)
  BY <1>3 DEF Report, Seal, FinalSave, Release, Hook
<1>4. CASE ThreadDies(j) \/ WriteFault(j) \/ OrphanExits(j) \/ Recover(j)
  BY <1>4 DEF ThreadDies, WriteFault, OrphanExits, Recover
<1>5. QED
  BY <1>1, <1>2, <1>3, <1>4 DEF JobStep

\* TypeOK alone is not inductive: SaveStep needs InStep.
LEMMA TypeInvariance == Spec => []TypeInv
<1>1. Init => TypeInv
  <2> SUFFICES ASSUME Init PROVE TypeInv
    OBVIOUS
  <2>1. \A j \in Job : InStep(j)
    BY DEF Init, InStep
  <2>2. idx \in [Job -> 1..(NumSteps + 1)] /\ faults \in 0..MaxFaults
    BY JobAssumption DEF Init
  <2>3. QED
    BY <2>1, <2>2, RecordTypes DEF Init, TypeInv, TypeOK
<1>2. TypeInv /\ [Next]_vars => TypeInv'
  <2> SUFFICES ASSUME TypeInv, [Next]_vars PROVE TypeInv'
    OBVIOUS
  <2>1. TypeOK /\ \A j \in Job : InStep(j)
    BY DEF TypeInv
  <2>2. ASSUME NEW j \in Job, JobStep(j) PROVE TypeInv'
    <3>1. TypeOK'
      BY <2>1, <2>2, TypeOfStart, TypeOfPrelude, TypeOfRound, TypeOfEnd DEF JobStep
    <3>2. ASSUME NEW k \in Job PROVE InStep(k)'
      BY <2>1, <2>2, InStepOfJob, OthersUntouched DEF InStep
    <3>3. QED
      BY <3>1, <3>2 DEF TypeInv
  <2>3. CASE Crash \/ Serve \/ UNCHANGED vars
    <3>1. \A j \in Job : InStep(j)'
      BY <2>1, <2>3 DEF InStep, Crash, Serve, vars
    <3>2. QED
      BY <2>1, <2>3, <3>1, TypeOfRestart DEF TypeInv
  <2>4. QED
    BY <2>2, <2>3, NextCases
<1>3. QED
  BY <1>1, <1>2, PTL DEF Spec

(***************************************************************************)
(* The types of TypeOK hold in every reachable state: no thread runs past  *)
(* the last step, and a record never gets a state the API does not know.   *)
(***************************************************************************)
THEOREM TypeCorrect == Spec => []TypeOK
<1>1. TypeInv => TypeOK
  BY DEF TypeInv
<1>2. QED
  BY <1>1, TypeInvariance, PTL

-----------------------------------------------------------------------------
(* The slots.  While the process is down no slot is taken and no thread    *)
(* exists; a thread that has not popped its slot is named by it.           *)

SlotInv == /\ ThreadOwnsSlot
           /\ \A j \in Job : pc[j] # "none" => up
           /\ ~up => \A u \in UseCase : slot[u] = NoJob

\* A step of job j takes or frees the slot of j's use case, or none.
LEMMA SlotOfJob ==
    ASSUME TypeOK, SlotInv, NEW j \in Job, JobStep(j)
    PROVE  \/ UNCHANGED slot
           \/ /\ up /\ slot[UseCaseOf[j]] = NoJob
              /\ slot' = [slot EXCEPT ![UseCaseOf[j]] = j]
           \/ /\ pc[j] = "release"
              /\ slot' = [slot EXCEPT ![UseCaseOf[j]] = NoJob]
BY DEF JobStep, Start, StartFault, Claim, OpenLog, WriteHeader, PreludeDone,
       PreludeFails, SkipAll, SaveUnprepared, SkipStep, BeginStep, SaveRunning, Spawn,
       SpawnFails, GiveUp, StepExits, TailFault, SaveStep, Report, Seal, FinalSave, Release,
       Hook, ThreadDies, WriteFault, OrphanExits, Recover, Goto

\* Job j's own thread after a step of j: it is in its slot, and up.
LEMMA ThreadOfJob ==
    ASSUME TypeOK, SlotInv, NEW j \in Job, JobStep(j)
    PROVE  /\ up' = up
           /\ pc'[j] # "none" => up
           /\ pc'[j] \notin {"none", "hook"} => slot'[UseCaseOf[j]] = j
<1> USE JobAssumption DEF TypeOK, SlotInv, ThreadOwnsSlot, Goto
<1>1. CASE Start(j) \/ StartFault(j)
  BY <1>1 DEF Start, StartFault, Claim
<1>2. CASE \/ OpenLog(j) \/ WriteHeader(j) \/ PreludeDone(j) \/ PreludeFails(j)
           \/ SkipAll(j) \/ SaveUnprepared(j)
  BY <1>2 DEF OpenLog, WriteHeader, PreludeDone, PreludeFails, SkipAll, SaveUnprepared
<1>3. CASE \/ SkipStep(j) \/ BeginStep(j) \/ SaveRunning(j) \/ Spawn(j)
           \/ SpawnFails(j) \/ GiveUp(j) \/ StepExits(j) \/ TailFault(j) \/ SaveStep(j)
  BY <1>3 DEF SkipStep, BeginStep, SaveRunning, Spawn, SpawnFails, GiveUp, StepExits,
              TailFault, SaveStep
<1>4. CASE Report(j) \/ Seal(j) \/ FinalSave(j) \/ Release(j) \/ Hook(j)
  BY <1>4 DEF Report, Seal, FinalSave, Release, Hook
<1>5. CASE ThreadDies(j) \/ WriteFault(j) \/ OrphanExits(j) \/ Recover(j)
  BY <1>5 DEF ThreadDies, WriteFault, OrphanExits, Recover
<1>6. QED
  BY <1>1, <1>2, <1>3, <1>4, <1>5 DEF JobStep

\* SlotInv is kept by every step: each job by itself, then the others.
LEMMA SlotInvStep == TypeOK /\ SlotInv /\ [Next]_vars => SlotInv'
<1> SUFFICES ASSUME TypeOK, SlotInv, [Next]_vars PROVE SlotInv'
  OBVIOUS
<1>1. ASSUME NEW j \in Job, JobStep(j) PROVE SlotInv'
  <2>1. up' = up
    BY <1>1, ThreadOfJob
  <2>2. ASSUME NEW k \in Job, pc'[k] \notin {"none", "hook"}
        PROVE  slot'[UseCaseOf[k]] = k
    <3>1. CASE k = j
      BY <1>1, <2>2, <3>1, ThreadOfJob
    <3>2. CASE k # j
      <4>1. slot[UseCaseOf[k]] = k
        BY <1>1, <2>2, <3>2, OthersUntouched DEF SlotInv, ThreadOwnsSlot
      <4>2. pc[j] = "release" => slot[UseCaseOf[j]] = j
        BY DEF SlotInv, ThreadOwnsSlot
      <4>3. QED
        BY <1>1, <3>2, <4>1, <4>2, SlotOfJob, JobAssumption DEF TypeOK
    <3>3. QED
      BY <3>1, <3>2
  <2>3. ASSUME NEW k \in Job, pc'[k] # "none" PROVE up'
    BY <1>1, <2>1, <2>3, ThreadOfJob, OthersUntouched DEF SlotInv
  <2>4. ASSUME ~up', NEW u \in UseCase PROVE slot'[u] = NoJob
    <3>1. ~up /\ slot[u] = NoJob
      BY <2>1, <2>4 DEF SlotInv
    <3>2. UNCHANGED slot
      BY <1>1, <3>1, SlotOfJob DEF SlotInv
    <3>3. QED
      BY <3>1, <3>2
  <2>5. QED
    BY <2>2, <2>3, <2>4 DEF SlotInv, ThreadOwnsSlot
<1>2. CASE Crash \/ Serve \/ UNCHANGED vars
  BY <1>2 DEF SlotInv, ThreadOwnsSlot, Crash, Serve, vars
<1>3. QED
  BY <1>1, <1>2, NextCases

\* SlotInv holds in every reachable state.
LEMMA SlotInvariance == Spec => []SlotInv
<1>1. Init => SlotInv
  BY DEF Init, SlotInv, ThreadOwnsSlot
<1>2. QED
  BY <1>1, SlotInvStep, TypeCorrect, PTL DEF Spec

(***************************************************************************)
(* Two threads never work for one use case, whatever file operations fail  *)
(* and whenever the process restarts.                                      *)
(***************************************************************************)
THEOREM OneThreadPerUseCase == Spec => []ThreadOwnsSlot
<1>1. SlotInv => ThreadOwnsSlot
  BY DEF SlotInv
<1>2. QED
  BY <1>1, SlotInvariance, PTL

-----------------------------------------------------------------------------
(* The records.  What the thread knows of its record at each point of      *)
(* _run() is the loop invariant; what is on disk was once in memory, or is *)
(* recover()'s work.                                                       *)

Working == ThreadAt \ {"final_save", "release", "hook"}

Done(j) == \A i \in Step : i < idx[j] => mem[j].steps[i] = "succeeded"
Todo(j) == \A i \in Step : i > idx[j] => mem[j].steps[i] = "pending"
Here(j) == mem[j].steps[idx[j]]

ThreadInv(j) ==
    /\ mem[j].state = "absent" => pc[j] = "none" /\ idx[j] = 1 /\ ~failed[j]
    /\ pc[j] \in Working => mem[j].state = "running"
    /\ pc[j] \in {"open", "header", "prelude"} =>
          mem[j] = Started /\ idx[j] = 1 /\ ~failed[j]
    /\ pc[j] \in {"unprepared", "save_unprepared"} =>
          /\ failed[j] /\ idx[j] = 1 /\ mem[j].error = "prelude"
          /\ \A i \in Step : mem[j].steps[i] \in {"pending", "skipped"}
    /\ pc[j] = "loop" /\ ~failed[j] =>
          /\ mem[j].error = "none" /\ Done(j) /\ Todo(j)
          /\ idx[j] \in Step => Here(j) = "pending"
    /\ pc[j] = "loop" /\ failed[j] =>
          /\ mem[j].error # "none"
          /\ mem[j].error = "step" => \E i \in Step : mem[j].steps[i] = "failed"
          /\ \A i \in Step : mem[j].steps[i] # "running"
          /\ \A i \in Step : i < idx[j] => mem[j].steps[i] # "pending"
          /\ \A i \in Step : i >= idx[j] => mem[j].steps[i] \in {"pending", "skipped"}
    /\ pc[j] \in {"mark", "announce", "exec", "given_up"} =>
          ~failed[j] /\ mem[j].error = "none" /\ Done(j) /\ Todo(j) /\ Here(j) = "running"
    /\ pc[j] = "report" =>
          ~failed[j] /\ mem[j].error = "none" /\ Done(j) /\ Todo(j) /\ Here(j) \in Final
    /\ pc[j] = "save_step" =>
          /\ Done(j) /\ Todo(j)
          /\ IF failed[j] THEN Here(j) = "failed" /\ mem[j].error = "step"
                          ELSE Here(j) = "succeeded" /\ mem[j].error = "none"

Sound(rec) == InOrder(rec) /\ Complete(rec)

RecordInv(j) == Sound(mem[j]) /\ Sound(disk[j]) /\ ThreadInv(j)

RecordsInv == \A j \in Job : RecordInv(j)

\* The records nobody has worked on.
LEMMA SoundBlank == Sound(Absent) /\ Sound(Started)
BY DEF Sound, InOrder, Complete, Absent, Started, Final

\* recover() leaves the order of the steps and completes the record.
LEMMA SoundRecovered ==
    ASSUME NEW rec \in Record, Sound(rec)
    PROVE  Sound(Recovered(rec))
<1>1. \A i \in Step : Recovered(rec).steps[i] = RecoveredStep(rec.steps[i])
  BY DEF Recovered
<1>2. Recovered(rec).state = "failed" /\ Recovered(rec).error = "interrupted"
  BY DEF Recovered
<1>3. \A i \in Step : rec.steps[i] \in StepState
  BY DEF Record
<1>4. InOrder(Recovered(rec))
  BY <1>1, <1>3 DEF Sound, InOrder, RecoveredStep, StepState, Final
<1>5. Complete(Recovered(rec))
  BY <1>1, <1>2, <1>3 DEF Complete, RecoveredStep, StepState, Final
<1>6. QED
  BY <1>4, <1>5 DEF Sound

\* start(), recover(), the end of the thread and of its subprocess.
LEMMA RecordOfStart ==
    ASSUME TypeOK, NEW j \in Job, RecordInv(j),
           Start(j) \/ StartFault(j) \/ Hook(j) \/ Recover(j) \/ OrphanExits(j)
    PROVE  RecordInv(j)'
<1> USE SoundBlank DEF TypeOK, RecordInv
<1>1. CASE Start(j) \/ StartFault(j)
  <2>1. pc[j] = "none" /\ idx[j] = 1 /\ ~failed[j]
    BY <1>1 DEF Start, StartFault, Claim, Fresh, ThreadInv
  <2>2. mem'[j] = Started /\ disk'[j] \in {Started, disk[j]} /\ pc'[j] \in {"open", "none"}
    BY <1>1, <2>1 DEF Start, StartFault, Claim
  <2>3. idx'[j] = 1 /\ ~failed'[j]
    BY <1>1, <2>1 DEF Start, StartFault, Claim
  <2>4. Started.state = "running"
    BY DEF Started, Absent
  <2>5. ThreadInv(j)'
    BY <2>2, <2>3, <2>4 DEF ThreadInv, Working
  <2>6. QED
    BY <2>2, <2>5 DEF Sound, InOrder, Complete
<1>2. CASE Hook(j)
  <2>1. mem'[j] = Absent /\ disk'[j] = disk[j] /\ pc'[j] = "none" /\ idx'[j] = 1 /\ ~failed'[j]
    BY <1>2 DEF Hook, Goto
  <2>2. ThreadInv(j)'
    BY <2>1 DEF ThreadInv, Working, ThreadAt
  <2>3. QED
    BY <2>1, <2>2 DEF Sound, InOrder, Complete
<1>3. CASE Recover(j)
  <2>1. disk'[j] = Recovered(disk[j]) /\ Sound(Recovered(disk[j]))
    BY <1>3, SoundRecovered DEF Recover
  <2>2. mem' = mem /\ pc' = pc /\ idx' = idx /\ failed' = failed
    BY <1>3 DEF Recover
  <2>3. ThreadInv(j)'
    BY <2>2 DEF ThreadInv, Done, Todo, Here
  <2>4. QED
    BY <2>1, <2>2, <2>3 DEF Sound, InOrder, Complete
<1>4. CASE OrphanExits(j)
  BY <1>4 DEF OrphanExits, Sound, InOrder, Complete, ThreadInv, Done, Todo, Here
<1>5. QED
  BY <1>1, <1>2, <1>3, <1>4

\* _run() up to the loop.
LEMMA RecordOfPrelude ==
    ASSUME TypeOK, NEW j \in Job, RecordInv(j),
           \/ OpenLog(j) \/ WriteHeader(j) \/ PreludeDone(j)
           \/ PreludeFails(j) \/ SkipAll(j) \/ SaveUnprepared(j)
    PROVE  RecordInv(j)'
<1> USE JobAssumption DEF TypeOK, RecordInv, Goto, Working, ThreadAt
<1>1. CASE OpenLog(j) \/ WriteHeader(j)
  BY <1>1 DEF OpenLog, WriteHeader, Sound, InOrder, Complete, ThreadInv
<1>2. CASE PreludeDone(j)
  <2>1. mem[j] = Started /\ idx[j] = 1 /\ ~failed[j]
    BY <1>2 DEF PreludeDone, ThreadInv
  <2>2. UNCHANGED <<mem, disk, idx, failed>> /\ pc'[j] = "loop"
    BY <1>2 DEF PreludeDone
  <2>3. mem[j].state = "running" /\ mem[j].error = "none"
    BY <2>1 DEF Started, Absent
  <2>4. \A i \in Step : mem[j].steps[i] = "pending"
    BY <2>1 DEF Started, Absent
  <2>5. ThreadInv(j)'
    BY <2>1, <2>2, <2>3, <2>4 DEF ThreadInv, Done, Todo, Here, Step
  <2>6. QED
    BY <2>2, <2>5 DEF Sound, InOrder, Complete
<1>3. CASE PreludeFails(j)
  <2>1. mem[j] = Started /\ idx[j] = 1
    BY <1>3 DEF PreludeFails, ThreadInv
  <2>2. mem'[j] = [Started EXCEPT !.error = "prelude"]
    BY <1>3, <2>1 DEF PreludeFails
  <2>3. /\ mem'[j].state = "running" /\ mem'[j].error = "prelude"
        /\ \A i \in Step : mem'[j].steps[i] = "pending"
    BY <2>2 DEF Started, Absent
  <2>4. disk' = disk /\ idx'[j] = 1 /\ failed'[j] /\ pc'[j] = "unprepared"
    BY <1>3, <2>1 DEF PreludeFails
  <2>5. QED
    BY <2>3, <2>4 DEF Sound, InOrder, Complete, Final, ThreadInv
<1>4. CASE SkipAll(j)
  <2>1. /\ mem[j].state = "running" /\ mem[j].error = "prelude" /\ idx[j] = 1 /\ failed[j]
    BY <1>4 DEF SkipAll, ThreadInv
  <2>2. mem'[j] = [mem[j] EXCEPT !.steps = [i \in Step |-> "skipped"]]
    BY <1>4 DEF SkipAll
  <2>3. /\ mem'[j].state = "running" /\ mem'[j].error = "prelude"
        /\ \A i \in Step : mem'[j].steps[i] = "skipped"
    BY <2>1, <2>2 DEF Record
  <2>4. disk' = disk /\ idx'[j] = 1 /\ failed'[j] /\ pc'[j] = "save_unprepared"
    BY <1>4, <2>1 DEF SkipAll
  <2>5. QED
    BY <2>3, <2>4 DEF Sound, InOrder, Complete, Final, ThreadInv
<1>5. CASE SaveUnprepared(j)
  <2>1. UNCHANGED <<mem, idx, failed>> /\ pc'[j] = "loop" /\ disk'[j] = mem[j]
    BY <1>5 DEF SaveUnprepared, SaveRecord
  <2>2. ThreadInv(j)'
    BY <1>5, <2>1 DEF SaveUnprepared, ThreadInv, Step
  <2>3. QED
    BY <2>1, <2>2 DEF Sound, InOrder, Complete
<1>6. QED
  BY <1>1, <1>2, <1>3, <1>4, <1>5

\* What one new step state does to the order of the steps.
LEMMA SoundSetStep ==
    ASSUME NEW rec \in Record, Sound(rec), rec.state = "running", NEW i \in Step,
           NEW s \in StepState,
           \/ s = "skipped" /\ rec.steps[i] # "succeeded"
           \/ /\ s \in {"running"} \cup Final
              /\ \A k \in Step : k < i => rec.steps[k] = "succeeded"
              /\ \A k \in Step : k > i => rec.steps[k] = "pending"
    PROVE  Sound(SetStep(rec, i, s))
<1>1. /\ SetStep(rec, i, s).state = "running"
      /\ SetStep(rec, i, s).steps[i] = s
      /\ \A k \in Step \ {i} : SetStep(rec, i, s).steps[k] = rec.steps[k]
  BY SetStepFacts
<1>2. InOrder(SetStep(rec, i, s))
  BY <1>1, JobAssumption DEF Sound, InOrder, Step, Final
<1>3. QED
  BY <1>1, <1>2 DEF Sound, Complete

\* A round of the loop that skips its step.
LEMMA RecordOfSkip ==
    ASSUME TypeOK, NEW j \in Job, RecordInv(j), SkipStep(j)
    PROVE  RecordInv(j)'
<1> DEFINE rec == SetStep(mem[j], idx[j], "skipped")
<1>1. /\ mem[j] \in Record /\ mem[j].state = "running" /\ idx[j] \in Step /\ failed[j]
      /\ mem[j].error # "none"
      /\ mem[j].error = "step" => \E i \in Step : mem[j].steps[i] = "failed"
      /\ \A i \in Step : mem[j].steps[i] # "running"
      /\ \A i \in Step : i < idx[j] => mem[j].steps[i] # "pending"
      /\ \A i \in Step : i >= idx[j] => mem[j].steps[i] \in {"pending", "skipped"}
  BY DEF TypeOK, SkipStep, RecordInv, ThreadInv, Working, ThreadAt
<1>2. /\ mem'[j] = rec /\ disk' = disk /\ idx'[j] = idx[j] + 1
      /\ failed'[j] /\ pc'[j] = "loop"
  BY <1>1 DEF TypeOK, SkipStep
<1>3. /\ rec.state = "running" /\ rec.error = mem[j].error
      /\ rec.steps[idx[j]] = "skipped"
      /\ \A k \in Step \ {idx[j]} : rec.steps[k] = mem[j].steps[k]
  <2>1. mem[j] \in Record /\ idx[j] \in Step /\ "skipped" \in StepState
    BY <1>1, StatesAreStates
  <2>2. /\ rec.state = mem[j].state /\ rec.error = mem[j].error
        /\ rec.steps[idx[j]] = "skipped"
        /\ \A k \in Step \ {idx[j]} : rec.steps[k] = mem[j].steps[k]
    BY <2>1, SetStepFacts
  <2>3. QED
    BY <1>1, <2>2
<1>4. mem[j].steps[idx[j]] \in {"pending", "skipped"}
  BY <1>1, JobAssumption DEF Step
<1>5. Sound(rec)
  BY <1>1, <1>4, SoundSetStep, StatesAreStates DEF RecordInv
<1> HIDE DEF rec
<1>6. rec.error = "step" => \E i \in Step : rec.steps[i] = "failed"
  BY <1>1, <1>3, <1>4
<1>7. \A i \in Step : i < idx[j] + 1 => rec.steps[i] \notin {"pending", "running"}
  BY <1>1, <1>3, JobAssumption DEF Step
<1>8. \A i \in Step : i >= idx[j] + 1 => rec.steps[i] \in {"pending", "skipped"}
  BY <1>1, <1>3, JobAssumption DEF Step
<1>9. \A i \in Step : rec.steps[i] # "running"
  BY <1>1, <1>3
<1>10. ThreadInv(j)'
  BY <1>1, <1>2, <1>3, <1>6, <1>7, <1>8, <1>9 DEF ThreadInv
<1>11. QED
  BY <1>2, <1>5, <1>10 DEF RecordInv, Sound, InOrder, Complete

\* The step at the loop index begins or gets its result.
LEMMA RecordOfSetStep ==
    ASSUME TypeOK, NEW j \in Job, RecordInv(j), idx[j] \in Step,
           mem[j].state = "running", mem[j].error = "none", ~failed[j], Done(j), Todo(j),
           NEW s \in {"running"} \cup Final,
           mem' = [mem EXCEPT ![j] = SetStep(@, idx[j], s)],
           UNCHANGED <<disk, idx, failed>>,
           \/ s = "running" /\ pc'[j] = "mark"
           \/ s \in Final /\ pc'[j] = "report"
    PROVE  RecordInv(j)'
<1> DEFINE rec == SetStep(mem[j], idx[j], s)
<1>1. mem[j] \in Record /\ s \in StepState /\ mem'[j] = rec
  BY DEF TypeOK, StepState, Final
<1>2. /\ rec.state = mem[j].state /\ rec.error = mem[j].error
      /\ rec.steps[idx[j]] = s
      /\ \A k \in Step \ {idx[j]} : rec.steps[k] = mem[j].steps[k]
  BY <1>1, SetStepFacts
<1>3. Sound(rec)
  BY <1>1, SoundSetStep DEF RecordInv, Done, Todo
<1> HIDE DEF rec
<1>4. Done(j)' /\ Todo(j)' /\ Here(j)' = s
  BY <1>1, <1>2, JobAssumption DEF Done, Todo, Here, Step
<1>5. mem'[j].state = "running" /\ mem'[j].error = "none" /\ ~failed'[j]
  BY <1>1, <1>2
<1>6. ThreadInv(j)'
  BY <1>4, <1>5 DEF ThreadInv, Final
<1>7. QED
  BY <1>1, <1>3, <1>6 DEF RecordInv, Sound, InOrder, Complete

\* A round of the loop up to the result of its step.
LEMMA RecordOfRound ==
    ASSUME TypeOK, NEW j \in Job, InStep(j), RecordInv(j),
           \/ BeginStep(j) \/ SaveRunning(j) \/ Spawn(j)
           \/ SpawnFails(j) \/ GiveUp(j) \/ StepExits(j) \/ TailFault(j)
    PROVE  RecordInv(j)'
<1> USE DEF RecordInv, Goto, Working, ThreadAt
<1>1. CASE BeginStep(j)
  <2>1. /\ idx[j] \in Step /\ mem[j].state = "running" /\ mem[j].error = "none"
        /\ ~failed[j] /\ Done(j) /\ Todo(j)
    BY <1>1 DEF BeginStep, ThreadInv
  <2>2. pc'[j] = "mark"
    BY <1>1 DEF BeginStep, TypeOK
  <2>3. QED
    BY <1>1, <2>1, <2>2, RecordOfSetStep DEF BeginStep
<1>2. CASE SaveRunning(j)
  <2>1. UNCHANGED <<mem, idx, failed>> /\ pc'[j] = "announce" /\ disk'[j] = mem[j]
    BY <1>2 DEF SaveRunning, SaveRecord, TypeOK
  <2>2. pc[j] = "mark"
    BY <1>2 DEF SaveRunning
  <2>3. ThreadInv(j)'
    BY <2>1, <2>2 DEF ThreadInv, Done, Todo, Here
  <2>4. QED
    BY <2>1, <2>3 DEF Sound, InOrder, Complete
<1>3. CASE Spawn(j)
  <2>1. UNCHANGED <<mem, disk, idx, failed>> /\ pc'[j] = "exec" /\ pc[j] = "announce"
    BY <1>3 DEF Spawn, TypeOK
  <2>2. ThreadInv(j)'
    BY <2>1 DEF ThreadInv, Done, Todo, Here
  <2>3. QED
    BY <2>1, <2>2 DEF Sound, InOrder, Complete
<1>4. CASE SpawnFails(j) \/ TailFault(j)
  <2>1. /\ UNCHANGED <<mem, disk, idx, failed>> /\ pc'[j] = "given_up"
        /\ pc[j] \in {"announce", "exec"}
    BY <1>4 DEF SpawnFails, TailFault, TypeOK
  <2>2. ThreadInv(j)'
    BY <2>1 DEF ThreadInv, Done, Todo, Here
  <2>3. QED
    BY <2>1, <2>2 DEF Sound, InOrder, Complete
<1>5. CASE GiveUp(j) \/ StepExits(j)
  <2>1. /\ UNCHANGED <<disk, idx, failed>> /\ pc'[j] = "report"
        /\ pc[j] \in {"given_up", "exec"}
    BY <1>5 DEF GiveUp, StepExits, TypeOK
  <2>2. /\ idx[j] \in Step /\ mem[j].state = "running" /\ mem[j].error = "none"
        /\ ~failed[j] /\ Done(j) /\ Todo(j)
    BY <2>1 DEF InStep, ThreadInv
  <2>3. PICK s \in Final : mem' = [mem EXCEPT ![j] = SetStep(@, idx[j], s)]
    BY <1>5 DEF GiveUp, StepExits, SetResult, Final
  <2>4. QED
    BY <2>1, <2>2, <2>3, RecordOfSetStep
<1>6. QED
  BY <1>1, <1>2, <1>3, <1>4, <1>5

\* The result is reported and saved, and the loop goes on.
LEMMA RecordOfResult ==
    ASSUME TypeOK, NEW j \in Job, InStep(j), RecordInv(j), Report(j) \/ SaveStep(j)
    PROVE  RecordInv(j)'
<1>1. CASE Report(j)
  <2>1. /\ pc[j] = "report" /\ pc'[j] = "save_step" /\ UNCHANGED <<disk, idx>>
        /\ mem[j] \in Record /\ idx[j] \in Step
    BY <1>1 DEF Report, Goto, TypeOK, InStep
  <2>2. /\ mem[j].state = "running" /\ mem[j].error = "none"
        /\ ~failed[j] /\ Done(j) /\ Todo(j) /\ Here(j) \in Final
    BY <2>1 DEF RecordInv, ThreadInv, Working, ThreadAt
  <2>3. /\ mem'[j].state = "running" /\ mem'[j].steps = mem[j].steps
        /\ IF Here(j) = "failed" THEN failed'[j] /\ mem'[j].error = "step"
                                 ELSE ~failed'[j] /\ mem'[j].error = "none"
    BY <1>1, <2>1, <2>2 DEF Report, TypeOK, Record, Here
  <2>4. ThreadInv(j)'
    BY <2>1, <2>2, <2>3 DEF ThreadInv, Done, Todo, Here, Final
  <2>5. QED
    BY <2>1, <2>3, <2>4 DEF RecordInv, Sound, InOrder, Complete, Final
<1>2. CASE SaveStep(j)
  <2>1. /\ pc[j] = "save_step" /\ pc'[j] = "loop" /\ UNCHANGED <<mem, failed>>
        /\ disk'[j] = mem[j] /\ idx'[j] = idx[j] + 1 /\ idx[j] \in Step
    BY <1>2 DEF SaveStep, SaveRecord, Goto, TypeOK, InStep
  <2>2. mem[j].state = "running" /\ Done(j) /\ Todo(j)
    BY <2>1 DEF RecordInv, ThreadInv, Working, ThreadAt
  <2>3. IF failed[j] THEN Here(j) = "failed" /\ mem[j].error = "step"
                     ELSE Here(j) = "succeeded" /\ mem[j].error = "none"
    BY <2>1 DEF RecordInv, ThreadInv
  <2>4. /\ \A i \in Step : i < idx[j] + 1 => mem[j].steps[i] \in Final
        /\ \A i \in Step : i >= idx[j] + 1 => mem[j].steps[i] = "pending"
    BY <2>1, <2>2, <2>3, JobAssumption DEF Done, Todo, Here, Step, Final
  <2>5. ~failed[j] => \A i \in Step : i < idx[j] + 1 => mem[j].steps[i] = "succeeded"
    BY <2>1, <2>2, <2>3, JobAssumption DEF Done, Here, Step
  <2>6. \A i \in Step : i >= idx[j] + 1 \/ i < idx[j] + 1
    BY <2>1, JobAssumption DEF Step
  <2>7. \A i \in Step : i > idx[j] + 1 => i >= idx[j] + 1
    BY <2>1, JobAssumption DEF Step
  <2>8. CASE failed[j]
    <3>1. mem[j].error = "step" /\ mem[j].steps[idx[j]] = "failed"
      BY <2>3, <2>8 DEF Here
    <3>2. \A i \in Step : mem[j].steps[i] # "running"
      BY <2>4, <2>6 DEF Final
    <3>3. ThreadInv(j)'
      BY <2>1, <2>2, <2>4, <2>8, <3>1, <3>2 DEF ThreadInv, Final
    <3>4. QED
      BY <2>1, <3>3 DEF RecordInv, Sound, InOrder, Complete
  <2>9. CASE ~failed[j]
    <3>1. mem[j].error = "none"
      BY <2>3, <2>9
    <3>2. Done(j)' /\ Todo(j)' /\ (idx'[j] \in Step => Here(j)' = "pending")
      BY <2>1, <2>4, <2>5, <2>7, <2>9 DEF Done, Todo, Here, Step
    <3>3. ThreadInv(j)'
      BY <2>1, <2>2, <2>9, <3>1, <3>2 DEF ThreadInv
    <3>4. QED
      BY <2>1, <3>3 DEF RecordInv, Sound, InOrder, Complete
  <2>10. QED
    BY <2>8, <2>9
<1>3. QED
  BY <1>1, <1>2

\* The verdict, the finally block, and the faults that lead to it.
LEMMA RecordOfFinish ==
    ASSUME TypeOK, NEW j \in Job, RecordInv(j),
           Seal(j) \/ FinalSave(j) \/ Release(j) \/ ThreadDies(j) \/ WriteFault(j)
    PROVE  RecordInv(j)'
<1> USE DEF Goto, TypeOK
<1>1. CASE Seal(j)
  <2>1. /\ pc[j] = "loop" /\ pc'[j] = "final_save" /\ UNCHANGED <<disk, idx, failed>>
        /\ mem[j] \in Record /\ idx[j] > NumSteps
        /\ mem'[j] = [mem[j] EXCEPT !.state = IF failed[j] THEN "failed" ELSE "succeeded"]
    BY <1>1 DEF Seal
  <2>2. /\ mem'[j].steps = mem[j].steps /\ mem'[j].error = mem[j].error
        /\ mem'[j].state = IF failed[j] THEN "failed" ELSE "succeeded"
    BY <2>1 DEF Record
  <2>3. \A i \in Step : i < idx[j]
    BY <2>1, JobAssumption DEF Step
  <2>4. CASE failed[j]
    <3>1. /\ mem[j].error # "none"
          /\ mem[j].error = "step" => \E i \in Step : mem[j].steps[i] = "failed"
          /\ \A i \in Step : mem[j].steps[i] \notin {"pending", "running"}
      BY <2>1, <2>3, <2>4 DEF RecordInv, ThreadInv
    <3>2. Sound(mem'[j])
      BY <2>2, <2>4, <3>1 DEF RecordInv, Sound, InOrder, Complete
    <3>3. QED
      BY <2>1, <2>2, <2>4, <3>2 DEF RecordInv, ThreadInv, Working, Sound, InOrder, Complete
  <2>5. CASE ~failed[j]
    <3>1. mem[j].error = "none" /\ \A i \in Step : mem[j].steps[i] = "succeeded"
      BY <2>1, <2>3, <2>5 DEF RecordInv, ThreadInv, Done
    <3>2. Sound(mem'[j])
      BY <2>2, <2>5, <3>1 DEF RecordInv, Sound, InOrder, Complete
    <3>3. QED
      BY <2>1, <2>2, <2>5, <3>2 DEF RecordInv, ThreadInv, Working, Sound, InOrder, Complete
  <2>6. QED
    BY <2>4, <2>5
<1>2. CASE FinalSave(j)
  <2>1. UNCHANGED <<mem, idx, failed>> /\ pc'[j] = "release" /\ disk'[j] = mem[j]
    BY <1>2 DEF FinalSave, SaveRecord
  <2>2. mem[j].state # "absent"
    BY <1>2 DEF FinalSave, RecordInv, ThreadInv
  <2>3. QED
    BY <2>1, <2>2 DEF RecordInv, ThreadInv, Working, Sound, InOrder, Complete
<1>3. CASE Release(j) \/ ThreadDies(j) \/ WriteFault(j)
  <2>1. /\ UNCHANGED <<mem, disk, idx, failed>> /\ pc[j] # "none"
        /\ pc'[j] \in {"hook", "none", "final_save"}
    BY <1>3 DEF Release, ThreadDies, WriteFault
  <2>2. mem[j].state # "absent"
    BY <2>1 DEF RecordInv, ThreadInv
  <2>3. QED
    BY <2>1, <2>2 DEF RecordInv, ThreadInv, Working, ThreadAt, Sound, InOrder, Complete
<1>4. QED
  BY <1>1, <1>2, <1>3

\* Every step keeps every record sound.
LEMMA RecordInvStep ==
    TypeInv /\ RecordsInv /\ [Next]_vars => RecordsInv'
<1> SUFFICES ASSUME TypeInv, \A j \in Job : RecordInv(j), [Next]_vars, NEW k \in Job
             PROVE  RecordInv(k)'
  BY DEF RecordsInv
<1>1. TypeOK /\ \A j \in Job : InStep(j)
  BY DEF TypeInv
<1>2. ASSUME NEW j \in Job, JobStep(j) PROVE RecordInv(k)'
  <2>1. CASE k = j
    BY <1>1, <1>2, <2>1, RecordOfStart, RecordOfPrelude, RecordOfSkip, RecordOfRound,
       RecordOfResult, RecordOfFinish DEF JobStep
  <2>2. CASE k # j
    <3>1. /\ mem'[k] = mem[k] /\ disk'[k] = disk[k] /\ pc'[k] = pc[k]
          /\ idx'[k] = idx[k] /\ failed'[k] = failed[k]
      BY <1>1, <1>2, <2>2, OthersUntouched
    <3>2. QED
      BY <3>1 DEF RecordInv, Sound, InOrder, Complete, ThreadInv, Done, Todo, Here
  <2>3. QED
    BY <2>1, <2>2
<1>3. CASE Crash
  <2>1. /\ mem'[k] = Absent /\ disk'[k] = disk[k] /\ pc'[k] = "none" /\ idx'[k] = 1
        /\ ~failed'[k]
    <3>1. failed'[k] = FALSE
      BY <1>3 DEF Crash
    <3>2. QED
      BY <1>3, <3>1 DEF Crash
  <2>2. ThreadInv(k)'
    BY <2>1 DEF ThreadInv, Working, ThreadAt
  <2>3. QED
    BY <2>1, <2>2, SoundBlank DEF RecordInv, Sound, InOrder, Complete
<1>4. CASE Serve \/ UNCHANGED vars
  <2>1. UNCHANGED <<mem, disk, pc, idx, failed>>
    BY <1>4 DEF Serve, vars
  <2>2. QED
    BY <2>1 DEF RecordInv, Sound, InOrder, Complete, ThreadInv, Done, Todo, Here
<1>5. QED
  BY <1>2, <1>3, <1>4, NextCases

\* Every record of every reachable state is sound.
LEMMA RecordInvariance == Spec => []RecordsInv
<1>1. Init => RecordsInv
  <2> SUFFICES ASSUME Init, NEW j \in Job PROVE RecordInv(j)
    BY DEF RecordsInv
  <2>1. mem[j] = Absent /\ disk[j] = Absent /\ pc[j] = "none" /\ idx[j] = 1 /\ ~failed[j]
    <3>1. failed[j] = FALSE
      BY DEF Init
    <3>2. QED
      BY <3>1 DEF Init
  <2>2. ThreadInv(j)
    BY <2>1 DEF ThreadInv, Working, ThreadAt
  <2>3. QED
    BY <2>1, <2>2, SoundBlank DEF RecordInv
<1>2. QED
  BY <1>1, RecordInvStep, TypeInvariance, PTL DEF Spec

(***************************************************************************)
(* Nothing runs after a failure: in every record, in memory and on disk,   *)
(* after any faults and restarts, a step has begun only if all steps       *)
(* before it succeeded.                                                    *)
(***************************************************************************)
THEOREM StopsAtFailure == Spec => []StepsRunInOrder
<1>1. RecordsInv => StepsRunInOrder
  BY DEF RecordsInv, RecordInv, Sound, StepsRunInOrder
<1>2. QED
  BY <1>1, RecordInvariance, PTL

(***************************************************************************)
(* A record with an outcome is complete, whether the thread wrote it or    *)
(* recover() did.                                                          *)
(***************************************************************************)
THEOREM OutcomesAreComplete == Spec => []OutcomeIsComplete
<1>1. RecordsInv => OutcomeIsComplete
  BY DEF RecordsInv, RecordInv, Sound, OutcomeIsComplete
<1>2. QED
  BY <1>1, RecordInvariance, PTL

-----------------------------------------------------------------------------
(* The files.  Until its final save a thread finds its file "running"; as  *)
(* long as no file operation has failed, the converse holds while the      *)
(* process is up, and the outcome is saved before the slot is popped.      *)

Unsaved == Working \cup {"final_save"}

SavedInv(j) ==
    /\ pc[j] \in Unsaved => disk[j].state = "running"
    /\ faults = 0 =>
          /\ up /\ disk[j].state = "running" => pc[j] \in Unsaved
          /\ pc[j] = "final_save" => mem[j].state \in Final
          /\ pc[j] \in {"release", "hook"} => disk[j].state \in Final

FilesInv == \A j \in Job : SavedInv(j)

\* A file operation that fails is counted for good.
LEMMA FaultsGrow ==
    ASSUME TypeOK, [Next]_vars
    PROVE  faults' \in Nat /\ (faults' = 0 => faults = 0)
<1>1. faults \in Nat
  BY JobAssumption DEF TypeOK
<1>2. UNCHANGED faults \/ faults' = faults + 1
  BY DEF Next, vars, ThreadStep, Fault, Start, StartFault, Claim, OpenLog, WriteHeader,
         PreludeDone, PreludeFails, SkipAll, SaveUnprepared, SkipStep, BeginStep,
         SaveRunning, Spawn, SpawnFails, GiveUp, StepExits, TailFault, SaveStep, Report, Seal,
         FinalSave, Release, Hook, ThreadDies, WriteFault, OrphanExits, Recover,
         Crash, Serve
<1>3. QED
  BY <1>1, <1>2

\* What a step of job j does to j's file: nothing, a first save, a save of
\* the thread's record, or a recovery.
LEMMA FileOfJob ==
    ASSUME TypeOK, NEW j \in Job, JobStep(j)
    PROVE  \/ disk' = disk
           \/ Start(j) /\ disk[j].state = "absent" /\ disk' = [disk EXCEPT ![j] = Started]
           \/ /\ pc[j] \in {"save_unprepared", "mark", "save_step"}
              /\ pc'[j] \in {"loop", "announce"}
              /\ UNCHANGED <<slot, mem>> /\ disk' = [disk EXCEPT ![j] = mem[j]]
           \/ FinalSave(j)
           \/ Recover(j)
<1> USE DEF TypeOK, Goto, SaveRecord
<1>1. CASE Start(j)
  BY <1>1 DEF Start, Claim, Fresh
<1>2. CASE SaveUnprepared(j) \/ SaveRunning(j) \/ SaveStep(j)
  BY <1>2 DEF SaveUnprepared, SaveRunning, SaveStep
<1>3. CASE \/ StartFault(j) \/ OpenLog(j) \/ WriteHeader(j) \/ PreludeDone(j)
           \/ PreludeFails(j) \/ SkipAll(j) \/ SkipStep(j) \/ BeginStep(j) \/ Spawn(j)
           \/ SpawnFails(j) \/ GiveUp(j) \/ StepExits(j) \/ TailFault(j) \/ Report(j) \/ Seal(j)
           \/ Release(j) \/ Hook(j) \/ ThreadDies(j) \/ WriteFault(j) \/ OrphanExits(j)
  BY <1>3 DEF StartFault, OpenLog, WriteHeader, PreludeDone, PreludeFails, SkipAll,
              SkipStep, BeginStep, Spawn, SpawnFails, GiveUp, StepExits, TailFault, Report, Seal,
              Release, Hook, ThreadDies, WriteFault, OrphanExits
<1>4. QED
  BY <1>1, <1>2, <1>3 DEF JobStep

\* What a step of job j does to SavedInv of j.
LEMMA SavedOfJob ==
    ASSUME TypeOK, NEW j \in Job, RecordInv(j), SavedInv(j), JobStep(j),
           faults' = 0 => faults = 0, up' = up,
           faults \in Nat, pc[j] # "none" => up
    PROVE  SavedInv(j)'
<1> USE DEF TypeOK, Goto, SaveRecord, SavedInv, Unsaved, Working, ThreadAt
<1>1. CASE Start(j)
  <2>1. disk'[j].state = "running"
    BY <1>1 DEF Start, Started, Absent
  <2>2. pc'[j] = "open"
    BY <1>1 DEF Start
  <2>3. QED
    BY <2>1, <2>2
<1>2. CASE StartFault(j)
  <2>1. UNCHANGED <<disk, pc>> /\ faults' # 0
    BY <1>2 DEF StartFault
  <2>2. QED
    BY <2>1
<1>3. CASE \/ OpenLog(j) \/ WriteHeader(j) \/ PreludeDone(j) \/ PreludeFails(j)
           \/ SkipAll(j) \/ BeginStep(j) \/ Spawn(j) \/ SpawnFails(j)
           \/ GiveUp(j) \/ StepExits(j) \/ TailFault(j) \/ Report(j)
  <2>1. disk' = disk /\ pc[j] \in Working /\ pc'[j] \in Working
    BY <1>3 DEF OpenLog, WriteHeader, PreludeDone, PreludeFails, SkipAll, BeginStep,
                Spawn, SpawnFails, GiveUp, StepExits, TailFault, Report
  <2>2. QED
    BY <2>1
<1>4. CASE SkipStep(j) \/ OrphanExits(j)
  <2>1. UNCHANGED <<disk, pc>> /\ (mem' = mem \/ pc[j] = "loop")
    BY <1>4 DEF SkipStep, OrphanExits
  <2>2. QED
    BY <2>1
<1>5. CASE SaveUnprepared(j) \/ SaveRunning(j) \/ SaveStep(j)
  <2>1. disk'[j] = mem[j] /\ pc[j] \in Working /\ pc'[j] \in Working
    BY <1>5 DEF SaveUnprepared, SaveRunning, SaveStep
  <2>2. mem[j].state = "running"
    BY <2>1 DEF RecordInv, ThreadInv
  <2>3. QED
    BY <2>1, <2>2
<1>6. CASE Seal(j)
  <2>1. disk' = disk /\ pc[j] = "loop" /\ pc'[j] = "final_save"
    BY <1>6 DEF Seal
  <2>2. mem'[j].state \in Final
    BY <1>6 DEF Seal, Final, Record
  <2>3. QED
    BY <2>1, <2>2
<1>7. CASE FinalSave(j)
  <2>1. disk'[j] = mem[j] /\ pc[j] = "final_save" /\ pc'[j] = "release"
    BY <1>7 DEF FinalSave
  <2>2. QED
    BY <2>1 DEF Final
<1>8. CASE Release(j) \/ Hook(j)
  <2>1. disk' = disk /\ pc[j] \in {"release", "hook"} /\ pc'[j] \in {"hook", "none"}
    BY <1>8 DEF Release, Hook
  <2>2. QED
    BY <2>1 DEF Final
<1>9. CASE ThreadDies(j) \/ WriteFault(j)
  <2>1. disk' = disk /\ faults' # 0
    BY <1>9 DEF ThreadDies, WriteFault
  <2>2. pc[j] \in Unsaved \/ pc'[j] = "none"
    BY <1>9 DEF ThreadDies, WriteFault
  <2>3. QED
    BY <2>1, <2>2
<1>10. CASE Recover(j)
  <2>1. ~up /\ pc[j] = "none" /\ pc' = pc /\ up' = up
    BY <1>10 DEF Recover
  <2>2. QED
    BY <2>1
<1>11. QED
  BY <1>1, <1>2, <1>3, <1>4, <1>5, <1>6, <1>7, <1>8, <1>9, <1>10 DEF JobStep

\* SavedInv is kept for every job.
LEMMA FilesInvStep ==
    TypeOK /\ SlotInv /\ RecordsInv /\ FilesInv /\ [Next]_vars => FilesInv'
<1> SUFFICES ASSUME TypeOK, SlotInv, RecordsInv, FilesInv, [Next]_vars, NEW k \in Job
             PROVE  SavedInv(k)'
  BY DEF FilesInv
<1>1. faults \in Nat /\ faults' \in Nat /\ (faults' = 0 => faults = 0)
  BY FaultsGrow, JobAssumption DEF TypeOK
<1>2. ASSUME NEW j \in Job, JobStep(j) PROVE SavedInv(k)'
  <2>1. up' = up
    BY <1>2, ThreadOfJob
  <2>2. CASE k = j
    BY <1>1, <1>2, <2>1, <2>2, SavedOfJob DEF SlotInv, RecordsInv, FilesInv
  <2>3. CASE k # j
    <3>1. mem'[k] = mem[k] /\ disk'[k] = disk[k] /\ pc'[k] = pc[k]
      BY <1>2, <2>3, OthersUntouched
    <3>2. QED
      BY <1>1, <2>1, <3>1 DEF FilesInv, SavedInv
  <2>4. QED
    BY <2>2, <2>3
<1>3. CASE Crash
  <2>1. up' = FALSE /\ pc'[k] = "none"
    BY <1>3 DEF Crash
  <2>2. QED
    BY <2>1 DEF SavedInv, Unsaved, Working, ThreadAt
<1>4. CASE Serve
  BY <1>1, <1>4 DEF Serve, FilesInv, SavedInv
<1>5. CASE UNCHANGED vars
  BY <1>5 DEF vars, FilesInv, SavedInv
<1>6. QED
  BY <1>2, <1>3, <1>4, <1>5, NextCases

\* FilesInv holds in every reachable state.
LEMMA FilesInvariance == Spec => []FilesInv
<1>1. Init => FilesInv
  BY DEF Init, FilesInv, SavedInv, Unsaved, Working, ThreadAt, Absent
<1>2. QED
  BY <1>1, FilesInvStep, TypeCorrect, SlotInvariance, RecordInvariance, PTL DEF Spec

(***************************************************************************)
(* As long as no file operation has failed, every record that a request    *)
(* can read as "running" has a thread and its use case's slot.             *)
(***************************************************************************)
THEOREM RunningRecordsAreLive == Spec => []RunningRecordIsLive
<1>1. SlotInv /\ FilesInv => RunningRecordIsLive
  BY DEF SlotInv, ThreadOwnsSlot, FilesInv, SavedInv, Unsaved, Working, ThreadAt,
         RunningRecordIsLive
<1>2. QED
  BY <1>1, SlotInvariance, FilesInvariance, PTL

\* A step leaves no new record "running" but the one start() saves.
LEMMA RunningBefore ==
    ASSUME TypeOK, RecordsInv, FilesInv, [Next]_vars,
           NEW k \in Job, disk'[k].state = "running"
    PROVE  disk[k].state = "running" \/ Start(k)
<1>1. ASSUME NEW j \in Job, JobStep(j) PROVE disk[k].state = "running" \/ Start(k)
  <2>1. CASE k # j
    BY <1>1, <2>1, OthersUntouched
  <2>2. CASE k = j
    <3>1. CASE pc[j] \in Unsaved
      BY <2>2, <3>1 DEF FilesInv, SavedInv
    <3>2. CASE Recover(j)
      BY <2>2, <3>2 DEF Recover
    <3>3. CASE pc[j] \notin Unsaved /\ ~Recover(j)
      <4>1. ~FinalSave(j) /\ pc[j] \notin {"save_unprepared", "mark", "save_step"}
        BY <3>3 DEF FinalSave, Goto, Unsaved, Working, ThreadAt
      <4>2. QED
        BY <1>1, <2>2, <3>3, <4>1, FileOfJob
    <3>4. QED
      BY <3>1, <3>2, <3>3
  <2>3. QED
    BY <2>1, <2>2
<1>2. CASE Crash \/ Serve \/ UNCHANGED vars
  BY <1>2 DEF Crash, Serve, vars
<1>3. QED
  BY <1>1, <1>2, NextCases

OneRunning ==
    faults = 0 =>
        \A j, k \in Job :
            /\ UseCaseOf[j] = UseCaseOf[k]
            /\ disk[j].state = "running"
            /\ disk[k].state = "running"
            => j = k

\* OneRunning is kept by every step.
LEMMA OneRunningStep ==
    TypeOK /\ RecordsInv /\ FilesInv /\ RunningRecordIsLive /\ OneRunning /\ [Next]_vars
        => OneRunning'
<1> SUFFICES ASSUME TypeOK, RecordsInv, FilesInv, RunningRecordIsLive,
                    OneRunning, [Next]_vars, faults' = 0,
                    NEW j \in Job, NEW k \in Job, UseCaseOf[j] = UseCaseOf[k],
                    disk'[j].state = "running", disk'[k].state = "running"
             PROVE  j = k
  BY DEF OneRunning
<1>1. faults = 0
  BY FaultsGrow
<1>2. ASSUME NEW a \in Job, NEW b \in Job, UseCaseOf[a] = UseCaseOf[b],
             Start(a), disk[b].state = "running"
      PROVE  FALSE
  <2>1. up /\ slot[UseCaseOf[a]] = NoJob
    BY <1>2 DEF Start, Claim
  <2>2. QED
    BY <1>1, <1>2, <2>1, JobAssumption DEF RunningRecordIsLive
<1>3. CASE disk[j].state = "running" /\ disk[k].state = "running"
  BY <1>1, <1>3 DEF OneRunning
<1>4. CASE Start(j) /\ Start(k)
  <2>1. UseCaseOf[j] \in UseCase
    BY JobAssumption
  <2>2. slot' = [slot EXCEPT ![UseCaseOf[j]] = j] /\ slot' = [slot EXCEPT ![UseCaseOf[k]] = k]
    BY <1>4 DEF Start, Claim
  <2>3. slot'[UseCaseOf[j]] = j /\ slot'[UseCaseOf[j]] = k
    BY <2>1, <2>2 DEF TypeOK
  <2>4. QED
    BY <2>3
<1>5. QED
  BY <1>2, <1>3, <1>4, RunningBefore

(***************************************************************************)
(* At most one file of a use case says "running": start() finds the slot   *)
(* free, and while the process is up a running record has the slot.        *)
(***************************************************************************)
THEOREM RunningRecordsAreOne == Spec => []OneRunningRecord
<1>1. Init => OneRunning
  BY DEF Init, OneRunning, Absent
<1>2. OneRunning => OneRunningRecord
  BY DEF OneRunning, OneRunningRecord, History!OneRunningRecord
<1>3. QED
  BY <1>1, <1>2, OneRunningStep, TypeCorrect, RecordInvariance, FilesInvariance,
     RunningRecordsAreLive, PTL DEF Spec

(***************************************************************************)
(* A saved outcome is never rewritten, neither by a thread nor by          *)
(* recover(), whatever fails.                                              *)
(***************************************************************************)
THEOREM SavedOutcomesStay == Spec => SavedOutcomeStays
<1>1. TypeOK /\ SlotInv /\ FilesInv /\ [Next]_vars =>
          [\A j \in Job : disk[j].state \in Final => disk'[j] = disk[j]]_vars
  <2> SUFFICES ASSUME TypeOK, FilesInv, [Next]_vars, NEW k \in Job, disk[k].state \in Final
               PROVE  disk'[k] = disk[k]
    OBVIOUS
  <2>1. ASSUME NEW j \in Job, JobStep(j) PROVE disk'[k] = disk[k]
    <3>1. CASE k # j
      BY <2>1, <3>1, OthersUntouched
    <3>2. CASE k = j
      <4>1. disk[j].state \notin {"absent", "running"}
        BY <3>2 DEF Final
      <4>2. pc[j] \notin Unsaved
        BY <4>1 DEF FilesInv, SavedInv
      <4>3. ~FinalSave(j) /\ ~Recover(j) /\ pc[j] \notin {"save_unprepared", "mark", "save_step"}
        BY <4>1, <4>2 DEF FinalSave, Recover, Goto, Unsaved, Working, ThreadAt
      <4>4. QED
        BY <2>1, <3>2, <4>1, <4>3, FileOfJob
    <3>3. QED
      BY <3>1, <3>2
  <2>2. CASE Crash \/ Serve \/ UNCHANGED vars
    BY <2>2 DEF Crash, Serve, vars
  <2>3. QED
    BY <2>1, <2>2, NextCases
<1>2. QED
  BY <1>1, TypeCorrect, SlotInvariance, FilesInvariance, PTL DEF Spec, SavedOutcomeStays

-----------------------------------------------------------------------------
(* The subprocesses.  As long as no file operation has failed, a           *)
(* subprocess has a thread that reads its output.                          *)

ChildInv == faults = 0 => \A j \in child : pc[j] = "exec"

\* ChildInv is kept by every step.
LEMMA ChildInvStep == TypeOK /\ RecordsInv /\ ChildInv /\ [Next]_vars => ChildInv'
<1> SUFFICES ASSUME TypeOK, RecordsInv, ChildInv, [Next]_vars, faults' = 0, NEW k \in child'
             PROVE  pc'[k] = "exec"
  BY DEF ChildInv
<1>1. faults = 0 /\ \A i \in child : pc[i] = "exec"
  BY FaultsGrow DEF ChildInv
<1>2. ASSUME NEW j \in Job, JobStep(j) PROVE pc'[k] = "exec"
  <2> USE DEF TypeOK, Goto
  <2>1. CASE Spawn(j)
    BY <1>1, <2>1 DEF Spawn
  <2>2. CASE StepExits(j)
    BY <1>1, <2>2 DEF StepExits
  <2>3. CASE OrphanExits(j) \/ Recover(j)
    BY <1>1, <2>3 DEF OrphanExits, Recover
  <2>4. CASE StartFault(j) \/ ThreadDies(j) \/ WriteFault(j) \/ TailFault(j)
    <3>1. faults' = faults + 1
      BY <2>4 DEF StartFault, ThreadDies, WriteFault, TailFault
    <3>2. QED
      BY <1>1, <3>1
  <2>5. CASE Start(j)
    <3>1. child' = child /\ pc' = [pc EXCEPT ![j] = "open"] /\ mem[j].state = "absent"
      BY <2>5 DEF Start, Claim, Fresh
    <3>2. CASE k # j
      BY <1>1, <3>1, <3>2
    <3>3. pc[j] # "exec"
      BY <3>1 DEF RecordsInv, RecordInv, ThreadInv, Working, ThreadAt
    <3>4. QED
      BY <1>1, <3>1, <3>2, <3>3
  <2>6. CASE \/ OpenLog(j) \/ WriteHeader(j) \/ PreludeDone(j) \/ PreludeFails(j)
             \/ SkipAll(j) \/ SaveUnprepared(j) \/ SkipStep(j) \/ BeginStep(j)
             \/ SaveRunning(j) \/ SpawnFails(j) \/ GiveUp(j)
    <3>1. child' = child /\ pc[j] # "exec" /\ \A i \in Job \ {j} : pc'[i] = pc[i]
      BY <2>6 DEF OpenLog, WriteHeader, PreludeDone, PreludeFails, SkipAll,
                  SaveUnprepared, SkipStep, BeginStep, SaveRunning, SpawnFails,
                  GiveUp
    <3>2. QED
      BY <1>1, <3>1
  <2>7. CASE \/ Report(j) \/ SaveStep(j) \/ Seal(j) \/ FinalSave(j) \/ Release(j)
             \/ Hook(j)
    <3>1. child' = child /\ pc[j] # "exec" /\ \A i \in Job \ {j} : pc'[i] = pc[i]
      BY <2>7 DEF Report, SaveStep, Seal, FinalSave, Release, Hook
    <3>2. QED
      BY <1>1, <3>1
  <2>8. QED
    BY <1>2, <2>1, <2>2, <2>3, <2>4, <2>5, <2>6, <2>7 DEF JobStep
<1>3. CASE Crash
  BY <1>3 DEF Crash
<1>4. CASE Serve \/ UNCHANGED vars
  BY <1>1, <1>4 DEF Serve, vars
<1>5. QED
  BY <1>2, <1>3, <1>4, NextCases

(***************************************************************************)
(* As long as the disk has not failed, no use case has two subprocesses: a *)
(* subprocess has a thread in _exec, and that thread has the slot.         *)
(***************************************************************************)
THEOREM OneSubprocessPerUseCase == Spec => []OneChildPerUseCase
<1>1. Init => ChildInv
  BY DEF Init, ChildInv
<1>2. TypeOK /\ SlotInv /\ ChildInv => OneChildPerUseCase
  BY DEF TypeOK, SlotInv, ThreadOwnsSlot, ChildInv, OneChildPerUseCase
<1>3. QED
  BY <1>1, <1>2, ChildInvStep, TypeCorrect, SlotInvariance, RecordInvariance, PTL DEF Spec

-----------------------------------------------------------------------------
(* The runner implements JobHistory as long as the disk does not fail.     *)

outcomes == [j \in Job |-> disk[j].state]

\* A step that leaves the slots and every saved state alone is a stutter.
LEMMA HistoryStutter ==
    ASSUME UNCHANGED slot, \A k \in Job : disk'[k].state = disk[k].state
    PROVE  UNCHANGED History!vars
BY DEF History!vars

\* The saved state of one job changes.
LEMMA OutcomeOf ==
    ASSUME TypeOK, NEW j \in Job, NEW rec, disk' = [disk EXCEPT ![j] = rec]
    PROVE  outcomes' = [outcomes EXCEPT ![j] = rec.state]
BY DEF outcomes, TypeOK

\* A step of job j maps to a step of the history, or to a stutter.
LEMMA HistoryOfJob ==
    ASSUME TypeOK, SlotInv, RecordsInv, FilesInv, faults = 0, faults' = 0,
           NEW j \in Job, JobStep(j)
    PROVE  [History!Next]_(History!vars)
<1>0. UseCaseOf[j] \in UseCase
  BY JobAssumption
<1>1. CASE Start(j)
  <2>1. ASSUME NEW k \in Job, UseCaseOf[k] = UseCaseOf[j], disk[k].state = "running"
        PROVE  FALSE
    <3>1. up /\ slot[UseCaseOf[j]] = NoJob
      BY <1>1 DEF Start, Claim
    <3>2. pc[k] \in Unsaved
      BY <2>1, <3>1 DEF FilesInv, SavedInv
    <3>3. slot[UseCaseOf[k]] = k
      BY <3>2 DEF SlotInv, ThreadOwnsSlot, Unsaved, Working, ThreadAt
    <3>4. QED
      BY <2>1, <3>1, <3>3, JobAssumption
  <2>2. outcomes' = [outcomes EXCEPT ![j] = "running"]
    <3>1. Started.state = "running"
      BY DEF Started, Absent
    <3>2. disk' = [disk EXCEPT ![j] = Started]
      BY <1>1 DEF Start
    <3>3. QED
      BY <3>1, <3>2, OutcomeOf
  <2>3. History!Begin(j)
    BY <1>1, <2>1, <2>2 DEF Start, Claim, Fresh, History!Begin, History!Siblings, outcomes
  <2>4. QED
    BY <2>3 DEF History!Next
<1>2. CASE FinalSave(j)
  <2>1. pc[j] = "final_save"
    BY <1>2 DEF FinalSave, Goto
  <2>2. slot[UseCaseOf[j]] = j /\ disk[j].state = "running" /\ mem[j].state \in Final
    BY <2>1 DEF SlotInv, ThreadOwnsSlot, FilesInv, SavedInv, Unsaved
  <2>3. outcomes' = [outcomes EXCEPT ![j] = mem[j].state]
    BY <1>2, OutcomeOf DEF FinalSave, SaveRecord
  <2>4. History!Conclude(j)
    BY <1>2, <2>2, <2>3 DEF FinalSave, History!Conclude, History!Final, Final, outcomes
  <2>5. QED
    BY <2>4 DEF History!Next
<1>3. CASE Release(j)
  <2>1. pc[j] = "release"
    BY <1>3 DEF Release, Goto
  <2>2. slot[UseCaseOf[j]] = j /\ disk[j].state \in Final
    BY <2>1 DEF SlotInv, ThreadOwnsSlot, FilesInv, SavedInv
  <2>3. History!Release(j)
    BY <1>3, <2>2 DEF Release, History!Release, History!Final, Final
  <2>4. QED
    BY <2>3 DEF History!Next
<1>4. CASE Recover(j)
  <2>1. slot[UseCaseOf[j]] # j
    BY <1>0, <1>4, JobAssumption DEF Recover, SlotInv
  <2>2. outcomes' = [outcomes EXCEPT ![j] = "failed"]
    <3>1. Recovered(disk[j]).state = "failed"
      BY DEF Recovered
    <3>2. disk' = [disk EXCEPT ![j] = Recovered(disk[j])]
      BY <1>4 DEF Recover
    <3>3. QED
      BY <3>1, <3>2, OutcomeOf
  <2>3. History!Interrupt(j)
    BY <1>4, <2>1, <2>2 DEF Recover, History!Interrupt, outcomes
  <2>4. QED
    BY <2>3 DEF History!Next
<1>5. CASE ~Start(j) /\ ~FinalSave(j) /\ ~Release(j) /\ ~Recover(j)
  <2>1. UNCHANGED slot
    BY <1>5, JobAssumption DEF JobStep, StartFault, OpenLog, WriteHeader, PreludeDone,
       PreludeFails, SkipAll, SaveUnprepared, SkipStep, BeginStep, SaveRunning, Spawn,
       SpawnFails, GiveUp, StepExits, TailFault, SaveStep, Report, Seal, Hook, ThreadDies,
       WriteFault, OrphanExits
  <2>2. \A k \in Job : disk'[k].state = disk[k].state
    <3>1. pc[j] \in {"save_unprepared", "mark", "save_step"} =>
              mem[j].state = "running" /\ disk[j].state = "running"
      BY DEF RecordsInv, RecordInv, ThreadInv, FilesInv, SavedInv, Unsaved, Working, ThreadAt
    <3>2. QED
      BY <1>5, <3>1, FileOfJob DEF TypeOK
  <2>3. QED
    BY <2>1, <2>2, HistoryStutter
<1>6. QED
  BY <1>1, <1>2, <1>3, <1>4, <1>5

(***************************************************************************)
(* As long as the disk does not fail, the runner keeps the promise of      *)
(* JobHistory: one active job per use case, a history in which a job       *)
(* begins only after the earlier ones of its use case have their outcomes, *)
(* and outcomes that stay.                                                 *)
(***************************************************************************)
THEOREM ImplementsHistory ==
    ASSUME MaxFaults = 0
    PROVE  Spec => HistorySpec
<1>1. Init => History!Init
  BY JobAssumption DEF Init, History!Init, Absent
<1>2. TypeOK /\ TypeOK' /\ SlotInv /\ RecordsInv /\ FilesInv /\ [Next]_vars
          => [History!Next]_(History!vars)
  <2> SUFFICES ASSUME TypeOK, TypeOK', SlotInv, RecordsInv, FilesInv, [Next]_vars
               PROVE  [History!Next]_(History!vars)
    OBVIOUS
  <2>1. faults = 0 /\ faults' = 0
    BY DEF TypeOK
  <2>2. ASSUME NEW j \in Job, JobStep(j) PROVE [History!Next]_(History!vars)
    BY <2>1, <2>2, HistoryOfJob
  <2>3. CASE Crash
    BY <2>3 DEF Crash, History!Next, History!Restart
  <2>4. CASE Serve \/ UNCHANGED vars
    BY <2>4 DEF Serve, vars, History!vars
  <2>5. QED
    BY <2>2, <2>3, <2>4, NextCases
<1>3. QED
  BY <1>1, <1>2, TypeCorrect, SlotInvariance, RecordInvariance, FilesInvariance, PTL
     DEF Spec, HistorySpec, History!Spec
=============================================================================
