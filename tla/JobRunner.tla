----------------------------- MODULE JobRunner ------------------------------
(***************************************************************************)
(* app/jobs.py: the in-process job runner, with the job records of         *)
(* app/store.py.  One thread per job runs the prelude and the steps; the   *)
(* dictionary `_running` (here `slot`) admits one job per use case; the    *)
(* record is a Python object (`mem`) that the thread changes without a     *)
(* lock and saves now and then to runs/<id>.json (`disk`, atomic by        *)
(* rename).  The process may end between any two steps of any thread; the  *)
(* container takes the steps' subprocesses with it and starts it again,    *)
(* and recover() runs before the first request is served.                  *)
(*                                                                         *)
(* A file operation may fail (a full disk): `faults` counts the failures,  *)
(* at most MaxFaults of them.  Job ids are drawn fresh, so the use case an *)
(* id will be drawn for is fixed in advance by UseCaseOf.                  *)
(***************************************************************************)
EXTENDS Naturals

CONSTANTS UseCase, Job, NoJob, UseCaseOf,
          NumSteps,     \* steps of a procedure
          MaxFaults     \* bound on failing file operations

ASSUME JobAssumption == /\ NoJob \notin Job
                        /\ UseCaseOf \in [Job -> UseCase]
                        /\ NumSteps \in Nat
                        /\ MaxFaults \in Nat

VARIABLES up,       \* recover() is done and requests are served
          slot,     \* JobRunner._running, by use case
          mem,      \* the record object of the job
          disk,     \* runs/<job id>.json
          pc,       \* where the job's thread is; "none" when it has none
          idx,      \* the thread's loop index
          failed,   \* the thread's flag of that name
          child,    \* jobs with a step's subprocess alive
          faults    \* file operations that have failed so far

vars == <<up, slot, mem, disk, pc, idx, failed, child, faults>>

Step == 1..NumSteps
Final == {"succeeded", "failed"}
StepState == {"pending", "running", "skipped"} \cup Final
Record == [state : {"absent", "running"} \cup Final,
           steps : [Step -> StepState],
           error : {"none", "prelude", "step", "interrupted"}]

\* A job without a file, or without an object in memory.
Absent == [state |-> "absent", steps |-> [i \in Step |-> "pending"], error |-> "none"]

\* The record start() builds.
Started == [Absent EXCEPT !.state = "running"]

ThreadAt == {"open", "header", "prelude", "unprepared", "save_unprepared",
             "loop", "mark", "announce", "exec", "given_up", "report",
             "save_step", "final_save", "release", "hook"}

TypeOK ==
    /\ up \in BOOLEAN
    /\ slot \in [UseCase -> Job \cup {NoJob}]
    /\ mem \in [Job -> Record]
    /\ disk \in [Job -> Record]
    /\ pc \in [Job -> ThreadAt \cup {"none"}]
    /\ idx \in [Job -> 1..(NumSteps + 1)]
    /\ failed \in [Job -> BOOLEAN]
    /\ child \subseteq Job
    /\ faults \in 0..MaxFaults

Init ==
    /\ up = FALSE
    /\ slot = [u \in UseCase |-> NoJob]
    /\ mem = [j \in Job |-> Absent]
    /\ disk = [j \in Job |-> Absent]
    /\ pc = [j \in Job |-> "none"]
    /\ idx = [j \in Job |-> 1]
    /\ failed = [j \in Job |-> FALSE]
    /\ child = {}
    /\ faults = 0

-----------------------------------------------------------------------------
(* start(): the check, the slot and the first save are one section under   *)
(* _lock.  A request that finds the slot taken raises JobConflict and      *)
(* changes nothing.                                                        *)

Fresh(j) == /\ disk[j].state = "absent"
            /\ mem[j].state = "absent"

\* Mutant: the look at the slot is left out.
ClaimTaken(j) ==
    /\ up
    /\ Fresh(j)
    /\ slot' = [slot EXCEPT ![UseCaseOf[j]] = j]
    /\ mem' = [mem EXCEPT ![j] = Started]
    /\ UNCHANGED <<up, idx, failed, child>>

Claim(j) ==
    /\ up
    /\ Fresh(j)
    /\ slot[UseCaseOf[j]] = NoJob
    /\ slot' = [slot EXCEPT ![UseCaseOf[j]] = j]
    /\ mem' = [mem EXCEPT ![j] = Started]
    /\ UNCHANGED <<up, idx, failed, child>>

Start(j) ==
    /\ Claim(j)
    /\ disk' = [disk EXCEPT ![j] = Started]
    /\ pc' = [pc EXCEPT ![j] = "open"]
    /\ UNCHANGED faults

\* save_run raises: the request ends in a 500 and no thread is started.
StartFault(j) ==
    /\ faults < MaxFaults
    /\ Claim(j)
    /\ faults' = faults + 1
    /\ UNCHANGED <<disk, pc>>

-----------------------------------------------------------------------------
(* _run(), up to the loop over the steps.                                  *)

Goto(j, from, to) == /\ pc[j] = from
                     /\ pc' = [pc EXCEPT ![j] = to]

\* _save: the record as it is now goes to disk, under _lock.
SaveRecord(j) == disk' = [disk EXCEPT ![j] = mem[j]]

\* The LogWriter is made outside the try block.
OpenLog(j) ==
    /\ Goto(j, "open", "header")
    /\ UNCHANGED <<up, slot, mem, disk, idx, failed, child, faults>>

WriteHeader(j) ==
    /\ Goto(j, "header", "prelude")
    /\ UNCHANGED <<up, slot, mem, disk, idx, failed, child, faults>>

PreludeDone(j) ==
    /\ Goto(j, "prelude", "loop")
    /\ UNCHANGED <<up, slot, mem, disk, idx, failed, child, faults>>

\* Any exception of the prelude, one of the log included.
PreludeFails(j) ==
    /\ Goto(j, "prelude", "unprepared")
    /\ failed' = [failed EXCEPT ![j] = TRUE]
    /\ mem' = [mem EXCEPT ![j].error = "prelude"]
    /\ UNCHANGED <<up, slot, disk, idx, child, faults>>

SkipAll(j) ==
    /\ Goto(j, "unprepared", "save_unprepared")
    /\ mem' = [mem EXCEPT ![j].steps = [i \in Step |-> "skipped"]]
    /\ UNCHANGED <<up, slot, disk, idx, failed, child, faults>>

SaveUnprepared(j) ==
    /\ Goto(j, "save_unprepared", "loop")
    /\ SaveRecord(j)
    /\ UNCHANGED <<up, slot, mem, idx, failed, child, faults>>

-----------------------------------------------------------------------------
(* One round of the loop.                                                  *)

SetStep(rec, i, s) == [rec EXCEPT !.steps[i] = s]

SkipStep(j) ==
    /\ pc[j] = "loop"
    /\ idx[j] \in Step
    /\ failed[j]
    /\ mem' = [mem EXCEPT ![j] = SetStep(@, idx[j], "skipped")]
    /\ idx' = [idx EXCEPT ![j] = @ + 1]
    /\ UNCHANGED <<up, slot, disk, pc, failed, child, faults>>

BeginStep(j) ==
    /\ idx[j] \in Step
    /\ ~failed[j]
    /\ Goto(j, "loop", "mark")
    /\ mem' = [mem EXCEPT ![j] = SetStep(@, idx[j], "running")]
    /\ UNCHANGED <<up, slot, disk, idx, failed, child, faults>>

SaveRunning(j) ==
    /\ Goto(j, "mark", "announce")
    /\ SaveRecord(j)
    /\ UNCHANGED <<up, slot, mem, idx, failed, child, faults>>

\* Two log lines, then Popen.
Spawn(j) ==
    /\ Goto(j, "announce", "exec")
    /\ child' = child \cup {j}
    /\ UNCHANGED <<up, slot, mem, disk, idx, failed, faults>>

\* The step gets its exit code, its end time and its state.
SetResult(j, result) == mem' = [mem EXCEPT ![j] = SetStep(@, idx[j], result)]

\* Popen raises.
SpawnFails(j) ==
    /\ Goto(j, "announce", "given_up")
    /\ UNCHANGED <<up, slot, mem, disk, idx, failed, child, faults>>

\* "could not start step" is logged, and the exit code is -1.
GiveUp(j) ==
    /\ Goto(j, "given_up", "report")
    /\ SetResult(j, "failed")
    /\ UNCHANGED <<up, slot, disk, idx, failed, child, faults>>

\* Mutant: the end of the output is taken for the end of the subprocess.
StepExitsUnwaited(j) ==
    /\ Goto(j, "exec", "report")
    /\ \E result \in Final : SetResult(j, result)
    /\ UNCHANGED <<up, slot, disk, idx, failed, child, faults>>

\* End of output, and wait() returns the exit code.
StepExits(j) ==
    /\ Goto(j, "exec", "report")
    /\ child' = child \ {j}
    /\ \E result \in Final : SetResult(j, result)
    /\ UNCHANGED <<up, slot, disk, idx, failed, faults>>

\* Mutant: the flag is not set.
ReportOnly(j) ==
    /\ Goto(j, "report", "save_step")
    /\ IF mem[j].steps[idx[j]] = "failed"
       THEN mem' = [mem EXCEPT ![j].error = "step"]
       ELSE UNCHANGED mem
    /\ UNCHANGED <<up, slot, disk, idx, failed, child, faults>>

\* The exit line is logged; a failing step fails the job.
Report(j) ==
    /\ Goto(j, "report", "save_step")
    /\ IF mem[j].steps[idx[j]] = "failed"
       THEN /\ failed' = [failed EXCEPT ![j] = TRUE]
            /\ mem' = [mem EXCEPT ![j].error = "step"]
       ELSE UNCHANGED <<failed, mem>>
    /\ UNCHANGED <<up, slot, disk, idx, child, faults>>

SaveStep(j) ==
    /\ Goto(j, "save_step", "loop")
    /\ SaveRecord(j)
    /\ idx' = [idx EXCEPT ![j] = @ + 1]
    /\ UNCHANGED <<up, slot, mem, failed, child, faults>>

\* The loop is over: the job's own state, and the last log line.
Seal(j) ==
    /\ idx[j] > NumSteps
    /\ Goto(j, "loop", "final_save")
    /\ mem' = [mem EXCEPT ![j].state = IF failed[j] THEN "failed" ELSE "succeeded"]
    /\ UNCHANGED <<up, slot, disk, idx, failed, child, faults>>

-----------------------------------------------------------------------------
(* The finally block.                                                      *)

\* Mutant: the finally block only closes the log and pops the slot.
FinalSaveMissing(j) ==
    /\ Goto(j, "final_save", "release")
    /\ UNCHANGED <<up, slot, mem, disk, idx, failed, child, faults>>

FinalSave(j) ==
    /\ Goto(j, "final_save", "release")
    /\ SaveRecord(j)
    /\ UNCHANGED <<up, slot, mem, idx, failed, child, faults>>

\* Mutant: a failed job keeps its slot.
ReleaseSucceeded(j) ==
    /\ Goto(j, "release", "hook")
    /\ slot' = IF failed[j] THEN slot ELSE [slot EXCEPT ![UseCaseOf[j]] = NoJob]
    /\ UNCHANGED <<up, mem, disk, idx, failed, child, faults>>

\* The log is closed and the slot is popped.
Release(j) ==
    /\ Goto(j, "release", "hook")
    /\ slot' = [slot EXCEPT ![UseCaseOf[j]] = NoJob]
    /\ UNCHANGED <<up, mem, disk, idx, failed, child, faults>>

\* on_finish returns or raises; the thread ends and its record is garbage.
Hook(j) ==
    /\ Goto(j, "hook", "none")
    /\ mem' = [mem EXCEPT ![j] = Absent]
    /\ idx' = [idx EXCEPT ![j] = 1]
    /\ failed' = [failed EXCEPT ![j] = FALSE]
    /\ UNCHANGED <<up, slot, disk, child, faults>>

-----------------------------------------------------------------------------
(* Failing file operations.                                                *)

\* Outside the try block (the log's open) or inside the finally block (the
\* last save, the log's close): the thread dies before it pops the slot.
ThreadDies(j) ==
    /\ faults < MaxFaults
    /\ pc[j] \in {"open", "final_save", "release"}
    /\ pc' = [pc EXCEPT ![j] = "none"]
    /\ faults' = faults + 1
    /\ UNCHANGED <<up, slot, mem, disk, idx, failed, child>>

\* A log line or a save inside the try block: straight to the finally block.
WriteFault(j) ==
    /\ faults < MaxFaults
    /\ pc[j] \in {"header", "unprepared", "save_unprepared", "mark",
                  "announce", "given_up", "report", "save_step"}
    /\ pc' = [pc EXCEPT ![j] = "final_save"]
    /\ faults' = faults + 1
    /\ UNCHANGED <<up, slot, mem, disk, idx, failed, child>>

\* A line of the subprocess's output cannot be written: _exec is left with
\* the subprocess alive, as if it had not started.
TailFault(j) ==
    /\ faults < MaxFaults
    /\ Goto(j, "exec", "given_up")
    /\ faults' = faults + 1
    /\ UNCHANGED <<up, slot, mem, disk, idx, failed, child>>

\* A subprocess nobody waits for any more ends at last.
OrphanExits(j) ==
    /\ j \in child
    /\ pc[j] # "exec"
    /\ child' = child \ {j}
    /\ UNCHANGED <<up, slot, mem, disk, pc, idx, failed, faults>>

-----------------------------------------------------------------------------
(* The process ends and starts again.                                      *)

Crash ==
    /\ up' = FALSE
    /\ slot' = [u \in UseCase |-> NoJob]
    /\ mem' = [j \in Job |-> Absent]
    /\ pc' = [j \in Job |-> "none"]
    /\ idx' = [j \in Job |-> 1]
    /\ failed' = [j \in Job |-> FALSE]
    /\ child' = {}
    /\ UNCHANGED <<disk, faults>>

\* Mutants: a state no reader of the record knows; pending steps stay pending.
RecoveredStepUnknown(s) == IF s \in {"running", "pending"} THEN "interrupted" ELSE s
RecoveredStepPending(s) == IF s = "running" THEN "failed" ELSE s

RecoveredStep(s) == CASE s = "running" -> "failed"
                      [] s = "pending" -> "skipped"
                      [] OTHER -> s

Recovered(rec) == [state |-> "failed",
                   steps |-> [i \in Step |-> RecoveredStep(rec.steps[i])],
                   error |-> "interrupted"]

\* Mutant: every record is rewritten, whatever its state.
RecoverAll(j) ==
    /\ ~up
    /\ disk[j].state # "absent"
    /\ disk' = [disk EXCEPT ![j] = Recovered(disk[j])]
    /\ UNCHANGED <<up, slot, mem, pc, idx, failed, child, faults>>

\* recover() rewrites one record after another, each in one save.  A save
\* that fails ends the start-up, which is a Crash.
Recover(j) ==
    /\ ~up
    /\ disk[j].state = "running"
    /\ disk' = [disk EXCEPT ![j] = Recovered(disk[j])]
    /\ UNCHANGED <<up, slot, mem, pc, idx, failed, child, faults>>

\* Mutant: requests are served while recover() is at work.
ServeEarly ==
    /\ ~up
    /\ up' = TRUE
    /\ UNCHANGED <<slot, mem, disk, pc, idx, failed, child, faults>>

Serve ==
    /\ ~up
    /\ \A j \in Job : disk[j].state # "running"
    /\ up' = TRUE
    /\ UNCHANGED <<slot, mem, disk, pc, idx, failed, child, faults>>

-----------------------------------------------------------------------------
\* What the thread of job j does by itself, its wait for a subprocess apart.
ThreadStep(j) ==
    \/ OpenLog(j) \/ WriteHeader(j)
    \/ PreludeDone(j) \/ PreludeFails(j) \/ SkipAll(j) \/ SaveUnprepared(j)
    \/ SkipStep(j) \/ BeginStep(j) \/ SaveRunning(j) \/ Spawn(j)
    \/ SpawnFails(j) \/ GiveUp(j) \/ Report(j) \/ SaveStep(j) \/ Seal(j)
    \/ FinalSave(j) \/ Release(j) \/ Hook(j)

Fault(j) == StartFault(j) \/ ThreadDies(j) \/ WriteFault(j) \/ TailFault(j)

Next ==
    \/ \E j \in Job : \/ Start(j) \/ ThreadStep(j) \/ StepExits(j)
                      \/ Fault(j) \/ OrphanExits(j) \/ Recover(j)
    \/ Crash
    \/ Serve

Spec == Init /\ [][Next]_vars

(***************************************************************************)
(* Threads are scheduled and start-up goes on.  Nothing is assumed of      *)
(* requests, of subprocesses (a step has no timeout), of faults or of      *)
(* crashes.                                                                *)
(***************************************************************************)
Fairness == /\ \A j \in Job : WF_vars(ThreadStep(j)) /\ WF_vars(Recover(j))
            /\ WF_vars(Serve)

FairSpec == Spec /\ Fairness

-----------------------------------------------------------------------------
(***************************************************************************)
(* Two threads never work for one use case, whatever fails: a thread that  *)
(* has not popped its slot is the one the slot names.  A job that outlived *)
(* its slot could apply and destroy the same stack as its successor        *)
(* (jobs.py:1, "at most one running job per use case").                    *)
(***************************************************************************)
ThreadOwnsSlot ==
    \A j \in Job : pc[j] \notin {"none", "hook"} => slot[UseCaseOf[j]] = j

(***************************************************************************)
(* As long as the disk has not failed, no use case has two subprocesses.   *)
(* The release of the slot comes after the last wait() (jobs.py:257, 284). *)
(***************************************************************************)
OneChildPerUseCase ==
    faults = 0 =>
        \A j, k \in child : UseCaseOf[j] = UseCaseOf[k] => j = k

(***************************************************************************)
(* As long as the disk has not failed, a record that a request can read    *)
(* as "running" has a thread behind it, whatever crashes came before: the  *)
(* final save precedes the pop, and recover() precedes the first request   *)
(* (jobs.py:254-258, main.py:106).                                         *)
(***************************************************************************)
RunningRecordIsLive ==
    faults = 0 /\ up =>
        \A j \in Job : disk[j].state = "running" =>
            slot[UseCaseOf[j]] = j /\ pc[j] # "none"

(***************************************************************************)
(* In the record, in memory and on disk, after faults and after a restart, *)
(* a step has begun only if every step before it succeeded: nothing runs   *)
(* after a failure (jobs.py:227-229).                                      *)
(***************************************************************************)
InOrder(rec) ==
    \A i, k \in Step :
        i < k /\ rec.steps[k] \in {"running"} \cup Final => rec.steps[i] = "succeeded"

StepsRunInOrder == \A j \in Job : InOrder(mem[j]) /\ InOrder(disk[j])

(***************************************************************************)
(* A record with an outcome is complete: "succeeded" means every step      *)
(* succeeded and no error is set, "failed" means that the error says why   *)
(* (a step of a job that failed at a step did fail), and that no step is   *)
(* left pending or running (jobs.py:109-118, 246-251).                     *)
(***************************************************************************)
Complete(rec) ==
    /\ rec.state = "succeeded" =>
          rec.error = "none" /\ \A i \in Step : rec.steps[i] = "succeeded"
    /\ rec.state = "failed" =>
          /\ rec.error # "none"
          /\ \A i \in Step : rec.steps[i] \notin {"pending", "running"}
          /\ rec.error = "step" => \E i \in Step : rec.steps[i] = "failed"

OutcomeIsComplete == \A j \in Job : Complete(mem[j]) /\ Complete(disk[j])

(***************************************************************************)
(* A saved outcome is never rewritten, by a late save of the thread or by  *)
(* recover() after a restart (jobs.py:107-108).                            *)
(***************************************************************************)
SavedOutcomeStays ==
    [][\A j \in Job : disk[j].state \in Final => disk'[j] = disk[j]]_vars

(***************************************************************************)
(* JobConflict says "A job is already running for this use case."          *)
(* (jobs.py:71, 183): whenever start() would raise it, the job in the slot *)
(* has a thread.  False once a file operation has failed outside the try   *)
(* block or in the finally block: the slot stays taken until the process   *)
(* restarts.                                                               *)
(***************************************************************************)
ConflictIsTruthful ==
    \A u \in UseCase : slot[u] # NoJob => pc[slot[u]] # "none"

(***************************************************************************)
(* If the disk does not fail and no subprocess runs for ever, then         *)
(* every job a request started gets an outcome on disk, in spite of any    *)
(* number of crashes, and its use case becomes free again.                 *)
(***************************************************************************)
SubprocessesEnd == \A j \in Job : []<>(j \notin child)

EveryJobEnds ==
    MaxFaults = 0 /\ SubprocessesEnd =>
        \A j \in Job : /\ disk[j].state = "running" ~> disk[j].state \in Final
                       /\ slot[UseCaseOf[j]] = j ~> slot[UseCaseOf[j]] # j

(***************************************************************************)
(* As long as the disk does not fail, the runner keeps the promise of      *)
(* JobHistory: the slot is the active job and the saved state the outcome. *)
(***************************************************************************)
History == INSTANCE JobHistory
               WITH active <- slot, outcome <- [j \in Job |-> disk[j].state]

HistorySpec == History!Spec

(***************************************************************************)
(* As long as the disk has not failed, at most one file of a use case says *)
(* "running", with crashes at any point and recover() cut short by them:   *)
(* list_runs() never shows two jobs of one use case at work (jobs.py:1).   *)
(***************************************************************************)
OneRunningRecord == faults = 0 => History!OneRunningRecord
=============================================================================
