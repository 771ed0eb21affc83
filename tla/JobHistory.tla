----------------------------- MODULE JobHistory -----------------------------
(***************************************************************************)
(* What the job runner of app/jobs.py promises to the rest of the          *)
(* application, with threads, steps, saves and locks left out:             *)
(*                                                                         *)
(*   - a use case has at most one active job;                              *)
(*   - the job records of a use case are a history: a new job begins only  *)
(*     when none of the use case's records is still "running";             *)
(*   - a record gets its outcome once and keeps it;                        *)
(*   - a restart forgets which jobs were active, and what they were doing  *)
(*     is recorded as a failure.                                           *)
(*                                                                         *)
(* JobRunner implements this specification (JobRunner!History).            *)
(***************************************************************************)
CONSTANTS UseCase,      \* the use cases, as directories under data/usecases
          Job,          \* job ids, as _new_job_id draws them
          NoJob,        \* "no active job"
          UseCaseOf     \* the use case each id is drawn for

VARIABLES active,       \* the active job of each use case
          outcome       \* what the job's record says of it

vars == <<active, outcome>>

Final == {"succeeded", "failed"}
Outcome == {"absent", "running"} \cup Final

TypeOK == /\ active \in [UseCase -> Job \cup {NoJob}]
          /\ outcome \in [Job -> Outcome]

Init == /\ active = [u \in UseCase |-> NoJob]
        /\ outcome = [j \in Job |-> "absent"]

Siblings(j) == {k \in Job : UseCaseOf[k] = UseCaseOf[j]}

\* POST /on or /off is answered with 202.
Begin(j) ==
    /\ active[UseCaseOf[j]] = NoJob
    /\ outcome[j] = "absent"
    /\ \A k \in Siblings(j) : outcome[k] # "running"
    /\ active' = [active EXCEPT ![UseCaseOf[j]] = j]
    /\ outcome' = [outcome EXCEPT ![j] = "running"]

\* The active job gets its outcome.
Conclude(j) ==
    /\ active[UseCaseOf[j]] = j
    /\ outcome[j] = "running"
    /\ \E o \in Final : outcome' = [outcome EXCEPT ![j] = o]
    /\ UNCHANGED active

\* A use case is given free only once its job has an outcome.
Release(j) ==
    /\ active[UseCaseOf[j]] = j
    /\ outcome[j] \in Final
    /\ active' = [active EXCEPT ![UseCaseOf[j]] = NoJob]
    /\ UNCHANGED outcome

\* The process ends: nothing is active any more.
Restart ==
    /\ active' = [u \in UseCase |-> NoJob]
    /\ UNCHANGED outcome

\* After a restart: what was running has failed.
Interrupt(j) ==
    /\ active[UseCaseOf[j]] # j
    /\ outcome[j] = "running"
    /\ outcome' = [outcome EXCEPT ![j] = "failed"]
    /\ UNCHANGED active

Next == \/ \E j \in Job : Begin(j) \/ Conclude(j) \/ Release(j) \/ Interrupt(j)
        \/ Restart

Spec == Init /\ [][Next]_vars

-----------------------------------------------------------------------------
(***************************************************************************)
(* No use case ever has two records that say "running" (jobs.py:1, "at     *)
(* most one running job per use case"), across restarts.                   *)
(***************************************************************************)
OneRunningRecord ==
    \A j, k \in Job :
        /\ UseCaseOf[j] = UseCaseOf[k]
        /\ outcome[j] = "running"
        /\ outcome[k] = "running"
        => j = k
=============================================================================
