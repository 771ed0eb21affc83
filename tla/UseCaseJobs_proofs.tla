-------------------------- MODULE UseCaseJobs_proofs ------------------------
(***************************************************************************)
(* What the caches' proofs need to know of the jobs: their types, and when *)
(* a step of theirs can make the use case quiet.                           *)
(***************************************************************************)
EXTENDS UseCaseJobs, TLAPS

\* The types, with the verdict that the last save needs.
JobsInv == JobsTypeOK /\ \A j \in Job : phase[j] = "save" => verdict[j] \in Final

\* It holds before the first job.
LEMMA JobsInvInit == JobsInit => JobsInv
BY DEF JobsInit, JobsInv, JobsTypeOK, Phase, World, AtFirst

\* Every step of a job keeps the types.
LEMMA JobsInvStep ==
    ASSUME JobsInv, NEW j \in Job,
           StartJob(j) \/ Posted \/ Work(j) \/ Hook(j) \/ UNCHANGED jobVars
    PROVE  JobsInv'
<1> USE DEF JobsInv, JobsTypeOK, Move
<1>1. CASE StartJob(j)
  BY <1>1 DEF StartJob, Phase
<1>2. CASE Posted \/ UNCHANGED jobVars
  BY <1>2 DEF Posted, jobVars
<1>3. CASE Hook(j)
  BY <1>3 DEF Hook, Phase
<1>4. CASE Work(j)
  <2>1. CASE Apply(j)
    BY <2>1 DEF Apply, World
  <2>2. CASE \E v \in Final : Conclude(j, v)
    BY <2>2 DEF Conclude, Phase
  <2>3. CASE SaveOutcome(j)
    BY <2>3 DEF SaveOutcome, Phase
  <2>4. CASE Pop(j)
    BY <2>4 DEF Pop, Phase
  <2>5. QED
    BY <1>4, <2>1, <2>2, <2>3, <2>4 DEF Work
<1>5. QED
  BY <1>1, <1>2, <1>3, <1>4

\* The use case is not quiet after a step of a job, except when the step
\* invalidates the caches.
LEMMA WorkIsNotQuiet ==
    ASSUME JobsTypeOK, NEW j \in Job, StartJob(j) \/ Work(j)
    PROVE  ~Quiet'
<1>1. CASE StartJob(j)
  BY <1>1 DEF StartJob, Quiet, NoJob, Job
<1>2. CASE Work(j)
  BY <1>2 DEF Work, Apply, Conclude, SaveOutcome, Pop, Move, Quiet, JobsTypeOK
<1>3. QED
  BY <1>1, <1>2

\* The ends of a POST and of a job are the steps that invalidate.
LEMMA EndsInvalidate ==
    ASSUME JobsTypeOK, NEW j \in Job, Posted \/ Hook(j)
    PROVE  JobInvalidates
BY DEF Posted, Hook, Move, JobInvalidates, JobsTypeOK
-----------------------------------------------------------------------------
(* The slot, the records and the threads.  The runner saves before it pops, *)
(* so an empty slot means that the newest job's record tells its outcome.  *)

JobsAgree ==
    /\ slot # NoJob => slot = begun
    /\ slot = NoJob /\ begun # NoJob => phase[begun] \in {"hook", "over"}
    /\ \A j \in Job : /\ phase[j] \in {"work", "save", "pop"} => slot = j
                      /\ phase[j] \in {"pop", "hook", "over"} => record[j] = verdict[j]

\* It holds before the first job.
LEMMA JobsAgreeInit == JobsInit => JobsAgree
BY DEF JobsInit, JobsAgree

\* Every step of a job keeps it.
LEMMA JobsAgreeStep ==
    ASSUME JobsTypeOK, JobsAgree, NEW j \in Job,
           StartJob(j) \/ Posted \/ Work(j) \/ Hook(j) \/ UNCHANGED jobVars
    PROVE  JobsAgree'
<1> USE DEF JobsTypeOK, JobsAgree, Move
<1>1. CASE StartJob(j)
  BY <1>1 DEF StartJob, NoJob, Job
<1>2. CASE Posted \/ UNCHANGED jobVars
  BY <1>2 DEF Posted, jobVars
<1>3. CASE Hook(j)
  BY <1>3 DEF Hook
<1>4. CASE Work(j)
  <2>1. CASE Apply(j)
    BY <2>1 DEF Apply
  <2>2. CASE \E v \in Final : Conclude(j, v)
    BY <2>2 DEF Conclude
  <2>3. CASE SaveOutcome(j)
    BY <2>3 DEF SaveOutcome
  <2>4. CASE Pop(j)
    BY <2>4 DEF Pop, NoJob, Job
  <2>5. QED
    BY <1>4, <2>1, <2>2, <2>3, <2>4 DEF Work
<1>5. QED
  BY <1>1, <1>2, <1>3, <1>4

\* Only the start of a job fills the slot, and it makes the job the newest.
LEMMA SlotIsFilledByStart ==
    ASSUME JobsTypeOK, NEW j \in Job,
           StartJob(j) \/ Posted \/ Work(j) \/ Hook(j) \/ UNCHANGED jobVars,
           begun' = begun, slot = NoJob
    PROVE  slot' = NoJob
BY DEF JobsTypeOK, StartJob, Posted, Work, Apply, Conclude, SaveOutcome, Pop, Hook, jobVars,
       Job, NoJob
=============================================================================
