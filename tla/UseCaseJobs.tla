---------------------------- MODULE UseCaseJobs -----------------------------
(***************************************************************************)
(* The jobs of one use case as app/usecases/engine.py sees them: the slot  *)
(* and the record of JobRunner, in the order module JobRunner keeps (slot  *)
(* and first record, steps, final record, slot popped, hook), the POST     *)
(* handler that is not done when start() returns, and what the steps do to *)
(* the world.  StateCache and PlanCache extend it.                         *)
(*                                                                         *)
(* The world's version names the job that last changed what is deployed.   *)
(***************************************************************************)
EXTENDS Naturals

CONSTANTS MaxJobs,    \* bound on the jobs that are started
          ActionOf    \* the action each of them is started for

Job == 1..MaxJobs     \* in the order of their ids
NoJob == 0
Action == {"on", "off"}
Final == {"succeeded", "failed"}
Phase == {"none", "work", "save", "pop", "hook", "over"}
World == [ver : {NoJob} \cup Job, deployed : BOOLEAN]
AtFirst == [ver |-> NoJob, deployed |-> FALSE]

VARIABLES
    slot,       \* JobRunner._running for the use case
    begun,      \* the newest job
    record,     \* its state in runs/<id>.json
    verdict,    \* its state in the record object of its thread
    phase,      \* where its thread is
    posting,    \* the job whose POST has not invalidated the caches yet
    world       \* what is deployed

jobVars == <<slot, begun, record, verdict, phase, posting, world>>

JobsTypeOK ==
    /\ slot \in {NoJob} \cup Job
    /\ begun \in {NoJob} \cup Job
    /\ record \in [Job -> {"absent", "running"} \cup Final]
    /\ verdict \in [Job -> {"none"} \cup Final]
    /\ phase \in [Job -> Phase]
    /\ posting \in {NoJob} \cup Job
    /\ world \in World

JobsInit ==
    /\ slot = NoJob /\ begun = NoJob /\ posting = NoJob
    /\ record = [j \in Job |-> "absent"]
    /\ verdict = [j \in Job |-> "none"]
    /\ phase = [j \in Job |-> "none"]
    /\ world = AtFirst

Move(j, from, to) == /\ phase[j] = from
                     /\ phase' = [phase EXCEPT ![j] = to]

\* POST /on or /off runs on the event loop: start() and then invalidate(),
\* and no other POST between the two.
StartJob(j) ==
    /\ j = begun + 1
    /\ posting = NoJob
    /\ slot = NoJob
    /\ slot' = j /\ begun' = j /\ posting' = j
    /\ record' = [record EXCEPT ![j] = "running"]
    /\ Move(j, "none", "work")
    /\ UNCHANGED <<verdict, world>>

\* The POST handler is done (its invalidate() is the caches' business).
Posted ==
    /\ posting # NoJob
    /\ posting' = NoJob
    /\ UNCHANGED <<slot, begun, record, verdict, phase, world>>

\* A step changes what is deployed; an OFF job may leave something behind.
Apply(j) ==
    /\ phase[j] = "work"
    /\ world.ver # j
    /\ \E deployed \in BOOLEAN :
           /\ ActionOf[j] = "on" => deployed
           /\ world' = [ver |-> j, deployed |-> deployed]
    /\ UNCHANGED <<slot, begun, record, verdict, phase, posting>>

\* The steps are over; a job may fail before it has changed anything.
Conclude(j, v) ==
    /\ Move(j, "work", "save")
    /\ v = "succeeded" => world = [ver |-> j, deployed |-> ActionOf[j] = "on"]
    /\ verdict' = [verdict EXCEPT ![j] = v]
    /\ UNCHANGED <<slot, begun, record, posting, world>>

SaveOutcome(j) ==
    /\ Move(j, "save", "pop")
    /\ record' = [record EXCEPT ![j] = verdict[j]]
    /\ UNCHANGED <<slot, begun, verdict, posting, world>>

\* Mutant: the slot is popped before the record is saved.
PopUnsaved(j) ==
    /\ Move(j, "save", "hook")
    /\ slot' = NoJob
    /\ UNCHANGED <<begun, record, verdict, posting, world>>

Pop(j) ==
    /\ Move(j, "pop", "hook")
    /\ slot' = NoJob
    /\ UNCHANGED <<begun, record, verdict, posting, world>>

\* on_finish is called (what it does is the caches' business).
Hook(j) ==
    /\ Move(j, "hook", "over")
    /\ UNCHANGED <<slot, begun, record, verdict, posting, world>>

\* What the job's thread and its steps do, the hook apart.
Work(j) ==
    \/ Apply(j)
    \/ \E v \in Final : Conclude(j, v)
    \/ SaveOutcome(j)
    \/ Pop(j)

\* No job is at work, and the caches were invalidated after the last one.
Quiet == /\ slot = NoJob
         /\ posting = NoJob
         /\ \A j \in Job : phase[j] \in {"none", "over"}

\* History: invalidate() is called in this step.
JobInvalidates == \/ posting # NoJob /\ posting' = NoJob
                  \/ \E j \in Job : phase[j] = "hook" /\ phase'[j] = "over"
=============================================================================
