SPECIFICATION Spec
CONSTANTS
    u1 = u1
    u2 = u2
    j1 = j1
    j2 = j2
    j3 = j3
    NoJob = NoJob
    UseCase <- MCUseCase
    Job <- MCJob
    UseCaseOf <- MCUseCaseOf
    NumSteps = 2
    MaxFaults = 2
INVARIANTS
    TypeOK
    ThreadOwnsSlot
    OneChildPerUseCase
    RunningRecordIsLive
    StepsRunInOrder
    OutcomeIsComplete
    OneRunningRecord
PROPERTIES
    SavedOutcomeStays
