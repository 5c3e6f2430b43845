\* Four jobs on two workers, two failures of any kind, the pool may be closed.
CONSTANTS
    Job = {1, 2, 3, 4}
    NoJob = NoJob
    number_of_workers = 2
    Faults = {"throw", "load", "oom", "messageerror"}
    MaxFaults = 2
    AllowClose = TRUE
SPECIFICATION FairSpec
ACTION_CONSTRAINT SubmittedInOrder
INVARIANTS TypeOK NoIdleWhileQueued NoLostJob OwnAnswer WorkersAreAccountedFor
PROPERTIES ImplementsJobService EveryJobIsAnswered
CHECK_DEADLOCK FALSE
