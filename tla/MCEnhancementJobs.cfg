\* Safety: one pool thread, two slots, two crashes (the second may hit the sweep).
CONSTANTS
    alice = alice
    bob = bob
    a1 = a1
    a2 = a2
    a3 = a3
    b1 = b1
    Users <- MCUsers
    Jobs <- MCJobs
    Owner <- MCOwner
    Cost <- MCCost
    InitialCredits <- MCInitialCredits
    MaxConcurrentJobs = 1
    MaxQueuedJobs = 2
    MaxQueuedJobsPerUser = 2
    MaxCrashes = 2
SPECIFICATION Spec
INVARIANTS
    TypeOK
    SlotsExact
    CreditsConserved
    RefusalIsFree
PROPERTIES
    SweepLeavesNothing
    LifecycleRefined
    AdmissionRefined
CHECK_DEADLOCK FALSE
