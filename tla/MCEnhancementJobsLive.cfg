\* Liveness: two pool threads, two slots, one crash.
CONSTANTS
    alice = alice
    bob = bob
    a1 = a1
    a2 = a2
    a3 = a3
    b1 = b1
    Users <- MCUsers
    Jobs <- MCFewJobs
    Owner <- MCFewOwner
    Cost <- MCFewCost
    InitialCredits <- MCInitialCredits
    MaxConcurrentJobs = 2
    MaxQueuedJobs = 2
    MaxQueuedJobsPerUser = 2
    MaxCrashes = 1
SPECIFICATION FairSpec
PROPERTIES
    SlotsComeBack
    ChargedJobSettles
CHECK_DEADLOCK FALSE
