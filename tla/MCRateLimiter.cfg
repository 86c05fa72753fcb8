\* Logins that race for the lock.
CONSTANTS
    ip = ip
    email = email
    Requests = {r1, r2}
    Keys = {ip, email}
    Emails = {email}
    Routes <- MCRoutes
    Limit <- MCLimit
    Window <- MCWindow
    PruneEvery = 1
    Delay = 1
    MaxClock = 4
SPECIFICATION Spec
SYMMETRY Symmetry
INVARIANTS
    WindowHolds
    RetryHonest
PROPERTIES
    ForgetsOneOffs
CHECK_DEADLOCK FALSE
