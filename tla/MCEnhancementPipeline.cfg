\* Everything about one job; FairSpec for AlwaysEnds.
CONSTANTS
    large = large
    small = small
    t1 = t1
    t2 = t2
    Calls <- MCCalls
    CreateAttempts = 2
    Deadline = 2
    Faces <- MCFaces
    Closeups = {large}
    Texts <- MCTexts
    Requests <- MCRequests
    Similarities = {30, 40, 90}
SPECIFICATION FairSpec
INVARIANTS
    TypeOK
    UnwatchedForCause
    OptionalNeverFails
    FacesSurvive
    IdentityGated
    TextsSurvive
PROPERTIES
    AlwaysEnds
CHECK_DEADLOCK FALSE
