\* An account deleted after two jobs enhanced the same image.
SPECIFICATION Spec
CONSTANTS
    NoJob = NoJob
    Images = {i1}
    Jobs = {j1, j2}
    Requests = {r1}
    Downloads = {d1}
    MaxFailures = 0
SYMMETRY Symmetry
INVARIANT ErasedFromStorage
CHECK_DEADLOCK FALSE
