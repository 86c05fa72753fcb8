\* One image, two jobs of it, two deletions at once, a download, and two failures.
SPECIFICATION Spec
CONSTANTS
    NoJob = NoJob
    Images = {i1}
    Jobs = {j1, j2}
    Requests = {r1, r2}
    Downloads = {d1}
    MaxFailures = 2
SYMMETRY Symmetry
INVARIANTS
    IInv
    RowsHaveFiles
    ActiveJobsKept
    MissingForCause
PROPERTY
    DeletedForGood
CHECK_DEADLOCK FALSE
