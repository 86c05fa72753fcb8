\* Every interleaving of two jobs, four transactions, a cancellation, a doubled
\* confirmation link and a deletion request.
CONSTANTS
    small = small
    big = big
    basic = basic
    pro = pro
    first = first
    upgrade = upgrade
    blind = blind
    other = other
    NoPlan = NoPlan
    Jobs <- MCJobs
    Cost <- MCCost
    Plans <- MCPlans
    Allowance <- MCAllowance
    Charges <- MCCharges
    Transaction <- MCTransaction
    PaidDays <- MCPaidDays
    Bonus = 4
    Confirmations = {v1, v2}
    Deletions = {d1}
SPECIFICATION Spec
SYMMETRY MCSymmetry
INVARIANTS
    TypeOK
    AgreeUnlessOverlapped
    ChargeSettledOnce
    CreditsArePaidFor
PROPERTIES
    NothingUndone
    DeletedEarnsNothing
CHECK_DEADLOCK FALSE
