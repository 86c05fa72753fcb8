\* A charge and a confirmation of the address that overlap.
CONSTANTS
    small = small
    big = big
    basic = basic
    pro = pro
    first = first
    upgrade = upgrade
    blind = blind
    other = other
    NoPlan = NoPlan
    Jobs <- MCJobs
    Cost <- MCCost
    Plans <- MCPlans
    Allowance <- MCAllowance
    Charges <- MCCharges
    Transaction <- MCTransaction
    PaidDays <- MCPaidDays
    Bonus = 4
    Confirmations = {v1, v2}
    Deletions = {d1}
SPECIFICATION Spec
INVARIANTS
    BalanceIsLedger
CHECK_DEADLOCK FALSE
