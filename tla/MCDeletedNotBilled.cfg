\* A checkout paid while the account is being deleted.
SPECIFICATION Spec
CONSTANTS
    s1 = s1
    s2 = s2
    basic = basic
    pro = pro
    studio = studio
    r1 = r1
    r2 = r2
    NoSub = NoSub
    NoPlan = NoPlan
    Subs = {s1}
    Plans = {basic, pro}
    Requests = {r1}
    Amount <- MCAmount
    MaxCharges = 1
    Unordered = FALSE
SYMMETRY Symmetry
INVARIANT DeletedNotBilled
CHECK_DEADLOCK FALSE
