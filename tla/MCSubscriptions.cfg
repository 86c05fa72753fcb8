\* Two checkouts of three plans, one request at a time, one-off sales, webhooks in any order and repeated.
SPECIFICATION Spec
CONSTANTS
    s1 = s1
    s2 = s2
    basic = basic
    pro = pro
    studio = studio
    r1 = r1
    r2 = r2
    NoSub = NoSub
    NoPlan = NoPlan
    Subs = {s1, s2}
    Plans = {basic, pro, studio}
    Requests = {r1}
    Amount <- MCAmount
    MaxCharges = 2
    Unordered = TRUE
SYMMETRY Symmetry
INVARIANTS IInv AgreesAtRest
PROPERTIES NoRepoint PlanLostOnlyWhenEnded
CHECK_DEADLOCK FALSE
