\* Webhooks in order, handlers that fail now and then.
SPECIFICATION FairSpec
CONSTANTS
    s1 = s1
    s2 = s2
    basic = basic
    pro = pro
    studio = studio
    r1 = r1
    r2 = r2
    NoSub = NoSub
    NoPlan = NoPlan
    Subs = {s1}
    Plans = {basic, pro, studio}
    Requests = {r1}
    Amount <- MCAmount
    MaxCharges = 2
    Unordered = FALSE
PROPERTIES EndedIsForgotten PaidIsSettled
CHECK_DEADLOCK FALSE
