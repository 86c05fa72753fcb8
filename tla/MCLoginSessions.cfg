\* Two requests at once, five links, two passwords.
SPECIFICATION Spec
CONSTANTS
    Unusable = Unusable
    Passwords = {old, new}
    Cookies = {c1, c2}
    Resets = {k1, k2}
    Confirms = {m1, m2, m3}
    Requests = {r1, r2}
SYMMETRY Symmetry
INVARIANTS
    RevokedUnlessSlipped
    NewestWorks
    ErasedUnlessLate
PROPERTY
    VoidedNeverWorks
CHECK_DEADLOCK FALSE
