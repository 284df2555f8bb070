SPECIFICATION Spec
CONSTANTS
    r1 = r1
    r2 = r2
    r3 = r3
    Reqs = {r1, r2, r3}
    First = First
    Own = Own
    Bad = Bad
    None = None
    n1 = n1
    n2 = n2
    Names = {n1, n2}
    a1 = a1
    Addresses = {a1}
    Passwords = {"right"}
    Wanted = {{}, {"password"}}
    MaxAtOnce = 2
SYMMETRY Symmetry
CHECK_DEADLOCK FALSE
INVARIANTS
    TwinsHaveCause
    TokenHasCause
    LoginHasCause
    HardenedHasCause
