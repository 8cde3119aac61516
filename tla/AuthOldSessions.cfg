\* A login in flight while the password changes.
SPECIFICATION Spec
CONSTANTS
    Calls = {c1, c2}
    Timer = timer
    Addresses = {a1}
    Passwords = {p1, p2}
    Tokens = {t1, t2, t3}
    Links = {k1}
    None = None
    Unreadable = Unreadable
    OtherVersion = OtherVersion
    SessionMaxAge = 2
    AdminMaxAge = 1
    MaxFailed = 2
    LockoutMs = 1
    MaxTime = 0
    Requests = {"login", "setPassword"}
    Faults = {}
SYMMETRY CookieSymmetry
INVARIANTS OldSessionsAreGone
\* The bounds end the run: no cookie value is left and the clock has stopped.
CHECK_DEADLOCK FALSE
