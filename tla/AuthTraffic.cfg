\* Visitors and the console, two requests at a time beside the sweep, under
\* failing saves, restarts and a damaged document.
SPECIFICATION Spec
CONSTANTS
    Calls = {c1, c2}
    Timer = timer
    Addresses = {a1}
    Passwords = {p1, p2}
    Tokens = {t1, t2}
    Links = {k1}
    None = None
    Unreadable = Unreadable
    OtherVersion = OtherVersion
    SessionMaxAge = 2
    AdminMaxAge = 1
    MaxFailed = 2
    LockoutMs = 1
    MaxTime = 2
    Requests = {"login", "unlock", "lock", "setPassword", "revoke"}
    Faults = {"save", "restart", "damage"}
SYMMETRY FullSymmetry
INVARIANTS FailureBudget RevokedStayRevoked
PROPERTIES LedgerSpec SessionsKept QuietLockoutHolds
