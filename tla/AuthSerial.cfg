\* One request at a time, of every kind, beside the sweep; no fault.
SPECIFICATION FairSpec
CONSTANTS
    Calls = {c1}
    Timer = timer
    Addresses = {a1}
    Passwords = {p1, p2}
    Tokens = {t1, t2}
    Links = {k1}
    None = None
    Unreadable = Unreadable
    OtherVersion = OtherVersion
    SessionMaxAge = 1
    AdminMaxAge = 1
    MaxFailed = 1
    LockoutMs = 1
    MaxTime = 1
    Requests = {"login", "link", "unlock", "lock", "setPassword", "setAdminPassword", "ensureLink", "rotateLink", "revoke"}
    Faults = {}
INVARIANTS SecretsDurable OldSessionsAreGone
PROPERTIES OtherSecretsKept ExpiredReclaimed
