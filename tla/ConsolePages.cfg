\* A phone with a device identity: its calls overlap, the operator changes the
\* console in another browser, sessions expire and calls fail.
SPECIFICATION FairSpec
CONSTANTS
    Pages = {phone}
    Local = {}
    Paired = {phone}
    Hurried = {phone}
    Cookies = {k1, k2, k3}
    None = None
    Kinds = {"unlock", "lock", "policy", "protection", "mode", "switch", "setPassword", "setAdminPassword", "rotate", "device"}
    Policies = {"local_only", "password_unlock"}
    MaxEvents = 1
    MaxTroubles = 1
INVARIANTS ViewIsCurrent
PROPERTIES SavedMeansDone ConfirmationsLast LockedConsoleOpens
CHECK_DEADLOCK FALSE
