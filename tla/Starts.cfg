\* Four ports of which DSH has one, two addresses, three events.
SPECIFICATION FairSpec
CONSTANTS
    MaxPort = 4
    DshPort = 3
    Attempts = 2
    Ports = {0, 1, 3, 4}
    Addresses = {a1, a2}
    Exposed = lan
    None = None
    Torn = Torn
    MaxEvents = 3
INVARIANTS PhonesKeepTrust WalkSkipsOnlyTaken
PROPERTIES FailsForReason ComesBack
CHECK_DEADLOCK FALSE
