\* The instance of Starts.
SPECIFICATION Spec
CONSTANTS
    MaxPort = 4
    DshPort = 3
    Attempts = 2
    Ports = {0, 1, 3, 4}
    Addresses = {a1, a2}
    Exposed = lan
    None = None
    Torn = Torn
    MaxEvents = 3
INVARIANT PageKeepsBootable
CHECK_DEADLOCK FALSE
