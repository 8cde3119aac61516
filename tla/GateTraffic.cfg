\* One browser with a background request, the operator and every kind of
\* event: decisions stand, the ways in agree, and whoever follows the pages
\* gets in again.
SPECIFICATION FairSpec
CONSTANTS
    Browsers = {b1}
    Extras = {x1}
    Console = console
    Ids = {d1, d2, d3}
    None = None
    NoRecord = NoRecord
    Modes = {"password", "token", "token_and_password"}
    Whims = {"decide", "switch", "sessionEnds", "openForm", "link", "restart", "saveFails"}
    MaxEvents = 2
INVARIANTS DecisionsStand EntryPointsAgree NobodyStranded
PROPERTIES Recoverable
