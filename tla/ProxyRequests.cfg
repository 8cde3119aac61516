\* Two visitors that reload and one that posts, every fault.
SPECIFICATION FairSpec
CONSTANTS
    Requests = {get1, get2, post1}
    Safe = {get1, get2}
    Exchanges = {x1, x2}
    None = None
    Faults = {"restart", "forget", "age", "exchange", "request", "leave", "seam"}
    MaxFaults = 2
INVARIANTS OneExchange NoSecondEffect RestartNoticed NobodyStuck
PROPERTIES RequestsAnswered SessionHeals
