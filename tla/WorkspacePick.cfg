\* Two flows, two listings under way, the tree and the console changing.
SPECIFICATION FairPickerSpec
CONSTANTS
    NameOrder <- MCNames
    Sensitive = {"secret"}
    BlockedPrefixes <- MCBlocked
    Home <- MCHome
    Shortcuts = {"docs"}
    MaxEntries = 2
    LinkLimit = 2
    MaxTarget = 2
    Slots = {s1, s2}
    None = None
    Trees <- MCTrees
    Policies = {"password_unlock", "local_only"}
    BrowseLimit = 1
    MaxFlows = 2
    MaxEvents = 1
INVARIANTS NeverStuck FenceHolds RowsLead
PROPERTIES UnlockLeadsIn
CHECK_DEADLOCK FALSE
