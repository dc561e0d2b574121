\* The kernel's endpoint of one peer is set to a wrong one, once.
SPECIFICATION FairSpec
CONSTANTS
    p = p
    Peers = {p}
    Role = "spoke"
    StaleAfter = 2
    DegradedAfter = 3
    RestoredHold = 1
    Staleness = 3
    Window = 4
    MaxReResolve = 2
    MaxBounce = 0
    Rekey = 1
    Snapshot = TRUE
    Drifts = {"wrong"}
    Restarts = FALSE
    MaxFaults = 1
PROPERTY Heals
