\* One peer, every fault, the flag --snapshot as deployed; the faults are bounded,
\* so they end.
SPECIFICATION FairSpec
CONSTANTS
    p = p
    Peers = {p}
    Role = "spoke"
    StaleAfter = 2
    DegradedAfter = 3
    RestoredHold = 1
    Staleness = 3
    Window = 4
    MaxReResolve = 2
    MaxBounce = 0
    Rekey = 1
    Snapshot = TRUE
    Drifts = {"none", "wrong"}
    Restarts = TRUE
    MaxFaults = 5
INVARIANTS TypeOK BreakerHolds RecoveryEarned RosterTruthful
PROPERTY HealsUnlessMisled
