\* A node with events that happen once, one of them refused by the hub, caps that
\* nothing overruns and a window that something does, queries that fail, lost
\* answers and crashes.
SPECIFICATION FairSpec
CONSTANTS
    n = n
    e1 = e1
    e2 = e2
    e3 = e3
    e4 = e4
    Nodes = {n}
    Events = {e1, e2, e3, e4}
    Origin <- MCOrigin
    Sensors = 2
    Sensor <- MCSensor
    Recurring = {}
    Refused = {e4}
    Window = 2
    RelayCap = 20
    MeshCap = 20
    PullLimit = 2
    Faults = {"blind", "down", "late", "crash"}
    MaxClock = 3
    MaxFaults = 2
INVARIANTS TypeOK SeqNamesEvent ShownOnce NoGap
 
CHECK_DEADLOCK FALSE
