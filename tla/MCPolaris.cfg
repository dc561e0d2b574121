\* One node with one link, booted twice; two of its reports may be on their way,
\* so that they overtake each other. Rows of different nodes, and the rows of a
\* report, do not depend on each other.
SPECIFICATION FairSpec
CONSTANTS
    N = N
    p = p
    Other = Other
    Never = Never
    Nodes = {N}
    Peers = {p}
    Ages <- MCAges
    StaleAfter = 150
    DegradedAfter = 180
    MaxBoots = 2
    MaxFlying = 2
INVARIANTS TypeOK ResolvedOwn
PROPERTIES FeedSettles
