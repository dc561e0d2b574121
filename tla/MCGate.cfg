\* One daemon that does not crash, with the helper gate.ts assumes: a verb
\* that fails has changed nothing.
SPECIFICATION Spec
CONSTANTS
    Nonces = {n1, n2}
    Reqs = {r1, r2}
    NoNonce = NoNonce
    Freshness = 1
    Prune = 2
    Ttl = 2
    BackoffCap = 3
    HelperFaults = {"spawn"}
    TornWrites = FALSE
    MaxQueue = 2
    MaxOpens = 2
SYMMETRY Symmetry
INVARIANTS TypeOK NonceOnce WindowTimeBoxed NoLeftoverTimer EgressHonest EgressTimeBoxed
PROPERTY ImplementsWindow
