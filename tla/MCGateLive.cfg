\* Liveness, without a crash.
SPECIFICATION FairSpec
CONSTANTS
    Nonces = {n1, n2}
    Reqs = {r1}
    NoNonce = NoNonce
    Freshness = 1
    Prune = 2
    Ttl = 2
    BackoffCap = 3
    HelperFaults = {"spawn"}
    TornWrites = FALSE
    MaxQueue = 1
    MaxOpens = 2
PROPERTIES WindowEnds RequestsAnswered
