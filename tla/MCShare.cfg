\* A hub and two spokes, one of which claims the other's address; two calls at
\* once, two files, and room for one large or two small ones. A call that is under
\* way can always end, so it never stops.
SPECIFICATION Spec
CONSTANTS
    H = H
    s = s
    t = t
    f = f
    g = g
    None = None
    Hub = H
    Spokes = {s, t}
    Users = {H, s}
    Claims <- MCClaims
    Files = {f, g}
    Size <- MCSize
    Cap = 2
    MaxUpload = 2
    Backends = {"memory", "sqlite"}
    Slots = {1, 2}
    MaxId = 2
INVARIANTS TypeOK WithinCap FindsMeant RightlyNamed AckedListed
