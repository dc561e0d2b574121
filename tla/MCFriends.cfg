\* Two nodes that invite each other, over a network that may repeat, delay,
\* reorder and lose, with crashes, expiry and a clock that runs ahead. When every
\* token is spent and the clock is at its bound nothing is left to do.
SPECIFICATION Spec
CONSTANTS
    A = A
    B = B
    C = C
    ab = ab
    ba = ba
    abc = abc
    None = None
    Giver <- MCGiver
    Bearers <- MCBearers
    Nodes = {A, B}
    Tokens = {ab, ba}
    Ahead <- BAhead
    Ttl = 1
    Skew = 1
    Faults = {"replay", "crash"}
    MaxNotices = 1
    MaxNow = 1
INVARIANTS TypeOK Backed
PROPERTIES NoRevival ImplementsHandshake
CHECK_DEADLOCK FALSE
