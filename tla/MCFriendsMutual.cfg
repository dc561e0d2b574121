\* Three nodes: two invite each other, and a third and one of them answer the
\* same code. Messages may come again and in any order; nothing is lost, expires
\* or is revoked. It stops when every token is used.
SPECIFICATION Spec
CONSTANTS
    A = A
    B = B
    C = C
    ab = ab
    ba = ba
    abc = abc
    None = None
    Giver <- MCGiver
    Bearers <- MCBearers
    Nodes = {A, B, C}
    Tokens = {ab, ba, abc}
    Ahead <- InStep
    Ttl = 2
    Skew = 1
    Faults = {"replay"}
    MaxNotices = 0
    MaxNow = 0
INVARIANTS OneFriendPerToken Mutual
CHECK_DEADLOCK FALSE
