\* A sends two messages, one at a time; B takes in two blobs at once. The blobs
\* are lost, delayed past their freshness and repeated at will; both nodes crash.
\* The caps hold one log entry and one id, so the second message reaches both.
\* When both are sent, stale and answered nothing is left to do but to crash.
SPECIFICATION Spec
CONSTANTS
    A = A
    B = B
    m1 = m1
    m2 = m2
    None = None
    Nodes = {A, B}
    Messages = {m1, m2}
    Sender <- MCSender
    Recipient <- MCRecipient
    s1 = s1
    s2 = s2
    Slots <- OneAndTwo
    Ahead <- ATickBefore
    MaxAge = 2
    MaxSkew = 1
    MaxPerPeer = 1
    MaxSeen = 1
INVARIANTS TypeOK TakenOnce DeliveredKept
CHECK_DEADLOCK FALSE
