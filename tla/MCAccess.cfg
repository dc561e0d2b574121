\* An address that two failures lock out and the host's own, two reveals at once,
\* boots with a token of the operator and without. Nothing but Pass is left when
\* both have used up their attempts, so it never stops.
SPECIFICATION FairSpec
CONSTANTS
    R = R
    L = L
    Ips = {R, L}
    Loopback = {L}
    Slots = {1, 2}
    EnvChoices = {TRUE, FALSE}
    Max = 2
    Window = 2
    MaxPast = 4
INVARIANTS GuessesBounded ConsumedFirst
PROPERTY LockEnds
