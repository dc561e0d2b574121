---------------------------- MODULE EgressWindow ----------------------------
(***************************************************************************)
(* What the internet gate promises, without timers, locks, helper          *)
(* processes or files: egress opens only for a canary that was never spent *)
(* before, and a refused canary is spent too.                              *)
(***************************************************************************)
CONSTANT Nonces          \* the canaries an admin has signed

VARIABLES window,        \* "shut" (island) or "open" (internet)
          spent          \* canaries that opened a window or were refused

vars == <<window, spent>>

Init == window = "shut" /\ spent = {}

\* A canary opens a window, or extends the one that is open.
Open(n) == /\ n \notin spent
           /\ window' = "open"
           /\ spent' = spent \cup {n}

\* The policy refuses a canary: it can never be presented again.
Refuse(n) == /\ n \notin spent
             /\ spent' = spent \cup {n}
             /\ UNCHANGED window

\* The window ends, by its time limit or by hand.
Close == /\ window' = "shut"
         /\ UNCHANGED spent

Next == \/ \E n \in Nonces : Open(n) \/ Refuse(n)
        \/ Close

Spec == Init /\ [][Next]_vars
=============================================================================
