----------------------------- MODULE MCMessages -----------------------------
(* An instance of Messages for TLC. *)
EXTENDS Messages

CONSTANTS A, B,          \* nodes
          m1, m2,        \* messages from A to B
          s1, s2         \* slots

MCSender == [m \in Messages |-> A]
MCRecipient == [m \in Messages |-> B]

\* The clock of A runs a tick before that of B.
ATickBefore == [m \in Messages |-> 1]

\* A sends one message at a time; B takes in two blobs at once.
OneAndTwo == [n \in Nodes |-> IF n = A THEN {s1} ELSE {s1, s2}]
=============================================================================
