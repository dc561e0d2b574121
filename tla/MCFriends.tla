------------------------------ MODULE MCFriends ------------------------------
(* Instances of Friends for TLC. *)
EXTENDS Friends, TLC

CONSTANTS A, B, C,       \* nodes
          ab, ba,        \* tokens that A gives B and B gives A
          abc            \* a token of A whose code reaches both B and C

MCGiver == [t \in Tokens |-> IF t = ba THEN B ELSE A]
MCBearers == [t \in Tokens |-> IF t = ba THEN {A} ELSE IF t = abc THEN {B, C} ELSE {B}]

\* Clocks that agree, and one that runs a tick ahead.
InStep == [n \in Nodes |-> 0]
BAhead == [n \in Nodes |-> IF n = B THEN 1 ELSE 0]
=============================================================================
