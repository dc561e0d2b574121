------------------------------- MODULE MCShare -------------------------------
(* An instance of Share for TLC.                                            *)
EXTENDS Share

CONSTANTS H, s, t,       \* the hub and two spokes
          f, g           \* files of one and two units

\* t claims the address of s.
MCClaims == [x \in Spokes |-> {s}]
MCSize == [x \in Files |-> IF x = f THEN 1 ELSE 2]
=============================================================================
