------------------------------ MODULE MCPolaris ------------------------------
(* An instance of Polaris for TLC: ages on both sides of each threshold.    *)
EXTENDS Polaris

CONSTANTS N, p           \* a node and its peer

MCAges == {149, 150, 180, Never}
=============================================================================
