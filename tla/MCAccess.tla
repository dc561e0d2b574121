------------------------------ MODULE MCAccess -------------------------------
(* An instance of Access for TLC.                                           *)
EXTENDS Access

CONSTANTS R, L           \* an address of the mesh and one of the host itself
=============================================================================
