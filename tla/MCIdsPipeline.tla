---------------------------- MODULE MCIdsPipeline ----------------------------
(* Instances of IdsPipeline for TLC. *)
EXTENDS IdsPipeline

CONSTANTS n,                \* a node
          e1, e2, e3, e4    \* events

\* All events are the node's; each of the two queries of a sweep shows two of them.
MCOrigin == [e \in Events |-> n]
MCSensor == [e \in Events |-> IF e \in {e1, e3} THEN 1 ELSE 2]
=============================================================================
