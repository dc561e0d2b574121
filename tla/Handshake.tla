------------------------------ MODULE Handshake ------------------------------
(***************************************************************************)
(* What friending promises, token by token: at each node a token goes from *)
(* unused to a friendship to spent and never back, the receiver can only   *)
(* use a token that was offered, and the giver only one its receiver used. *)
(* A node may take several such steps at once.                             *)
(***************************************************************************)
CONSTANTS Nodes, Tokens,
          Giver          \* the node that mints each token

VARIABLES offers,        \* tokens that were handed out
          phase          \* per node and token

vars == <<offers, phase>>

Phases == {"unused", "friends", "spent"}

Init == /\ offers = {}
        /\ phase = [n \in Nodes |-> [t \in Tokens |-> "unused"]]

\* The phases that may follow p.
From(p) == CASE p = "unused"  -> Phases
             [] p = "friends" -> {"friends", "spent"}
             [] p = "spent"   -> {"spent"}

\* Whether node n may use token t for the first time.
Usable(n, t) == IF n = Giver[t] THEN \E p \in Nodes \ {n} : phase[p][t] # "unused"
                                ELSE t \in offers

\* A node offers tokens and moves on with those it has.
Step(n) ==
    /\ \E S \in SUBSET {t \in Tokens : Giver[t] = n} : offers' = offers \cup S
    /\ \E f \in [Tokens -> Phases] :
         /\ \A t \in Tokens :
              /\ f[t] \in From(phase[n][t])
              /\ phase[n][t] = "unused" /\ f[t] # "unused" => Usable(n, t)
         /\ phase' = [phase EXCEPT ![n] = f]

Next == \E n \in Nodes : Step(n)

Spec == Init /\ [][Next]_vars
=============================================================================
