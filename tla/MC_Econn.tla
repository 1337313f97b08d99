------------------------------ MODULE MC_Econn ------------------------------
(* Econn instantiated for TLC: two endpoints, alpha/c1 calling bravo/c2.  *)
EXTENDS Econn

CONSTANTS a, b   \* model values: the two endpoints

MCEndpoints == {a, b}

\* "alpha"/"c1" < "bravo"/"c2": b wins a glare (spec scenario S2).
MCIdent == [e \in MCEndpoints |-> IF e = a THEN <<1, 1>> ELSE <<2, 2>>]
=============================================================================
