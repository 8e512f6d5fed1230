--------------------------- MODULE MCForwardRules ---------------------------
(* An instance of ForwardRules.                                            *)
EXTENDS ForwardRules

CONSTANTS a1, a2, k1, e1, e2, s1

(* The last tab of a session closes and a new one opens on it.             *)
TwoEpochs == [e \in {e1, e2} |-> s1]
=============================================================================
