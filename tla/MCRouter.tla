------------------------------ MODULE MCRouter ------------------------------
EXTENDS Router

MCParamsOf == [n \in Names |-> IF n = First THEN {} ELSE Params]
=============================================================================
